SPECIFICATION Spec
CONSTANTS
    MaxChunks = 2
    MaxAnswer = 2
CHECK_DEADLOCK FALSE
INVARIANTS EndOfBodyIsTrue
