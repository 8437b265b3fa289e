SPECIFICATION FairSpec
CONSTANTS
    MaxChunks = 2
    MaxAnswer = 2
CHECK_DEADLOCK FALSE
INVARIANTS TypeOK FrameOrder EndMeansWhole NotSentMeansUntouched NoAnswerToUnfinished
PROPERTIES CancelEnds ForwardReturns
