SPECIFICATION Spec
CONSTANTS
    Loops = {l1, l2}
    Handlers = {h1}
    Configs <- BothConfigs
    DefaultConfig <- Default
    NoProc = NoProc
    MaxConns = 2
    MaxCrashes = 1
    MaxLate = 1
SYMMETRY Symmetry
INVARIANTS TypeOK RefreshMuInv LiveLoopFollowsConfig SuccessorPending
PROPERTY ImplementsView
