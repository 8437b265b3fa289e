SPECIFICATION FairSpec
CONSTANTS
    Loops = {l1, l2}
    Handlers = {h1}
    Configs <- MaskConfigs
    DefaultConfig <- Default
    NoProc = NoProc
    MaxConns = 2
    MaxCrashes = 0
    MaxLate = 0
PROPERTIES CallsReturn CancelledLoopsExit KeepsRefreshing PartialSnapshotHeals MaskReachesStatus
