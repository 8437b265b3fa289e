SPECIFICATION SpecKv
CONSTANTS
    Loops = {l1, l2}
    Handlers = {h1}
    Configs <- MaskConfigs
    DefaultConfig <- Default
    NoProc = NoProc
    MaxConns = 1
    MaxCrashes = 0
    MaxLate = 0
SYMMETRY Symmetry
INVARIANTS MaskedConfigMasks
