SPECIFICATION Spec
CONSTANTS
    Versions = {"1", "2"}
    Keys = {"k0", "k1", "k2", "k3"}
    Official = "k0"
INVARIANT SuccessVerifies
PROPERTIES  VerdictReached
