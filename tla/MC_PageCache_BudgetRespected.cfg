\* Three files of three bytes, a budget of four and six read calls: enough
\* for each file to be read in two ranges, the second before the first.
CONSTANTS
    Files = {a, b, c}
    MaxSize = 3
    MaxOps = 6
    MaxVer = 0
    CacheMax = 4
    MaxNetFail = 0
    InitLens = {3}
    Callers <- OwnerOnly
    MountUser <- Owner
    Modes <- NoModes
SPECIFICATION Spec
SYMMETRY Symmetry
ACTION_CONSTRAINT ReadCallsOnly
INVARIANT BudgetRespected
