\* Two files of one to 3 bytes, three calls, one remote change.
CONSTANTS
    Files = {a, b}
    MaxSize = 3
    MaxOps = 3
    MaxVer = 1
    CacheMax = 4
    MaxNetFail = 0
    InitLens = {1, 2, 3}
    Callers <- OwnerOnly
    MountUser <- Owner
    Modes <- NoModes
SPECIFICATION Spec
SYMMETRY Symmetry
INVARIANT CallsReturnSafely
