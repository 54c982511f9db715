\* Three files of three bytes and a budget of three, three calls of root,
\* the owner and another user: every handler, granted and refused, runs.
CONSTANTS
    Files = {a, b, c}
    MaxSize = 3
    MaxOps = 3
    MaxVer = 1
    CacheMax = 3
    MaxNetFail = 0
    InitLens = {3}
    Callers <- MCCallers
    MountUser <- Owner
    Modes <- MCModes
SPECIFICATION Spec
SYMMETRY Symmetry
INVARIANT TypeOK
 
