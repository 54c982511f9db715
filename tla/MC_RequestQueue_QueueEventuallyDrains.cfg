CONSTANTS
    Ids = {f1}
    ServerIds = {s1}
    SpecialIds = {x1}
    Names = {n1, n2}
    Workers = {w1, w2}
    MaxOps = 3
    MaxNetFail = 1
    MaxRemoteOps = 1
    NoName = NoName
    NoId = NoId
    NoItem = NoItem
    Phantom = Phantom
    MknodModes <- MCMknodModes
    NoNode = NoNode
SPECIFICATION FairSpec
PROPERTY QueueEventuallyDrains
