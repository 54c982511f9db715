\* Two callers, tokens that fit, no failures: only the interleaving of
\* two unlocked check_access_token calls around an expiry.
CONSTANTS
    Threads = {t1, t2}
    Cap = 2
    AccessLens = {1}
    RefreshLen = 1
    Lifetime = 3
    Margin = 1
    MaxTime = 3
    MaxNetFail = 0
    MaxDiskFail = 0
    MaxRestart = 0
SPECIFICATION Spec
SYMMETRY Symmetry
INVARIANT SentWithFreshToken
