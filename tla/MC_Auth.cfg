\* One caller, tokens that fit their arrays, a token lifetime of 3 with a
\* margin of 1 and a clock up to 6: the first token is renewed twice, once
\* on a request and, after a restart, at mount; a token request and an
\* open of the auth file may each fail once.
CONSTANTS
    Threads = {t1}
    Cap = 2
    AccessLens = {1}
    RefreshLen = 1
    Lifetime = 3
    Margin = 1
    MaxTime = 6
    MaxNetFail = 1
    MaxDiskFail = 1
    MaxRestart = 1
SPECIFICATION Spec
INVARIANT TypeOK
INVARIANT SentWithFreshToken
PROPERTY AbstractSpec
