\* One document against a server that fails three times; one restart.
CONSTANTS
    Vault = work
    Document = a
    Vaults = {work}
    Paths = {a}
    Posts = {p1}
    NoPost = NoPost
    Never = Never
    MaxTime = 45
    MaxGeneration = 1
    MaxAttempts = 4
    ImmediateRetryAttempts = 2
    RetryBase = 1
    RetryMax = 3
    Jitter = 1
    Scale = 2
    Failures <- AnyFailure
    Horizon = 1000
    Slack = 2
    MaxFailures = 3
    MaxRestarts = 1

SPECIFICATION FairSpec
INVARIANTS
    TypeOK
    OutagesNeverBlock
    BackoffInBand
    PostedAgainOnlyIfLost
PROPERTIES
    RetryAfterRespected
    EventuallyPosted
