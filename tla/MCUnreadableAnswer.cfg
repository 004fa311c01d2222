\* A created post whose answer cannot be read: PostedAgainOnlyIfLost is violated.
CONSTANTS
    Vault = work
    Document = a
    Vaults = {work}
    Paths = {a}
    Posts = {p1}
    NoPost = NoPost
    Never = Never
    MaxTime = 45
    MaxGeneration = 1
    MaxAttempts = 4
    ImmediateRetryAttempts = 2
    RetryBase = 1
    RetryMax = 3
    Jitter = 1
    Scale = 2
    Failures <- Unreadable
    Horizon = 1000
    Slack = 2
    MaxFailures = 3
    MaxRestarts = 1

SPECIFICATION FairSpec
INVARIANTS
    PostedAgainOnlyIfLost
