\* Two paths, and renames of either onto the other at any moment.
CONSTANTS
    Vaults = {work}
    Paths = {a, b}
    Posts <- Announcements
    NoPost = NoPost
    Never = Never
    MaxTime = 0
    MaxGeneration = 1
    MaxAttempts = 0
    BatchLimit = 10
    Threads = {t1}
    Unreadable = {}
    MaxBirths = 1
    FaultKinds = {}
    MaxFaults = 0
    Renames <- AnyRename

SPECIFICATION Spec
INVARIANTS
    SleepCoversRetries
    NoRepostOfSent
