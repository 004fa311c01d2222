\* A document is renamed onto the path of a record that was read before it.
CONSTANTS
    Vaults = {work}
    Paths = {a, b}
    Posts <- Announcements
    NoPost = NoPost
    Never = Never
    MaxTime = 1
    MaxGeneration = 1
    MaxAttempts = 0
    BatchLimit = 10
    Threads = {t1}
    Unreadable = {}
    MaxBirths = 1
    FaultKinds = {}
    MaxFaults = 0
    Renames <- AnyRename

SPECIFICATION Spec
INVARIANTS
    QuietTimeRespected
