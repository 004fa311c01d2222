\* A pending document is renamed over one the server refused.
CONSTANTS
    Vaults = {work}
    Paths = {a, b}
    Posts <- Announcements
    NoPost = NoPost
    Never = Never
    MaxTime = 0
    MaxGeneration = 1
    MaxAttempts = 1
    BatchLimit = 10
    Threads = {t1}
    Unreadable = {}
    MaxBirths = 1
    FaultKinds = {"refused"}
    MaxFaults = 1
    Renames <- AnyRename

SPECIFICATION Spec
PROPERTIES
    RefusedStaysBlocked
