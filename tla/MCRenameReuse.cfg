\* A path is taken by another document while a POST for the first is under way.
CONSTANTS
    Vaults = {work}
    Paths = {a, b}
    Posts <- Announcements
    NoPost = NoPost
    Never = Never
    MaxTime = 0
    MaxGeneration = 1
    MaxAttempts = 0
    BatchLimit = 10
    Threads = {t1}
    Unreadable = {}
    MaxBirths = 2
    FaultKinds = {}
    MaxFaults = 0
    Renames <- AnyRename

SPECIFICATION Spec
INVARIANTS
    SentRowWasAnnounced
