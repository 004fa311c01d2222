\* Two documents of one vault, one of which may fail: neither starves the other.
CONSTANTS
    Vaults = {work}
    Paths = {a, b}
    Posts <- Announcements
    NoPost = NoPost
    Never = Never
    MaxTime = 0
    MaxGeneration = 1
    MaxAttempts = 1
    BatchLimit = 10
    Threads = {t1}
    Unreadable = {}
    MaxBirths = 1
    FaultKinds = {"unanswered", "storage"}
    MaxFaults = 1
    Renames <- NoRenames

SPECIFICATION FairSpec
PROPERTIES
    NoDocumentWaitsForever
