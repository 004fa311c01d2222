\* One exception of the database on the scheduling thread.
CONSTANTS
    Vaults = {work}
    Paths = {a}
    Posts <- Announcements
    NoPost = NoPost
    Never = Never
    MaxTime = 0
    MaxGeneration = 1
    MaxAttempts = 1
    BatchLimit = 10
    Threads = {t1}
    Unreadable = {}
    MaxBirths = 1
    FaultKinds = {"query"}
    MaxFaults = 1
    Renames <- NoRenames

SPECIFICATION FairSpec
PROPERTIES
    NoDocumentWaitsForever
