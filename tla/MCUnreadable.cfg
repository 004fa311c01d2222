\* The front matter of document a makes document_title raise; b is an ordinary one.
CONSTANTS
    Vaults = {work}
    Paths = {a, b}
    Posts <- Announcements
    NoPost = NoPost
    Never = Never
    MaxTime = 0
    MaxGeneration = 1
    MaxAttempts = 0
    BatchLimit = 10
    Threads = {t1}
    Unreadable = {a}
    MaxBirths = 1
    FaultKinds = {}
    MaxFaults = 0
    Renames <- NoRenames

SPECIFICATION FairSpec
PROPERTIES
    NoDocumentWaitsForever
