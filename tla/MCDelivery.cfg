\* One path, two generations, one fault: every document is served, every stop ends.
CONSTANTS
    Vaults = {work}
    Paths = {a}
    Posts <- Announcements
    NoPost = NoPost
    Never = Never
    MaxTime = 1
    MaxGeneration = 2
    MaxAttempts = 1
    BatchLimit = 10
    Threads = {t1}
    Unreadable = {}
    MaxBirths = 2
    FaultKinds = {"unanswered", "refused", "storage"}
    MaxFaults = 1
    Renames <- NoRenames

SPECIFICATION FairSpec
PROPERTIES
    NoDocumentWaitsForever
    StopTerminates
