\* One path, two generations and any two faults, two posting threads: an attempt
\* that overlaps with restarts, crashes, deletions and later passes.
CONSTANTS
    Vaults = {work}
    Paths = {a}
    Posts <- Announcements
    NoPost = NoPost
    Never = Never
    MaxTime = 1
    MaxGeneration = 2
    MaxAttempts = 2
    BatchLimit = 10
    Threads = {t1, t2}
    Unreadable = {}
    MaxBirths = 2
    FaultKinds = {"query", "storage", "unanswered", "refused", "start", "crash"}
    MaxFaults = 2
    Renames <- NoRenames

SPECIFICATION Spec
SYMMETRY SameThreads
INVARIANTS
    TypeOK
    SlotsMatchTasks
    NoDuplicateAnnouncement
    SentRowWasAnnounced
    SleepCoversRetries
    QuietTimeRespected
PROPERTIES
    RefusedStaysBlocked
