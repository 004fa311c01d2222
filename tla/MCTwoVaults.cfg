\* Two vaults share one posting thread; one of them may fail to start or to post.
CONSTANTS
    Vaults = {work, home}
    Paths = {a}
    Posts <- Announcements
    NoPost = NoPost
    Never = Never
    MaxTime = 0
    MaxGeneration = 1
    MaxAttempts = 1
    BatchLimit = 10
    Threads = {t1}
    Unreadable = {}
    MaxBirths = 1
    FaultKinds = {"unanswered", "refused", "start"}
    MaxFaults = 1
    Renames <- NoRenames

SPECIFICATION Spec
INVARIANTS
    NoIdleDueVault
