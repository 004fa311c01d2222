\* More due documents in one vault than a pass reads: the limit of 100 is scaled to
\* 1, and the vault has two documents.
CONSTANTS
    Vaults = {work, home}
    Paths = {a, b}
    Posts <- Announcements
    NoPost = NoPost
    Never = Never
    MaxTime = 0
    MaxGeneration = 1
    MaxAttempts = 0
    BatchLimit = 1
    Threads = {t1, t2}
    Unreadable = {}
    MaxBirths = 1
    FaultKinds = {}
    MaxFaults = 0
    Renames <- NoRenames

SPECIFICATION Spec
INVARIANTS
    NoIdleDueVault
