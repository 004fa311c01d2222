\* A pass submits a record it read before the attempt it overlaps with failed.
CONSTANTS
    Vaults = {work}
    Paths = {a}
    Posts <- Announcements
    NoPost = NoPost
    Never = Never
    MaxTime = 0
    MaxGeneration = 1
    MaxAttempts = 1
    BatchLimit = 10
    Threads = {t1, t2}
    Unreadable = {}
    MaxBirths = 1
    FaultKinds = {"refused"}
    MaxFaults = 1
    Renames <- NoRenames

SPECIFICATION Spec
INVARIANTS
    BackoffRespected
