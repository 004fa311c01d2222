\* A document renamed while a replaced watcher scans: AnnouncedOnce is violated.
CONSTANTS
    a = a
    b = b
    c = c
    draft = draft
    ignored = ignored
    Vault = work
    Vaults = {work}
    Paths = {a, b}
    Drafts = {}
    Outside = {}
    Posts <- Numbers
    Renames <- Back
    NoPost = NoPost
    Never = Never
    MaxTime = 3
    MaxGeneration = 5
    MaxAttempts = 1
    Quiet = 1
    Overlaps = {"scan", "renames"}
    Slow = {}
    FaultKinds = {"crash"}
    MaxDocs = 1
    MaxEdits = 2
    MaxFaults = 1

SPECIFICATION Spec
INVARIANTS
    AnnouncedOnce
