\* No quiet time, so that nobody waits for anything: AnnouncedOnce is violated.
CONSTANTS
    a = a
    b = b
    c = c
    draft = draft
    ignored = ignored
    Vault = work
    Vaults = {work}
    Paths = {a, b}
    Drafts = {}
    Outside = {}
    Posts <- Numbers
    Renames <- Back
    NoPost = NoPost
    Never = Never
    MaxTime = 3
    MaxGeneration = 5
    MaxAttempts = 1
    Quiet = 0
    Overlaps = {"quiet", "scan", "baseline", "recreated"}
    Slow = {}
    FaultKinds = {"crash", "watcher", "storage"}
    MaxDocs = 2
    MaxEdits = 2
    MaxFaults = 1

SPECIFICATION Spec
INVARIANTS
    AnnouncedOnce
