\* A document renamed while it is delivered: AnnouncedOnce is violated.
CONSTANTS
    a = a
    b = b
    c = c
    draft = draft
    ignored = ignored
    Vault = work
    Vaults = {work}
    Paths = {a, b}
    Drafts = {}
    Outside = {}
    Posts <- Numbers
    Renames <- Back
    NoPost = NoPost
    Never = Never
    MaxTime = 3
    MaxGeneration = 5
    MaxAttempts = 1
    Quiet = 1
    Overlaps = {"quiet", "scan", "delivery", "crossing"}
    Slow = {}
    FaultKinds = {}
    MaxDocs = 1
    MaxEdits = 2
    MaxFaults = 0

SPECIFICATION Spec
INVARIANTS
    AnnouncedOnce
