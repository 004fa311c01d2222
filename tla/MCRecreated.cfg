\* A document recreated after a deletion and renamed before it is observed.
CONSTANTS
    a = a
    b = b
    c = c
    draft = draft
    ignored = ignored
    Vault = work
    Vaults = {work}
    Paths = {a, b}
    Drafts = {}
    Outside = {}
    Posts <- Numbers
    Renames <- Back
    NoPost = NoPost
    Never = Never
    MaxTime = 3
    MaxGeneration = 5
    MaxAttempts = 1
    Quiet = 1
    Overlaps = {"quiet", "recreated"}
    Slow = {}
    FaultKinds = {}
    MaxDocs = 2
    MaxEdits = 2
    MaxFaults = 0

SPECIFICATION Spec
INVARIANTS
    NothingMissed
