\* A file replaced before its delivery is over: AnnouncedOnce is violated.
CONSTANTS
    a = a
    b = b
    c = c
    draft = draft
    ignored = ignored
    Vault = work
    Vaults = {work}
    Paths = {a}
    Drafts = {}
    Outside = {}
    Posts <- Numbers
    Renames <- NoRenames
    NoPost = NoPost
    Never = Never
    MaxTime = 5
    MaxGeneration = 5
    MaxAttempts = 1
    Quiet = 1
    Overlaps = {"events", "delivery", "replaced"}
    Slow = {}
    FaultKinds = {}
    MaxDocs = 2
    MaxEdits = 2
    MaxFaults = 0

SPECIFICATION Spec
INVARIANTS
    AnnouncedOnce
