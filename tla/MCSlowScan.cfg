\* A scan that takes as long as the quiet time: NothingMissed is violated.
CONSTANTS
    a = a
    b = b
    c = c
    draft = draft
    ignored = ignored
    Vault = work
    Vaults = {work}
    Paths = {a}
    Drafts = {}
    Outside = {}
    Posts <- Numbers
    Renames <- NoRenames
    NoPost = NoPost
    Never = Never
    MaxTime = 3
    MaxGeneration = 5
    MaxAttempts = 1
    Quiet = 1
    Overlaps = {"quiet", "scan"}
    Slow = {"scan"}
    FaultKinds = {"watcher"}
    MaxDocs = 1
    MaxEdits = 2
    MaxFaults = 1

SPECIFICATION Spec
INVARIANTS
    NothingMissed
