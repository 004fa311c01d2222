\* A document created while the baseline of a new vault is read: NothingMissed is violated.
CONSTANTS
    a = a
    b = b
    c = c
    draft = draft
    ignored = ignored
    Vault = work
    Vaults = {work}
    Paths = {a, b}
    Drafts = {}
    Outside = {}
    Posts <- Numbers
    Renames <- NoRenames
    NoPost = NoPost
    Never = Never
    MaxTime = 3
    MaxGeneration = 5
    MaxAttempts = 1
    Quiet = 1
    Overlaps = {"baseline"}
    Slow = {}
    FaultKinds = {}
    MaxDocs = 1
    MaxEdits = 2
    MaxFaults = 0

SPECIFICATION Spec
INVARIANTS
    NothingMissed
