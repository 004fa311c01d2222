\* A pending document renamed to a draft name: NoDraftPosted is violated.
CONSTANTS
    a = a
    b = b
    c = c
    draft = draft
    ignored = ignored
    Vault = work
    Vaults = {work}
    Paths = {a, draft}
    Drafts = {draft}
    Outside = {}
    Posts <- Numbers
    Renames <- ToDraft
    NoPost = NoPost
    Never = Never
    MaxTime = 3
    MaxGeneration = 5
    MaxAttempts = 1
    Quiet = 1
    Overlaps = {"quiet", "delivery"}
    Slow = {}
    FaultKinds = {}
    MaxDocs = 1
    MaxEdits = 2
    MaxFaults = 0

SPECIFICATION Spec
INVARIANTS
    NoDraftPosted
