\* Every kind of path, finished drafts and one fault; users act at any moment.
CONSTANTS
    a = a
    b = b
    c = c
    draft = draft
    ignored = ignored
    Vault = work
    Vaults = {work}
    Paths = {a, b, draft, ignored}
    Drafts = {draft}
    Outside = {ignored}
    Posts <- Numbers
    Renames <- Finished
    NoPost = NoPost
    Never = Never
    MaxTime = 2
    MaxGeneration = 5
    MaxAttempts = 1
    Quiet = 1
    Overlaps = {"quiet", "scan", "events", "delivery"}
    Slow = {"callback"}
    FaultKinds = {"crash", "watcher", "storage"}
    MaxDocs = 2
    MaxEdits = 2
    MaxFaults = 1

SPECIFICATION Spec
INVARIANTS
    TypeOK
    AnnouncedOnce
    NothingMissed
    RowsMatchFiles
    NoDraftPosted
