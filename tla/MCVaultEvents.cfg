\* A document and a draft, no renames; users act at any moment but during the first scan.
CONSTANTS
    a = a
    b = b
    c = c
    draft = draft
    ignored = ignored
    Vault = work
    Vaults = {work}
    Paths = {a, draft}
    Drafts = {draft}
    Outside = {}
    Posts <- Numbers
    Renames <- NoRenames
    NoPost = NoPost
    Never = Never
    MaxTime = 5
    MaxGeneration = 5
    MaxAttempts = 1
    Quiet = 2
    Overlaps = {"quiet", "scan", "events", "delivery", "replaced"}
    Slow = {"events"}
    FaultKinds = {"crash"}
    MaxDocs = 2
    MaxEdits = 2
    MaxFaults = 1

SPECIFICATION FairSpec
INVARIANTS
    NothingMissed
PROPERTIES
    QuietUntilRecorded
    ComesToRest
