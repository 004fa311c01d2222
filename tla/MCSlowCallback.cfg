\* A file changed while its callback is as slow as the quiet time: QuietUntilRecorded is violated.
CONSTANTS
    a = a
    b = b
    c = c
    draft = draft
    ignored = ignored
    Vault = work
    Vaults = {work}
    Paths = {a}
    Drafts = {}
    Outside = {}
    Posts <- Numbers
    Renames <- NoRenames
    NoPost = NoPost
    Never = Never
    MaxTime = 6
    MaxGeneration = 5
    MaxAttempts = 1
    Quiet = 2
    Overlaps = {"quiet", "events"}
    Slow = {"callback"}
    FaultKinds = {"crash"}
    MaxDocs = 1
    MaxEdits = 2
    MaxFaults = 1

SPECIFICATION Spec
PROPERTIES
    QuietUntilRecorded
