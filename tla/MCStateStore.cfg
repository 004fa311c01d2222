\* One vault and two paths: renames onto an occupied path, two generations, one
\* recorded failure per generation.
CONSTANTS
    Vaults = {work}
    Paths = {a, b}
    Posts = {x, y}
    NoPost = NoPost
    Never = Never
    MaxTime = 2
    MaxGeneration = 2
    MaxAttempts = 1

SPECIFICATION StoreSpec
SYMMETRY Interchangeable

INVARIANTS
    StoreTypeOK
    RowCoherent
    BlockedOnlyByFailure
    RowsBelongToKnownVaults
    RestartIsQuiet
PROPERTIES
    NoRenotification
    QuietDeadlineKept
