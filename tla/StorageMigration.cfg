CONSTANTS
    Files = {f1}
    Migrations = {m1}
    Uploads = {u1}
    Workers = {w1, w2}
    Sweepers = {s1}
    NoMigration = NoMigration
    NoObject = NoObject
    MaxAttempts = 2
    MaxSweeps = 1
    MaxClaims = 3
    LostCommits = FALSE
SPECIFICATION Spec
SYMMETRY Symmetry
INVARIANTS RowHasObject NoStaleContent NothingUntracked CompletedIsComplete
CHECK_DEADLOCK FALSE
