CONSTANTS
    Files = {f1}
    Migrations = {m1}
    Uploads = {u1}
    Workers = {w1, w2}
    Sweepers = {s1}
    NoMigration = NoMigration
    NoObject = NoObject
    MaxAttempts = 2
    MaxSweeps = 1
    MaxClaims = 3
    LostCommits = TRUE
SPECIFICATION Spec
SYMMETRY Symmetry
INVARIANT RowHasObject
CHECK_DEADLOCK FALSE
