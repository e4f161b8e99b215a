SPECIFICATION MigrationSpec
CONSTANTS
    Users = {u1, u2}
    Migrators = {m1}
    NoOne = NoOne
    Files = 1
    MaxAttempts = 1
    MaxPanics = 1
INVARIANTS OldPodsKeepServing
CHECK_DEADLOCK FALSE
