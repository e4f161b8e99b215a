SPECIFICATION FairMigrationSpec
CONSTANTS
    Users = {u1, u2}
    Migrators = {m1, m2}
    NoOne = NoOne
    Files = 2
    MaxAttempts = 2
    MaxPanics = 2
INVARIANTS MigrationTypeOK QuietDuringDDL StartedOnUpgraded LockedOutUnlessAborted
PROPERTIES UpgradeReachesPods
CHECK_DEADLOCK FALSE
