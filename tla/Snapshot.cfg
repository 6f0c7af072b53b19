SPECIFICATION Spec
CONSTANTS
    Files = {1}
    Texts = {"old", "new"}
    Size <- MCSize
    Broken = {}
    Raising = {}
    Walkers = {"b1", "b2"}
    Sessions = {}
    Code <- SameCode
    FirstVersion = 25
    MaxClock = 2
    FineClock = TRUE
    None = None
INVARIANTS
    SnapshotTypeOK
    RowsHonest
    WarmIsCold
    NoStoreError
CHECK_DEADLOCK FALSE
