SPECIFICATION Spec
CONSTANTS
    Files = {1}
    Texts = {"old", "new"}
    Size <- MCSize
    Broken = {}
    Raising = {}
    Walkers = {"b1", "s"}
    Sessions = {"s"}
    Code <- SameCode
    FirstVersion = 0
    MaxClock = 1
    FineClock = TRUE
    None = None
INVARIANTS
    NoStoreError
CHECK_DEADLOCK FALSE
