SPECIFICATION Spec
CONSTANTS
    Files = {1}
    Texts = {"old", "new"}
    Size <- MCSize
    Broken = {}
    Raising = {}
    Walkers = {"b1", "b2"}
    Sessions = {}
    Code <- MixedCode
    FirstVersion = 24
    MaxClock = 1
    FineClock = TRUE
    None = None
INVARIANTS
    RowsOfVersion
CHECK_DEADLOCK FALSE
