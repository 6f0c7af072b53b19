SPECIFICATION Spec
CONSTANTS
    Files = {1, 2}
    Texts = {"old", "new", "bad"}
    Size <- MCSize
    Broken = {"bad"}
    Raising = {}
    Walkers = {"b2"}
    Sessions = {}
    Code <- SameCode
    FirstVersion = 24
    MaxClock = 2
    FineClock = TRUE
    None = None
INVARIANTS
    RowsHonest
    RowsOfVersion
PROPERTIES
    UndisturbedExact
CHECK_DEADLOCK FALSE
