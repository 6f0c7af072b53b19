SPECIFICATION Spec
CONSTANTS
    Files = {1}
    Texts = {"old", "new", "bad"}
    Size <- MCSize
    Broken = {"bad"}
    Raising = {}
    Walkers = {"session"}
    Self = "session"
    MaxClock = 2
    FineClock = TRUE
    EarlyEdits = TRUE
    None = None
INVARIANTS
    QuiescentFresh
CHECK_DEADLOCK FALSE
