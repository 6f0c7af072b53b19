SPECIFICATION Spec
CONSTANTS
    Files = {1, 2}
    Texts = {"old", "new", "bad"}
    Size <- MCSize
    Broken = {"bad"}
    Raising = {}
    Walkers = {"session"}
    Self = "session"
    MaxClock = 2
    FineClock = TRUE
    EarlyEdits = FALSE
    None = None
INVARIANTS
    SessionTypeOK
    CacheHonest
    QuiescentFresh
PROPERTIES
    PublishesRecent
    ImplementsService
CHECK_DEADLOCK FALSE
