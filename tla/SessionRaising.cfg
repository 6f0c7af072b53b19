SPECIFICATION FairSpec
CONSTANTS
    Files = {1}
    Texts = {"old", "new", "bad", "boom"}
    Size <- MCSizeBoom
    Broken = {"bad"}
    Raising = {"boom"}
    Walkers = {"session"}
    Self = "session"
    MaxClock = 3
    FineClock = TRUE
    EarlyEdits = FALSE
    None = None
PROPERTIES
    NeverStaleForGood
CHECK_DEADLOCK FALSE
