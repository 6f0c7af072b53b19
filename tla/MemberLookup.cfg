SPECIFICATION FairSpec
CONSTANTS
    None = None
    Class <- FourClasses
    Root = 1
    Hierarchies <- MCHierarchies
INVARIANTS LookupTypeOK AnswersNearest NeverWrong
PROPERTY LookupTerminates
CHECK_DEADLOCK FALSE
