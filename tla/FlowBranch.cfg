SPECIFICATION Spec
CONSTANTS
    Types = {user, post}
    Other = other
    Unbound = unbound
    Programs <- BranchPrograms
INVARIANT NothingMissed
CHECK_DEADLOCK FALSE
