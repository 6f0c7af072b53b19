SPECIFICATION Spec
CONSTANTS
    Types = {user, post}
    Other = other
    Unbound = unbound
    Programs <- MCPrograms
INVARIANTS FlowTypeOK ViewExact NothingMissed
CHECK_DEADLOCK FALSE
