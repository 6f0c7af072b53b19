SPECIFICATION Spec
CONSTANTS
    None = None
    Projects <- Rebinding
    Marks <- MCMarks
    Parse <- ParseFile
INVARIANTS TypesHonest
CHECK_DEADLOCK FALSE
