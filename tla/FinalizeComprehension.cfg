SPECIFICATION Spec
CONSTANTS
    None = None
    Projects <- Comprehending
    Marks <- MCMarks
    Parse <- ParseFile
INVARIANTS TypesHonest
CHECK_DEADLOCK FALSE
