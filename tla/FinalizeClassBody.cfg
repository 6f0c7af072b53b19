SPECIFICATION Spec
CONSTANTS
    None = None
    Projects <- ClassBodies
    Marks <- MCMarks
    Parse <- ParseFile
INVARIANTS NothingForged
CHECK_DEADLOCK FALSE
