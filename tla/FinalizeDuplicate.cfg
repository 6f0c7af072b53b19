SPECIFICATION Spec
CONSTANTS
    None = None
    Projects <- MCProjects
    Marks <- MCMarks
    Parse <- ParseFile
INVARIANT DefsForEveryFile
CHECK_DEADLOCK FALSE
