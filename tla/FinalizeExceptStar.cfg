SPECIFICATION Spec
CONSTANTS
    None = None
    Projects <- ExceptStar
    Marks <- MCMarks
    Parse <- ParseFile
INVARIANTS SourcesEnclose
CHECK_DEADLOCK FALSE
