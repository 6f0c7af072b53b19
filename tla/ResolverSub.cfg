SPECIFICATION Spec
CONSTANTS
    None = None
    FileOrder <- SubOrder
    Builtins <- MCBuiltins
    StubModules <- MCStubModules
    StubClasses <- MCStubClasses
    HeuristicCap = 1
    Menu <- SubMenu
    Padding = 2
    MaxEdits = 1
INVARIANT IncrementalIsFull
