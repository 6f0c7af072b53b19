SPECIFICATION Spec
CONSTANTS
    None = None
    FileOrder <- BaseOrder
    Builtins <- MCBuiltins
    StubModules <- MCStubModules
    StubClasses <- MCStubClasses
    HeuristicCap = 1
    Menu <- BaseMenu
    Padding = 2
    MaxEdits = 1
INVARIANT IncrementalIsFull
