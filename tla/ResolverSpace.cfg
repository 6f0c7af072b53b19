SPECIFICATION Spec
CONSTANTS
    None = None
    FileOrder <- SpaceOrder
    Builtins <- MCBuiltins
    StubModules <- MCStubModules
    StubClasses <- MCStubClasses
    HeuristicCap = 1
    Menu <- SpaceMenu
    Padding = 2
    MaxEdits = 1
INVARIANT IncrementalIsFull
