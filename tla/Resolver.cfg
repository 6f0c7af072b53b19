SPECIFICATION Spec
CONSTANTS
    None = None
    FileOrder <- MCFileOrder
    Builtins <- MCBuiltins
    StubModules <- MCStubModules
    StubClasses <- MCStubClasses
    HeuristicCap = 1
    Menu <- MCMenu
    Padding = 2
    MaxEdits = 2
INVARIANTS
    ResolverTypeOK
    IncrementalIsFull
    DirtyCovers
    EdgesLand
    SuppressionIsActionable
    WideningIsUnion
    DefiniteIsNamespace
