SPECIFICATION Spec
CONSTANTS
    N = 6
    Names <- Six
    Programs <- MCPrograms
    MinDeclarations = 4
    Window = 2
    PathologicalMin = 3
    Denominator = 2
INVARIANT
    InitializationOrder
