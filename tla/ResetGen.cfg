SPECIFICATION Spec
CONSTANTS
    Structs = {"A", "B"}
    Shapes <- MCShapes
    Foreign = {"bytes.Buffer"}
    MaxDepth = 8
    MaxEdits = 5
INVARIANTS ResetCleans OutputCompiles
PROPERTIES OverflowsOnCycles
