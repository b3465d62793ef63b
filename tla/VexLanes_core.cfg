SPECIFICATION Spec
CONSTANTS
    Register <- MCRegister
    MaxDouble = 2
    Instructions <- MCInstructions
    Math <- MCMath
    Start <- MCStart
    MaxTraps = 2
    MaxDepth = 2
INVARIANTS
    TypeOK
PROPERTIES
    ActsAsAvx
CHECK_DEADLOCK FALSE
