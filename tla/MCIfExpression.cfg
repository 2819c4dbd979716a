CONSTANTS
    CharBits = 2
    IntBits = 3
    WordBits = 4
    Targets <- MCTargets
    Constants <- MCConstants
    Names <- MCNames
    Macros <- MCMacros
    Features <- MCFeatures
    Free <- MCFree
    MaxFree = 4
    Operators <- MCOperators
    Operands <- MCOperands
    MaxTokens = 7
    MaxOperands = 3
    Shapes = {}
SPECIFICATION Spec
INVARIANT ConditionAsStandard
CHECK_DEADLOCK FALSE
