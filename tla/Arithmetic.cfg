CONSTANTS
    CharBits = 2
    IntBits = 3
    WordBits = 4
    Spellings <- MCSpellings
    Samples <- MCSamples
    Targets <- MCTargets
    Shapes = {}
SPECIFICATION Spec
INVARIANTS RuntimeAsStandard FoldAsStandard
CHECK_DEADLOCK FALSE
