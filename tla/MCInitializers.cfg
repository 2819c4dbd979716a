CONSTANTS
    Objects <- MCObjects
    MaxItems = 3
    Shapes = {}
SPECIFICATION Spec
INVARIANTS LocalAsStandard StaticAsStandard
CHECK_DEADLOCK FALSE
