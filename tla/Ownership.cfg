SPECIFICATION Spec
CONSTANTS
    Locals = {x, y}
    MaxObjects = 2
    MaxFrames = 3
    Shapes = {}
SYMMETRY LocalNames
INVARIANTS
    PendingAlive
    Accounted
    NoFaults
