CONSTANTS
    Kinds = {"int", "strong", "block"}
    Ints = {0, 1}
    Objects = {o1, o2}
    Blocks = {b1, b2}
    Structs = {h1, h2}
    Nil = Nil
    Unset = Unset
    Stack = Stack
    MaxFrames = 4
    Shapes = {}
SYMMETRY Symmetry
SPECIFICATION Spec
INVARIANTS NoDangling OneVariable HoldersCounted
CHECK_DEADLOCK FALSE
