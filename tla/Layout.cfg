CONSTANTS
    Types <- TargetTypes
    BitTypes = {1, 4, 8}
    Widths = {3, 33}
    Aligns = {0, 8}
    Packs = {0, 2}
    RecordAligns = {0}
    MaxMembers = 3
    MaxStores = 1
    Shapes = {}
SPECIFICATION Spec
INVARIANTS MembersApart AccessInside RunsApart ReadsBack
CHECK_DEADLOCK FALSE
