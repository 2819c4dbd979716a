CONSTANTS
  MaxNest = 4
  MaxConstructs = 4
  Kinds = {"loop", "switch", "scope", "pool", "sync", "try"}
  Shapes = {}
SPECIFICATION Spec
INVARIANTS FinallysOwed LocksOwned PoolsOwned LocalsOwned CatchesOwned
CHECK_DEADLOCK FALSE
