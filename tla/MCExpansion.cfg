CONSTANTS
  Programs <- Macros
  MaxExpansionDepth = 2
SPECIFICATION Spec
INVARIANT AgreesWithProsser
PROPERTY Terminates
CHECK_DEADLOCK FALSE
