CONSTANTS
  Macros = {G}
  NoGuard = NoGuard
  MaxNesting = 4
SPECIFICATION Spec
INVARIANTS LiveNests
PROPERTIES OneGroupPerChain ImplementsIfChains
