CONSTANTS
  Macros = {"G", "H"}
  NoGuard = "none"
  Main = "m"
  Files = {"m", "h", "k"}
  MaxIncludeDepth = 4
  Programs <- Corpora
SPECIFICATION Spec
INVARIANTS GuardSkipInvisible LiveMatchesStructure DiagnosedIffIllNested
PROPERTIES OnceStands Terminates
CHECK_DEADLOCK FALSE
