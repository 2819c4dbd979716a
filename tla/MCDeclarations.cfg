SPECIFICATION UnitSpec
\* A unit may end anywhere, and goes no further once rejected.
CHECK_DEADLOCK FALSE
CONSTANTS
    Names = {"T", "x"}
    Declared <- MCDeclared
    Definitions <- MCDefinitions
    Parameters <- MCParameters
    Ivar = "x"
    Oddities = {}
    MaxSpent = 4
INVARIANT TypeNamesAgree
INVARIANT MeaningsAgree
INVARIANT DiagnosedAsC
INVARIANT CapturesFree
