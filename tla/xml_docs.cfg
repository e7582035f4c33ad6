SPECIFICATION Spec
CONSTANTS
    MaxNodes = 16
    MaxCalls = 2
    Careful = TRUE
    ErrorChar = FALSE
    Names <- MCNames
    Values <- MCValues
    Inputs <- MCInputs
INVARIANTS
  TreeSound
  CopiesFaithful
  ReadsRight
CHECK_DEADLOCK FALSE
