SPECIFICATION Spec
CONSTANTS
  Inputs <- MCInputs
  UINT16 = 4
  INT_DIGITS = 2
INVARIANTS LocationIsTrue TextIsInput
PROPERTY Progress
