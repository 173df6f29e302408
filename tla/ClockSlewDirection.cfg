CONSTANTS
  TicksPerSec = 12
  AdjLimit = 5
  MaxError = 15
SPECIFICATION Spec
PROPERTY
  CorrectionReducesError
