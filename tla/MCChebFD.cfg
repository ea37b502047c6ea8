SPECIFICATION Spec
CONSTANTS
  NR = 2
  VecRows = 3
  Builds = {"cpu", "gpu"}
  Inputs <- AllInputs
  Gershgorin <- AllGershgorin
  NaN = NaN
  Values = {0, 1, 2, 3}
  Residuals = {1, 4, 33}
  Unit = 16
  EpsDefault = 1
  IterDefault = 3
  WidthMax = 3
INVARIANTS
  TypeOK
  Orthonormal
  AdmissibleRun
  Reported
  TimersExact
PROPERTIES
  Terminates
