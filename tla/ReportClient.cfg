CONSTANTS
  Clients = {c1, c2}
  None = None
  Units = 2
  Prefilled = 1
  MaxRetries = 3
  MaxRepairRounds = 3
  MinSteps = 20
  StepsPerUnit = 4
  MaxIdentical = 3
  MaxErrors = 1
  c1 = c1  c2 = c2
  BusySteps <- MCBusySteps
  Steadies = {None, c1, c2}
SPECIFICATION Spec
INVARIANTS
  TypeOK
  ReturnedIsComplete
  ArtifactIsKept
PROPERTIES
  ActsOnWhatItWasTold
  SteadyLoopsReturnReport
CHECK_DEADLOCK FALSE
