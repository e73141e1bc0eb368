SPECIFICATION FairSpec
CONSTANTS
  None = None
  Ports = {1, 2}
  NewPorts = {1}
  Values = {1, 2, 3, 4, 5, 6, 7}
  OpenShift = TRUE
  Dependents = TRUE
  Lagging = {"cr"}
  Budget <- MCBudget
  MCCreate = 1
  MCEdit = 1
  MCDelete = 0
  MCFault = 1
  MCLose = 1
  MCTamper = 0
  MCRestart = 1
  MCAny = 2
CHECK_DEADLOCK FALSE
INVARIANT TypeOK
PROPERTIES AgentsRegister AdminCanLogIn KeepsContract
