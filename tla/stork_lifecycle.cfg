SPECIFICATION FairSpec
CONSTANTS
  None = None
  Ports = {1}
  NewPorts = {1}
  Values = {1, 2, 3, 4, 5, 6, 7}
  OpenShift = FALSE
  Dependents = FALSE
  Lagging = {"admin"}
  Budget <- MCBudget
  MCCreate = 2
  MCEdit = 0
  MCDelete = 1
  MCFault = 1
  MCLose = 0
  MCTamper = 1
  MCRestart = 1
  MCAny = 4
CHECK_DEADLOCK FALSE
PROPERTY KnownSecretsKept
