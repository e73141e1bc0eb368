SPECIFICATION Spec
CONSTANTS
  None = None
  Specs <- MCSpecs
  Budget <- MCBudget
  MCKinds = {"dhcp4"}
  MCHA = {TRUE}
  MCReplicas = {1}
  MCConfigs = {1, 2}
  MCSvc = {FALSE}
  MCStork = {FALSE}
  MaxReplicas = 1
  OpenShift = FALSE
  DefaultNs = TRUE
  Lagging <- MCLagNone
  Orders = {1}
  Reverts = FALSE
  Unrenderable = {}
  BadPeers = {}
  MCCreate = 1
  MCEdit = 1
  MCDelete = 0
  MCFault = 1
  MCLose = 0
  MCTamper = 0
  MCRestart = 0
CHECK_DEADLOCK FALSE
INVARIANT StatefulSetPodsRunHashedConfig
