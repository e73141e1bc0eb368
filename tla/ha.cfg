SPECIFICATION FairSpec
CONSTANTS
  None = None
  Specs <- MCToggleSpecs
  Budget <- MCBudget
  MCKinds = {"dhcp4"}
  MCHA = {TRUE, FALSE}
  MCReplicas = {1, 2}
  MCConfigs = {1, 2, 3}
  MCSvc = {FALSE}
  MCStork = {FALSE}
  MaxReplicas = 2
  OpenShift = FALSE
  DefaultNs = TRUE
  Lagging <- MCLagNone
  Orders = {1, 2}
  Reverts = FALSE
  Unrenderable = {3}
  BadPeers = {2}
  MCCreate = 1
  MCEdit = 1
  MCDelete = 0
  MCFault = 1
  MCLose = 0
  MCTamper = 0
  MCRestart = 0
CHECK_DEADLOCK FALSE
INVARIANTS ObservedWorkloadIsCurrent PeerServicesPrecedePods
PROPERTY StatusCatchesUp
