SPECIFICATION FairSpec
CONSTANTS
  None = None
  Specs <- MCSpecs
  Budget <- MCBudget
  MCKinds = {"dhcp4"}
  MCHA = {FALSE}
  MCReplicas = {1}
  MCConfigs = {1, 2}
  MCSvc = {FALSE}
  MCStork = {FALSE}
  MaxReplicas = 1
  OpenShift = FALSE
  DefaultNs = TRUE
  Lagging <- MCLagCR
  Orders = {1}
  Reverts = FALSE
  Unrenderable = {2}
  BadPeers = {}
  MCCreate = 2
  MCEdit = 1
  MCDelete = 1
  MCFault = 1
  MCLose = 0
  MCTamper = 1
  MCRestart = 1
CHECK_DEADLOCK FALSE
INVARIANTS ObservedWorkloadIsCurrent QuietMeansBuilt
PROPERTIES Converges DeletedIsCollected KeepsContract
