SPECIFICATION FairSpec
CONSTANTS
  None = None
  Specs <- MCSpecs
  Budget <- MCBudget
  MCKinds = {"dhcp4"}
  MCHA = {TRUE}
  MCReplicas = {2}
  MCConfigs = {1, 2}
  MCSvc = {FALSE}
  MCStork = {FALSE}
  MaxReplicas = 2
  OpenShift = FALSE
  DefaultNs = TRUE
  Lagging <- MCLagNone
  Orders = {1, 2}
  Reverts = FALSE
  Unrenderable = {}
  BadPeers = {}
  MCCreate = 1
  MCEdit = 0
  MCDelete = 0
  MCFault = 0
  MCLose = 0
  MCTamper = 0
  MCRestart = 0
CHECK_DEADLOCK FALSE
PROPERTY TemplateChangesWithSpec
