SPECIFICATION FairSpec
CONSTANTS
  None = None
  Specs <- MCSpecs
  Budget <- MCBudget
  MCKinds = {"dhcp4", "dhcp6", "ctrl-agent", "ddns"}
  MCHA = {FALSE}
  MCReplicas = {1}
  MCConfigs = {1, 2}
  MCSvc = {TRUE}
  MCStork = {TRUE}
  MaxReplicas = 1
  OpenShift = TRUE
  DefaultNs = TRUE
  Lagging <- MCLagConfig
  Orders = {1}
  Reverts = FALSE
  Unrenderable = {}
  BadPeers = {}
  MCCreate = 1
  MCEdit = 1
  MCDelete = 0
  MCFault = 1
  MCLose = 1
  MCTamper = 0
  MCRestart = 0
CHECK_DEADLOCK FALSE
INVARIANTS TypeOK DeploymentPodsRunHashedConfig
PROPERTY Converges
