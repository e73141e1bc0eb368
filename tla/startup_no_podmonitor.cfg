SPECIFICATION FairSpec
CONSTANTS
  None = None
  Instances = {p1, p2}
  OpenShift = TRUE
  LeaderElection = TRUE
  PodMonitorCRD = FALSE
  Budget <- MCBudget
  MCFault = 0
  MCCrash = 0
PROPERTY ComesUp
