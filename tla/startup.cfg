SPECIFICATION FairSpec
CONSTANTS
  None = None
  Instances = {p1, p2, p3}
  OpenShift = TRUE
  LeaderElection = TRUE
  PodMonitorCRD = TRUE
  Budget <- MCBudget
  MCFault = 2
  MCCrash = 1
CHECK_DEADLOCK FALSE
INVARIANTS TypeOK SetUpPrecedesControllers
PROPERTY ComesUp
