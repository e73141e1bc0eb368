SPECIFICATION FairSpec
CONSTANTS
  Order <- MCOrder
  Versions <- MCVersions
  Broken = {2}
  Lagging = {"cr", "dhcp4"}
  Budget <- MCBudget
  MCCreate = 2
  MCEdit = 1
  MCDelete = 1
  MCFault = 1
  MCTamper = 1
  MCStandalone = 1
  MCDown = 1
  MCRestart = 1
  MCAny = 3
CHECK_DEADLOCK FALSE
INVARIANTS TypeOK QuietMeansDone
PROPERTIES ChildrenFollow StatusAggregates Settles KeepsContract
