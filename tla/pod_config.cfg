SPECIFICATION FairSpec
CONSTANTS
  None = None
  SecretA = SecretA
  SecretB = SecretB
  MaxReplicas = 2
  Tries = 2
  Secrets <- MCSecrets
  Missing <- MCMissing
  Specs <- MCSpecs
  Budget <- MCBudget
  MCEdit = 2
  MCLose = 1
  MCRestart = 1
  MCRenumber = 1
  MCSecret = 1
  MCAny = 2
CHECK_DEADLOCK FALSE
INVARIANTS TypeOK PeersAreReachable HACredentialsExpanded ReportedAddressIsAssigned
PROPERTY PodsFollowSpec
