SPECIFICATION Spec
CONSTANTS
  None = None
  SecretA = SecretA
  SecretB = SecretB
  MaxReplicas = 2
  Tries = 2
  Secrets <- MCSecrets
  Missing <- MCMissing
  Specs <- DeploymentSpecs
  Budget <- MCBudget
  MCEdit = 0
  MCLose = 0
  MCRestart = 0
  MCRenumber = 0
  MCSecret = 0
  MCAny = 0
CHECK_DEADLOCK FALSE
INVARIANT CredentialsExpanded
