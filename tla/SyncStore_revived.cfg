CONSTANTS
  App = {app1}
  Vault = {v1}
  icloud = icloud
  account = account
  Remote = {sp1}
  Account = {account}
  Task = {t1, t2, t3}
  AccountOf <- OneAccount
  Offered <- Unbinding
  NoApp = NoApp
  NoVault = NoVault
  NoRel = NoRel
  NoAccount = NoAccount
  NoToken = NoToken
  NoTask = NoTask
  Origin = Origin
SYMMETRY TasksAndVaults
SPECIFICATION Spec
CHECK_DEADLOCK FALSE
INVARIANT EndedStaysEnded
