CONSTANTS
  App = {app1}
  Vault = {v1, v2}
  icloud = icloud
  account = account
  Remote = {sp1, icloud}
  Account = {account}
  Task = {t1, t2, t3}
  AccountOf <- OneAccount
  Offered <- Kind
  NoApp = NoApp
  NoVault = NoVault
  NoRel = NoRel
  NoAccount = NoAccount
  NoToken = NoToken
  NoTask = NoTask
  Origin = Origin
SYMMETRY TasksAndVaults
SPECIFICATION Spec
INVARIANTS BindingInv BoundVaultHasFile LiveBindingsHold SignInsHaveOwners
PROPERTIES RefreshKeepsSignIn CliKeepsRelationship
CHECK_DEADLOCK FALSE
