SPECIFICATION MCSpec
CONSTANTS
  Admins = {a1, a2}
  MACs = {x, y}
  Configs <- MCConfigs
  FileConfig <- MCFileConfig
  Hosts <- MCHosts
  Top = 7
  Slots = {1, 2, 3}
  Conns = {k1, k2}
  IPs = {ip1}
  Names = {"admin", "ops"}
  FailLimit = 2
  LastPassword = 1
  LastSession = 2
  LastRestart = 1
  SettingFails = TRUE
  TokenSet = FALSE
SYMMETRY ConnSymmetry
INVARIANTS OneListener SavedIsApplied RouterOnLink AddressesOwn
INVARIANTS SessionsFollow AttemptsBounded
CHECK_DEADLOCK FALSE
