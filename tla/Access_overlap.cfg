CONSTANTS
  Clients = {c1, c2}
  Users = {root, ann}
  Root = root
  Names = {env, other}
  EnvName = env
  First = c1
  NoUser = NoUser
  Keep = Keep
  Patches <- MCPatches
  AuthMode = "hybrid"
  LdapEnabled = TRUE
  MaxAttempts = 1
  Window = 1
  MaxCalls = 3
  MaxFaults = 1
SPECIFICATION MCSpec
INVARIANTS LimiterBound
PROPERTIES SuperAdminRemains DefaultRemains LockoutEnds FallbackHeals
CHECK_DEADLOCK FALSE
