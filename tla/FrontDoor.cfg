SPECIFICATION Spec
CONSTANTS
  TenantIDs = {a, b}
  Tokens = {t, u}
  Texts = {p}
  Root = Root
  None = None
  Torn = Torn
  Workers = {w1, w2}
  MaxTenants = 3
  c1 = c1
  c2 = c2
  staff = staff
  guests = guests
  Configs = {c1, c2}
  AdminGroups <- MCAdminGroups
  UserGroups <- MCUserGroups
  Claims <- MCClaims
  NoConfig = NoConfig
  Envs = {NoConfig, c1}
  Policies <- MCPolicies
  MaxLoads = 2
  MaxLogins = 2
  Clients = {k}
  MaxWork = 3
INVARIANTS
  
  TokensLead
  ResidueOnlyIfInFlight
  RoleAsConfigured
  SettlesOnPolicy
CHECK_DEADLOCK FALSE
