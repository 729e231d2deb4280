SPECIFICATION Spec
CONSTANTS
  Tenants = {t1}
  Subjects = {root, boss}
  Targets = {boss}
  PlatformAdmins = {root}
  TenantOf <- OneTenant
  Roles = {"tenant-admin", "tenant-reader"}
  PermissionsOf <- BuiltIn
  Items = {i1, i2}
  Keys = {k1}
  Callers = {c1, c2}
  Lookahead = 0
  MaxVersion = 3
SYMMETRY Symm
CHECK_DEADLOCK FALSE
INVARIANTS TenantsAreWhole GrantsAreRecorded
PROPERTIES NoSilentOverwrite NoSelfPromotion OnlyPlatformReactivates
