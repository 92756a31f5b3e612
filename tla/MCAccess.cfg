CONSTANTS
  root = root
  ann = ann
  w1 = w1
  User = {root, ann}
  Root = root
  WalletId = {w1}
  GrantedRoles = {"ADMIN"}
  OverriddenRoles = {"VIEWER"}
  GrantedPermissions = {"CREATE_WALLET"}
  Ttl = 2
  MaxTime = 2
  MaxAudit = 3
  MaxCalls = 2
  MaxTokens = 2
SPECIFICATION AccessSpec
INVARIANTS
  AccessTypeOK
  StaleAuthorityExpires
  ColdUnlessReopened
PROPERTIES
  AuthorityGrowsByGrants
  RestoreThawsOnce
CHECK_DEADLOCK FALSE
