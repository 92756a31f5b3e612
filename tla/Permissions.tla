---------------------------- MODULE Permissions ----------------------------
(***************************************************************************)
(* Roles, permissions and how a permission is resolved                     *)
(* (src/domain/permissions.py).  Role overrides are a dictionary: a        *)
(* function whose domain is the set of the overridden roles.               *)
(***************************************************************************)

Role == {"ADMIN", "OPERATOR", "VIEWER"}

Permission ==
  {"CREATE_USER", "VIEW_USERS", "UPDATE_USER", "BAN_USER", "UNBAN_USER", "DELETE_USER",
   "RESTORE_USER", "ASSIGN_ROLE", "MANAGE_PERMISSIONS", "VIEW_AUDIT_LOG",
   "CREATE_WALLET", "TRANSFER", "MINT", "FREEZE_WALLET", "UNFREEZE_WALLET",
   "VIEW_WALLETS", "CREATE_CURRENCY", "CREATE_TREASURY_WALLET",
   "MANAGE_EXCHANGE_RATES", "REVIEW_KYC", "VIEW_TRANSFERS"}

ROLE_PERMISSIONS ==
  [ADMIN    |-> Permission \ {"MINT", "VIEW_TRANSFERS"},
   OPERATOR |-> {"CREATE_WALLET", "TRANSFER", "VIEW_WALLETS", "VIEW_TRANSFERS"},
   VIEWER   |-> {"CREATE_WALLET", "TRANSFER"}]

\* What a role grants now: its override, if it has one, instead of its default.
EffectivePermissions(role, roleOverrides) ==
  IF role \in DOMAIN roleOverrides THEN roleOverrides[role] ELSE ROLE_PERMISSIONS[role]

\* The permissions of a user that carries these roles: those granted to the
\* user, and those of each role.
HasPermission(permission, roles, roleOverrides, grants) ==
  \/ permission \in grants
  \/ \E role \in roles : permission \in EffectivePermissions(role, roleOverrides)
=============================================================================
