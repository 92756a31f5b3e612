------------------------------- MODULE Access -------------------------------
(***************************************************************************)
(* Sessions, roles, bans, deletions and the custody of wallets: the        *)
(* handlers of src/api/admin_routes.py behind the guard of                 *)
(* src/api/permissions.py, on the users of src/domain/user_repository.py   *)
(* or src/infrastructure/postgres_user_store.py.                           *)
(*                                                                         *)
(* The guard runs before the handler and reads the roles in the token, not *)
(* those of the user; a handler that awaits its body runs later, whatever  *)
(* has happened since.  A call that waits is a record in calls.            *)
(*                                                                         *)
(* The accounts exist, are active and know their passwords (Accounts.tla   *)
(* says how they get there); Root was made ADMIN at registration.          *)
(***************************************************************************)
EXTENDS Permissions, Naturals, FiniteSets, Bags, Functions

CONSTANTS
  User, Root, WalletId,
  GrantedRoles,        \* the roles that calls give and take
  OverriddenRoles,     \* the roles whose permissions calls change
  GrantedPermissions,  \* the permissions that calls grant and revoke
  Ttl,                 \* life of a token, in ticks
  MaxTime, MaxAudit, MaxCalls, MaxTokens  \* bounds: ticks, audited operations,
                                          \* waiting calls, live tokens

ASSUME RootIsUser == Root \in User
ASSUME TtlPositive == Ttl \in Nat \ {0}
ASSUME AccessBounds ==
  /\ GrantedRoles \cup OverriddenRoles \subseteq Role /\ GrantedPermissions \subseteq Permission
  /\ {MaxTime, MaxAudit, MaxCalls} \subseteq Nat

VARIABLES
  durable,         \* users are in PostgreSQL and not in memory; never changes
  roles,           \* user -> the user's roles
  role_overrides,  \* overridden role -> its permissions
  user_overrides,  \* user -> the permissions granted to the user
  banned, deleted, \* users
  tokens,          \* tokens that have not expired
  now,
  owner,           \* wallet -> user; its domain is the wallets that exist
  frozen,          \* wallets
  calls,           \* bag of the calls the guard let through that await their bodies
  audit_seq,       \* entries in the audit log
  \* History, read by properties only.
  bannedAt,        \* user -> time of the ban, while it lasts
  revokedAt,       \* user -> role -> time of the revocation, while it lasts
  thawed,          \* wallets unfrozen while their owner was banned or deleted
  late             \* wallets created while their owner was banned or deleted, or
                   \* that a ban did not get to

userVars == <<roles, role_overrides, user_overrides>>
flagVars == <<banned, deleted, bannedAt>>
walletVars == <<owner, frozen, thawed, late>>
accessVars == <<durable, userVars, flagVars, walletVars, revokedAt, tokens, now, calls, audit_seq>>

\* The permission the decorator of a handler asks for.
RequiredPermission ==
  [manage_role |-> "ASSIGN_ROLE", manage_permission |-> "MANAGE_PERMISSIONS",
   manage_role_permission |-> "MANAGE_PERMISSIONS", restore_user |-> "RESTORE_USER",
   create_wallet |-> "CREATE_WALLET"]

Token == [sub : User, roles : SUBSET Role, exp : 1..(MaxTime + Ttl)]
Call == [handler : DOMAIN RequiredPermission, target : User \cup Role]

AccessInit ==
  /\ durable \in BOOLEAN
  /\ roles = [u \in User |-> IF u = Root THEN {"ADMIN"} ELSE {"VIEWER"}]
  /\ role_overrides = [r \in {} |-> {}]
  /\ user_overrides = [u \in User |-> {}]
  /\ banned = {} /\ deleted = {}
  /\ tokens = {} /\ now = 0
  /\ owner = [w \in {} |-> Root] /\ frozen = {}
  /\ calls = EmptyBag /\ audit_seq = 0
  /\ bannedAt = [u \in User |-> 0]
  /\ revokedAt = [u \in User |-> [r \in Role |-> 0]]
  /\ thawed = {} /\ late = {}

WalletsOf(u) == {w \in DOMAIN owner : owner[w] = u}
Closed(u) == u \in banned \cup deleted

-----------------------------------------------------------------------------
(* Sessions *)

\* Mutant: a token still counts in the tick it expires.
LiveAtExpiry(tk) == tk.exp >= now

\* An unexpired token: one whose exp is now is refused.
Live(tk) == tk.exp > now

\* The token that login hands out, with the roles of that moment.
CreateJwt(u) == [sub |-> u, roles |-> roles[u], exp |-> now + Ttl]

\* The ban is checked here and nowhere else; the deletion is not checked.
Login(u) ==
  /\ u \notin banned
  /\ tokens' = tokens \cup {CreateJwt(u)}
  /\ Cardinality(tokens') <= MaxTokens
  /\ UNCHANGED <<durable, userVars, flagVars, walletVars, revokedAt, now, calls, audit_seq>>

Tick ==
  /\ now < MaxTime
  /\ now' = now + 1
  /\ tokens' = {tk \in tokens : Live(tk)'}
  /\ UNCHANGED <<durable, userVars, flagVars, walletVars, revokedAt, calls, audit_seq>>

\* require_permission: the roles are the token's, the overrides those in force.
Allowed(tk, permission) ==
  /\ Live(tk)
  /\ HasPermission(permission, tk.roles, role_overrides, user_overrides[tk.sub])

-----------------------------------------------------------------------------
(* Calls whose body is awaited: the guard, and the rest after the body. *)

Waiting(handler, target) == SetToBag({[handler |-> handler, target |-> target]})

Await(tk, handler, target) ==
  /\ BagCardinality(calls) < MaxCalls
  /\ Allowed(tk, RequiredPermission[handler])
  /\ calls' = calls (+) Waiting(handler, target)
  /\ UNCHANGED <<durable, userVars, flagVars, walletVars, revokedAt, tokens, now, audit_seq>>

\* restore_user reads the user before it awaits its body.
AwaitRestore(tk, u) == u \in deleted /\ Await(tk, "restore_user", u)

\* A waiting call of the handler gets its body and ends.
Resume(handler, target) ==
  /\ Waiting(handler, target) \sqsubseteq calls
  /\ calls' = calls (-) Waiting(handler, target)

Audited ==
  /\ audit_seq < MaxAudit
  /\ audit_seq' = audit_seq + 1

AssignRole(u, r) ==
  /\ Resume("manage_role", u) /\ Audited
  /\ roles' = [roles EXCEPT ![u] = @ \cup {r}]
  /\ revokedAt' = [revokedAt EXCEPT ![u][r] = 0]
  /\ UNCHANGED <<durable, role_overrides, user_overrides, flagVars, walletVars, tokens, now>>

RevokeRole(u, r) ==
  /\ Resume("manage_role", u) /\ Audited
  /\ roles' = [roles EXCEPT ![u] = @ \ {r}]
  /\ revokedAt' = IF r \in roles[u] THEN [revokedAt EXCEPT ![u][r] = now] ELSE revokedAt
  /\ UNCHANGED <<durable, role_overrides, user_overrides, flagVars, walletVars, tokens, now>>

GrantUserPermission(u, p) ==
  /\ Resume("manage_permission", u) /\ Audited
  /\ user_overrides' = [user_overrides EXCEPT ![u] = @ \cup {p}]
  /\ UNCHANGED <<durable, roles, role_overrides, flagVars, walletVars, revokedAt, tokens, now>>

RevokeUserPermission(u, p) ==
  /\ Resume("manage_permission", u) /\ Audited
  /\ user_overrides' = [user_overrides EXCEPT ![u] = @ \ {p}]
  /\ UNCHANGED <<durable, roles, role_overrides, flagVars, walletVars, revokedAt, tokens, now>>

\* The first permission granted to a role replaces all it had by default.
WithGrant(overrides, r, p) ==
  [x \in DOMAIN overrides \cup {r} |->
     IF x # r THEN overrides[x] ELSE {p} \cup UNION {overrides[y] : y \in DOMAIN overrides \cap {r}}]

GrantRolePermission(r, p) ==
  /\ Resume("manage_role_permission", r) /\ Audited
  /\ role_overrides' = WithGrant(role_overrides, r, p)
  /\ UNCHANGED <<durable, roles, user_overrides, flagVars, walletVars, revokedAt, tokens, now>>

\* Mutant: both stores forget the override of a role when its set is empty.
WithoutGrantOrDefault(overrides, r, p) ==
  LET left == [x \in DOMAIN overrides |-> IF x = r THEN overrides[x] \ {p} ELSE overrides[x]]
  IN Restrict(left, {x \in DOMAIN left : left[x] # {}})

\* In memory the role stays overridden when its last permission goes; a table
\* without a row for the role overrides nothing.
WithoutGrant(overrides, r, p) ==
  LET left == [x \in DOMAIN overrides |-> IF x = r THEN overrides[x] \ {p} ELSE overrides[x]]
  IN IF durable THEN Restrict(left, {x \in DOMAIN left : left[x] # {}}) ELSE left

RevokeRolePermission(r, p) ==
  /\ Resume("manage_role_permission", r) /\ Audited
  /\ role_overrides' = WithoutGrant(role_overrides, r, p)
  /\ UNCHANGED <<durable, roles, user_overrides, flagVars, walletVars, revokedAt, tokens, now>>

CreateWallet(u, w) ==
  /\ Resume("create_wallet", u)
  /\ w \notin DOMAIN owner
  /\ owner' = [x \in DOMAIN owner \cup {w} |-> IF x = w THEN u ELSE owner[x]]
  /\ late' = IF Closed(u) THEN late \cup {w} ELSE late
  /\ UNCHANGED <<durable, userVars, flagVars, frozen, thawed, revokedAt, tokens, now, audit_seq>>

\* Mutant: the UPDATE matches a user that is no longer deleted.
RestoreAnyUser(u, unfreeze) ==
  /\ Resume("restore_user", u) /\ Audited
  /\ deleted' = deleted \ {u}
  /\ frozen' = IF unfreeze THEN frozen \ WalletsOf(u) ELSE frozen
  /\ thawed' = IF unfreeze /\ u \in banned THEN thawed \cup WalletsOf(u) ELSE thawed
  /\ UNCHANGED <<durable, userVars, banned, bannedAt, owner, late, revokedAt, tokens, now>>

\* The UPDATE of PostgreSQL matches no row when the user is no longer deleted,
\* and the call ends there; in memory it goes through again.
RestoreUser(u, unfreeze) ==
  /\ Resume("restore_user", u) /\ Audited
  /\ durable => u \in deleted
  /\ deleted' = deleted \ {u}
  /\ frozen' = IF unfreeze THEN frozen \ WalletsOf(u) ELSE frozen
  /\ thawed' = IF unfreeze /\ u \in banned THEN thawed \cup WalletsOf(u) ELSE thawed
  /\ UNCHANGED <<durable, userVars, banned, bannedAt, owner, late, revokedAt, tokens, now>>

RestoreTooLate(u) ==
  /\ Resume("restore_user", u)
  /\ durable /\ u \notin deleted
  /\ UNCHANGED <<durable, userVars, flagVars, walletVars, revokedAt, tokens, now, audit_seq>>

-----------------------------------------------------------------------------
(* Calls without a body: one step. *)

\* The loop of ban and delete over the wallets of the user.
FreezeAll(u) ==
  /\ frozen' = frozen \cup WalletsOf(u)
  /\ thawed' = thawed \ WalletsOf(u)
  /\ late' = late \ WalletsOf(u)
  /\ UNCHANGED owner

BanUser(tk, u) ==
  /\ Allowed(tk, "BAN_USER") /\ Audited
  /\ u # tk.sub
  /\ banned' = banned \cup {u}
  /\ bannedAt' = [bannedAt EXCEPT ![u] = IF u \in banned THEN @ ELSE now]
  /\ FreezeAll(u)
  /\ UNCHANGED <<durable, userVars, deleted, revokedAt, tokens, now, calls>>

\* The wallets stay frozen.
UnbanUser(tk, u) ==
  /\ Allowed(tk, "UNBAN_USER") /\ Audited
  /\ banned' = banned \ {u}
  /\ bannedAt' = [bannedAt EXCEPT ![u] = 0]
  /\ UNCHANGED <<durable, userVars, deleted, walletVars, revokedAt, tokens, now, calls>>

\* Mutant: wallets are frozen only when the user is not banned already.
SoftDeleteWithoutFreeze(tk, u) ==
  /\ Allowed(tk, "DELETE_USER") /\ Audited
  /\ u # tk.sub /\ u \notin deleted
  /\ IF u \in banned THEN late' = {} /\ UNCHANGED <<owner, frozen, thawed>> ELSE FreezeAll(u)
  /\ deleted' = deleted \cup {u}
  /\ UNCHANGED <<durable, userVars, banned, bannedAt, revokedAt, tokens, now, calls>>

SoftDeleteUser(tk, u) ==
  /\ Allowed(tk, "DELETE_USER") /\ Audited
  /\ u # tk.sub /\ u \notin deleted
  /\ FreezeAll(u)
  /\ deleted' = deleted \cup {u}
  /\ UNCHANGED <<durable, userVars, banned, bannedAt, revokedAt, tokens, now, calls>>

-----------------------------------------------------------------------------
(* The process on PostgreSQL dies inside a loop over the wallets of a user: *)
(* what is committed stays, nothing is audited, no call waits any more.     *)

Dies == durable /\ audit_seq < MaxAudit /\ calls' = EmptyBag

\* The ban is committed first.
BanDies(tk, u, reached) ==
  /\ Dies /\ Allowed(tk, "BAN_USER")
  /\ u # tk.sub
  /\ banned' = banned \cup {u}
  /\ bannedAt' = [bannedAt EXCEPT ![u] = IF u \in banned THEN @ ELSE now]
  /\ frozen' = frozen \cup reached
  /\ thawed' = thawed \ reached
  /\ late' = (late \cup (WalletsOf(u) \ frozen)) \ reached
  /\ UNCHANGED <<durable, userVars, deleted, owner, revokedAt, tokens, now, audit_seq>>

\* The deletion is committed last.
SoftDeleteDies(tk, u, reached) ==
  /\ Dies /\ Allowed(tk, "DELETE_USER")
  /\ u # tk.sub /\ u \notin deleted
  /\ frozen' = frozen \cup reached
  /\ thawed' = thawed \ reached
  /\ late' = late \ reached
  /\ UNCHANGED <<durable, userVars, flagVars, owner, revokedAt, tokens, now, audit_seq>>

\* The restoration is committed first.
RestoreDies(u, reached) ==
  /\ Dies /\ u \in deleted
  /\ Waiting("restore_user", u) \sqsubseteq calls
  /\ deleted' = deleted \ {u}
  /\ frozen' = frozen \ reached
  /\ thawed' = IF u \in banned THEN thawed \cup reached ELSE thawed
  /\ UNCHANGED <<durable, userVars, banned, bannedAt, owner, late, revokedAt, tokens, now, audit_seq>>

-----------------------------------------------------------------------------
(* Wallets *)

\* Mutant: a wallet that does not exist is frozen, too.
FreezeAnyWallet(tk, w) ==
  /\ Allowed(tk, "FREEZE_WALLET") /\ Audited
  /\ frozen' = frozen \cup {w}
  /\ UNCHANGED <<durable, userVars, flagVars, owner, thawed, late, revokedAt, tokens, now, calls>>

FreezeWallet(tk, w) ==
  /\ Allowed(tk, "FREEZE_WALLET") /\ Audited
  /\ w \in DOMAIN owner
  /\ frozen' = frozen \cup {w}
  /\ UNCHANGED <<durable, userVars, flagVars, owner, thawed, late, revokedAt, tokens, now, calls>>

\* Whoever owns the wallet, banned and deleted users included.
UnfreezeWallet(tk, w) ==
  /\ Allowed(tk, "UNFREEZE_WALLET") /\ Audited
  /\ w \in DOMAIN owner
  /\ frozen' = frozen \ {w}
  /\ thawed' = IF Closed(owner[w]) THEN thawed \cup {w} ELSE thawed
  /\ UNCHANGED <<durable, userVars, flagVars, owner, late, revokedAt, tokens, now, calls>>

-----------------------------------------------------------------------------

AccessNext ==
  \/ Tick
  \/ \E u \in User :
       \/ Login(u)
       \/ \E r \in GrantedRoles : AssignRole(u, r) \/ RevokeRole(u, r)
       \/ \E p \in GrantedPermissions : GrantUserPermission(u, p) \/ RevokeUserPermission(u, p)
       \/ \E w \in WalletId : CreateWallet(u, w)
       \/ \E unfreeze \in BOOLEAN : RestoreUser(u, unfreeze)
       \/ RestoreTooLate(u)
       \/ \E reached \in SUBSET WalletsOf(u) : RestoreDies(u, reached)
  \/ \E r \in OverriddenRoles, p \in GrantedPermissions :
       GrantRolePermission(r, p) \/ RevokeRolePermission(r, p)
  \/ \E tk \in tokens :
       \/ \E u \in User :
            \/ Await(tk, "manage_role", u) \/ Await(tk, "manage_permission", u)
            \/ AwaitRestore(tk, u)
            \/ BanUser(tk, u) \/ UnbanUser(tk, u) \/ SoftDeleteUser(tk, u)
            \/ \E reached \in SUBSET WalletsOf(u) :
                 BanDies(tk, u, reached) \/ SoftDeleteDies(tk, u, reached)
       \/ \E r \in OverriddenRoles : Await(tk, "manage_role_permission", r)
       \/ Await(tk, "create_wallet", tk.sub)
       \/ \E w \in WalletId : FreezeWallet(tk, w) \/ UnfreezeWallet(tk, w)

AccessSpec == AccessInit /\ [][AccessNext]_accessVars

-----------------------------------------------------------------------------
(* Properties *)

\* Type invariant; tokens never carry roles nobody could have had.
AccessTypeOK ==
  /\ durable \in BOOLEAN
  /\ roles \in [User -> SUBSET Role]
  /\ DOMAIN role_overrides \subseteq Role
  /\ \A r \in DOMAIN role_overrides : role_overrides[r] \subseteq Permission
  /\ user_overrides \in [User -> SUBSET Permission]
  /\ banned \subseteq User /\ deleted \subseteq User
  /\ tokens \subseteq Token /\ \A tk \in tokens : Live(tk)
  /\ now \in 0..MaxTime
  /\ DOMAIN owner \subseteq WalletId /\ \A w \in DOMAIN owner : owner[w] \in User
  /\ frozen \cup thawed \cup late \subseteq DOMAIN owner
  /\ IsABag(calls) /\ BagToSet(calls) \subseteq Call
  /\ audit_seq \in 0..MaxAudit
  /\ bannedAt \in [User -> 0..MaxTime]
  /\ revokedAt \in [User -> [Role -> 0..MaxTime]]

\* The roles in a token and the ban of its user are never looked at again, so
\* what is taken from a user stays usable, but for less than the life of one
\* token from the moment it was taken, however often the user logs in.
StaleAuthorityExpires ==
  \A tk \in tokens :
    /\ tk.sub \in banned => now < bannedAt[tk.sub] + Ttl
    /\ \A r \in tk.roles \ roles[tk.sub] : now < revokedAt[tk.sub][r] + Ttl

\* A wallet of a banned or deleted user that is not frozen was created after
\* the closure, or unfrozen after it, or missed by a ban that died: bans,
\* deletions, their undoing one by one and in any order, and the deletions that
\* died half-way, leave no other wallet open.
ColdUnlessReopened ==
  \A w \in DOMAIN owner :
    (Closed(owner[w]) /\ w \notin frozen) => w \in thawed \cup late

\* What the comment in soft_delete_user says of deleted users: unless an
\* administrator unfreezes it, no wallet of theirs can send.
NoHotWallets ==
  \A w \in DOMAIN owner :
    (owner[w] \in deleted /\ w \notin frozen) => w \in thawed

Authority(u) == {p \in Permission : HasPermission(p, roles[u], role_overrides, user_overrides[u])}

GrantStep ==
  \/ \E u \in User, r \in GrantedRoles : AssignRole(u, r)
  \/ \E u \in User, p \in GrantedPermissions : GrantUserPermission(u, p)
  \/ \E r \in OverriddenRoles, p \in GrantedPermissions : GrantRolePermission(r, p)

\* On the in-memory store nobody's permissions grow except when a grant ends: no
\* revocation, of a role, of a permission of a user or of the last permission of
\* an overridden role, gives a permission to anyone.
AuthorityGrowsByGrants ==
  [][~durable => \/ \A u \in User : Authority(u)' \subseteq Authority(u)
                 \/ GrantStep]_accessVars

\* On PostgreSQL a frozen wallet thaws when an administrator unfreezes it or in
\* the step that ends the deletion of its owner, never in a second restore that
\* passed its check before the first one ended.
RestoreThawsOnce ==
  [][durable => \A w \in frozen \ frozen' :
        \/ owner[w] \in deleted \ deleted'
        \/ \E tk \in tokens : UnfreezeWallet(tk, w)]_accessVars
=============================================================================
