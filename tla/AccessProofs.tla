---------------------------- MODULE AccessProofs ----------------------------
(***************************************************************************)
(* Proofs about Access, for any users, wallets and permissions, any life   *)
(* of a token and any number of calls that wait, in memory and on          *)
(* PostgreSQL, wherever the process dies.                                  *)
(***************************************************************************)
EXTENDS Access, TLAPS

-----------------------------------------------------------------------------
(* Bags, permissions *)

LEMMA EmptyIsABag == IsABag(EmptyBag) /\ BagToSet(EmptyBag) = {}
  BY DEF IsABag, EmptyBag, SetToBag, BagToSet

LEMMA BagWithOne ==
  ASSUME NEW b, IsABag(b), NEW e
  PROVE  IsABag(b (+) SetToBag({e})) /\ BagToSet(b (+) SetToBag({e})) = BagToSet(b) \cup {e}
<1>. DEFINE one == SetToBag({e})
            sum == b (+) one
<1>1. DOMAIN one = {e} /\ one[e] = 1
  BY DEF SetToBag
<1>. HIDE DEF one
<1>2. DOMAIN sum = DOMAIN b \cup {e}
  BY <1>1 DEF (+)
<1>3. ASSUME NEW x \in DOMAIN sum PROVE sum[x] \in {n \in Nat : n > 0}
  <2>1. sum[x] = (IF x \in DOMAIN b THEN b[x] ELSE 0) + (IF x \in DOMAIN one THEN one[x] ELSE 0)
    BY <1>3 DEF (+)
  <2>2. x \in DOMAIN b => b[x] \in {n \in Nat : n > 0}
    BY DEF IsABag
  <2>3. x \in DOMAIN one => one[x] = 1
    BY <1>1
  <2>4. x \in DOMAIN b \/ x \in DOMAIN one
    BY <1>1, <1>2, <1>3
  <2>. QED
    BY <2>1, <2>2, <2>3, <2>4
<1>4. sum = [x \in DOMAIN sum |-> sum[x]]
  BY DEF (+)
<1>. HIDE DEF sum
<1>5. sum \in [DOMAIN sum -> {n \in Nat : n > 0}]
  BY <1>3, <1>4
<1>6. IsABag(sum) /\ BagToSet(sum) = BagToSet(b) \cup {e}
  BY <1>2, <1>5 DEF IsABag, BagToSet
<1>. QED
  BY <1>6 DEF sum, one

LEMMA BagWithoutOne ==
  ASSUME NEW b, IsABag(b), NEW c, IsABag(c)
  PROVE  IsABag(b (-) c) /\ BagToSet(b (-) c) \subseteq BagToSet(b)
<1>1. ASSUME NEW x \in DOMAIN b
      PROVE  (IF x \in DOMAIN c THEN b[x] - c[x] ELSE b[x]) \in Int
  <2>1. b[x] \in Nat /\ (x \in DOMAIN c => c[x] \in Nat)
    BY DEF IsABag
  <2>. QED
    BY <2>1
<1>. QED
  BY <1>1 DEF (-), IsABag, BagToSet

-----------------------------------------------------------------------------
(* Types *)

LEMMA RoleTable == ROLE_PERMISSIONS \in [Role -> SUBSET Permission]
  BY DEF ROLE_PERMISSIONS, Role, Permission

\* Granting to a role and revoking from it leave a table of overrides.
LEMMA OverridesType ==
  ASSUME AccessTypeOK, NEW r \in Role, NEW p \in Permission
  PROVE  /\ DOMAIN WithGrant(role_overrides, r, p) \subseteq Role
         /\ \A x \in DOMAIN WithGrant(role_overrides, r, p) :
              WithGrant(role_overrides, r, p)[x] \subseteq Permission
         /\ DOMAIN WithoutGrant(role_overrides, r, p) \subseteq Role
         /\ \A x \in DOMAIN WithoutGrant(role_overrides, r, p) :
              WithoutGrant(role_overrides, r, p)[x] \subseteq Permission
<1>1. DOMAIN role_overrides \subseteq Role /\ \A x \in DOMAIN role_overrides : role_overrides[x] \subseteq Permission
  BY DEF AccessTypeOK
<1>2. UNION {role_overrides[y] : y \in DOMAIN role_overrides \cap {r}} \subseteq Permission
  BY <1>1
<1>3. /\ DOMAIN WithGrant(role_overrides, r, p) \subseteq Role
      /\ \A x \in DOMAIN WithGrant(role_overrides, r, p) :
           WithGrant(role_overrides, r, p)[x] \subseteq Permission
  BY <1>1, <1>2 DEF WithGrant
<1>. DEFINE left == [x \in DOMAIN role_overrides |->
                       IF x = r THEN role_overrides[x] \ {p} ELSE role_overrides[x]]
<1>4. DOMAIN left \subseteq Role /\ \A x \in DOMAIN left : left[x] \subseteq Permission
  BY <1>1
<1>5. WithoutGrant(role_overrides, r, p) =
        IF durable THEN Restrict(left, {x \in DOMAIN left : left[x] # {}}) ELSE left
  BY DEF WithoutGrant
<1>. HIDE DEF left
<1>6. /\ DOMAIN WithoutGrant(role_overrides, r, p) \subseteq Role
      /\ \A x \in DOMAIN WithoutGrant(role_overrides, r, p) :
           WithoutGrant(role_overrides, r, p)[x] \subseteq Permission
  <2>1. CASE durable
    BY <1>4, <1>5, <2>1 DEF Restrict
  <2>2. CASE ~durable
    BY <1>4, <1>5, <2>2
  <2>. QED
    BY <2>1, <2>2
<1>. QED
  BY <1>3, <1>6

\* A call that waits or gets its body leaves a bag of calls.
LEMMA CallsType ==
  ASSUME AccessTypeOK, NEW handler \in DOMAIN RequiredPermission, NEW target \in User \cup Role
  PROVE  /\ IsABag(calls (+) Waiting(handler, target))
         /\ BagToSet(calls (+) Waiting(handler, target)) \subseteq Call
         /\ IsABag(calls (-) Waiting(handler, target))
         /\ BagToSet(calls (-) Waiting(handler, target)) \subseteq Call
<1>. DEFINE call == [handler |-> handler, target |-> target]
<1>1. call \in Call
  BY DEF Call
<1>2. Waiting(handler, target) = SetToBag({call})
  BY DEF Waiting
<1>. HIDE DEF call
<1>3. IsABag(calls) /\ BagToSet(calls) \subseteq Call
  BY DEF AccessTypeOK
<1>4. IsABag(SetToBag({call}))
  BY DEF IsABag, SetToBag
<1>5. /\ IsABag(calls (+) SetToBag({call}))
      /\ BagToSet(calls (+) SetToBag({call})) = BagToSet(calls) \cup {call}
  BY <1>3, BagWithOne
<1>6. /\ IsABag(calls (-) SetToBag({call}))
      /\ BagToSet(calls (-) SetToBag({call})) \subseteq BagToSet(calls)
  BY <1>3, <1>4, BagWithoutOne
<1>. QED
  BY <1>1, <1>2, <1>3, <1>5, <1>6

LEMMA Handlers ==
  DOMAIN RequiredPermission =
    {"manage_role", "manage_permission", "manage_role_permission", "restore_user", "create_wallet"}
  BY DEF RequiredPermission

UserTypes ==
  /\ durable \in BOOLEAN
  /\ roles \in [User -> SUBSET Role]
  /\ DOMAIN role_overrides \subseteq Role
  /\ \A r \in DOMAIN role_overrides : role_overrides[r] \subseteq Permission
  /\ user_overrides \in [User -> SUBSET Permission]
  /\ revokedAt \in [User -> [Role -> 0..MaxTime]]

FlagTypes ==
  /\ banned \subseteq User /\ deleted \subseteq User
  /\ bannedAt \in [User -> 0..MaxTime]

TokenTypes ==
  /\ tokens \subseteq Token /\ \A tk \in tokens : Live(tk)
  /\ now \in 0..MaxTime

WalletTypes ==
  /\ DOMAIN owner \subseteq WalletId /\ \A w \in DOMAIN owner : owner[w] \in User
  /\ frozen \cup thawed \cup late \subseteq DOMAIN owner

CallTypes == IsABag(calls) /\ BagToSet(calls) \subseteq Call

LEMMA TypesInParts ==
  AccessTypeOK <=> /\ UserTypes /\ FlagTypes /\ TokenTypes /\ WalletTypes /\ CallTypes
                  /\ audit_seq \in 0..MaxAudit
  BY DEF AccessTypeOK, UserTypes, FlagTypes, TokenTypes, WalletTypes, CallTypes

LEMMA InitTypes == AccessInit => AccessTypeOK
<1>. SUFFICES ASSUME AccessInit PROVE AccessTypeOK
  OBVIOUS
<1>1. UserTypes
  BY AccessBounds DEF AccessInit, UserTypes, Role
<1>2. FlagTypes
  BY AccessBounds DEF AccessInit, FlagTypes
<1>3. TokenTypes
  BY AccessBounds DEF AccessInit, TokenTypes
<1>4. WalletTypes
  BY DEF AccessInit, WalletTypes
<1>5. CallTypes
  BY EmptyIsABag DEF AccessInit, CallTypes
<1>. QED
  BY <1>1, <1>2, <1>3, <1>4, <1>5, AccessBounds, TypesInParts DEF AccessInit

LEMMA NextUserTypes == AccessTypeOK /\ [AccessNext]_accessVars => UserTypes'
<1>. SUFFICES ASSUME AccessTypeOK, [AccessNext]_accessVars PROVE UserTypes'
  OBVIOUS
<1>. USE AccessBounds
<1>t. UserTypes /\ now \in 0..MaxTime
  BY TypesInParts DEF TokenTypes
<1>1. CASE UNCHANGED <<durable, userVars, revokedAt>>
  BY <1>t, <1>1 DEF UserTypes, userVars
<1>2. ASSUME NEW u \in User, NEW r \in GrantedRoles, AssignRole(u, r) PROVE UserTypes'
  <2>1. revokedAt' \in [User -> [Role -> 0..MaxTime]]
    BY <1>2, <1>t DEF AssignRole, UserTypes
  <2>. QED
    BY <1>2, <1>t, <2>1 DEF AssignRole, UserTypes
<1>3. ASSUME NEW u \in User, NEW r \in GrantedRoles, RevokeRole(u, r) PROVE UserTypes'
  <2>1. revokedAt' \in [User -> [Role -> 0..MaxTime]]
    BY <1>3, <1>t DEF RevokeRole, UserTypes
  <2>. QED
    BY <1>3, <1>t, <2>1 DEF RevokeRole, UserTypes
<1>4. ASSUME NEW u \in User, NEW p \in GrantedPermissions,
             GrantUserPermission(u, p) \/ RevokeUserPermission(u, p)
      PROVE  UserTypes'
  BY <1>4, <1>t DEF GrantUserPermission, RevokeUserPermission, UserTypes
<1>5. ASSUME NEW r \in OverriddenRoles, NEW p \in GrantedPermissions,
             GrantRolePermission(r, p) \/ RevokeRolePermission(r, p)
      PROVE  UserTypes'
  <2>1. /\ DOMAIN role_overrides' \subseteq Role
        /\ \A x \in DOMAIN role_overrides' : role_overrides'[x] \subseteq Permission
    BY <1>5, OverridesType DEF GrantRolePermission, RevokeRolePermission
  <2>. QED
    BY <1>5, <1>t, <2>1 DEF GrantRolePermission, RevokeRolePermission, UserTypes
<1>. QED
  BY <1>1, <1>2, <1>3, <1>4, <1>5 DEF AccessNext, accessVars, Tick, Login, CreateWallet, RestoreUser,
     RestoreTooLate, RestoreDies, Await, AwaitRestore, BanUser, UnbanUser, SoftDeleteUser, BanDies,
     SoftDeleteDies, FreezeWallet, UnfreezeWallet

LEMMA NextFlagTypes == AccessTypeOK /\ [AccessNext]_accessVars => FlagTypes'
<1>. SUFFICES ASSUME AccessTypeOK, [AccessNext]_accessVars PROVE FlagTypes'
  OBVIOUS
<1>t. FlagTypes /\ now \in 0..MaxTime /\ 0 \in 0..MaxTime
  BY AccessBounds, TypesInParts DEF TokenTypes
<1>1. CASE UNCHANGED flagVars
  BY <1>t, <1>1 DEF FlagTypes, flagVars
<1>2. ASSUME NEW u \in User, NEW unfreeze \in BOOLEAN, RestoreUser(u, unfreeze) PROVE FlagTypes'
  BY <1>2, <1>t DEF RestoreUser, FlagTypes
<1>3. ASSUME NEW u \in User, NEW reached \in SUBSET WalletsOf(u), RestoreDies(u, reached) PROVE FlagTypes'
  BY <1>3, <1>t DEF RestoreDies, FlagTypes
<1>4. ASSUME NEW tk \in tokens, NEW u \in User, BanUser(tk, u) PROVE FlagTypes'
  BY <1>4, <1>t DEF BanUser, FlagTypes
<1>5. ASSUME NEW tk \in tokens, NEW u \in User, NEW reached \in SUBSET WalletsOf(u), BanDies(tk, u, reached)
      PROVE  FlagTypes'
  BY <1>5, <1>t DEF BanDies, FlagTypes
<1>6. ASSUME NEW tk \in tokens, NEW u \in User, UnbanUser(tk, u) \/ SoftDeleteUser(tk, u) PROVE FlagTypes'
  BY <1>6, <1>t DEF UnbanUser, SoftDeleteUser, FlagTypes
<1>. QED
  BY <1>1, <1>2, <1>3, <1>4, <1>5, <1>6 DEF AccessNext, accessVars, Tick, Login, CreateWallet,
     AssignRole, RevokeRole, GrantUserPermission, RevokeUserPermission, GrantRolePermission,
     RevokeRolePermission, RestoreTooLate, Await, AwaitRestore, SoftDeleteDies, FreezeWallet, UnfreezeWallet

LEMMA NextTokenTypes == AccessTypeOK /\ [AccessNext]_accessVars => TokenTypes'
<1>. SUFFICES ASSUME AccessTypeOK, [AccessNext]_accessVars PROVE TokenTypes'
  OBVIOUS
<1>t. TokenTypes /\ roles \in [User -> SUBSET Role] /\ MaxTime \in Nat /\ Ttl \in Nat \ {0}
  BY AccessBounds, TtlPositive, TypesInParts DEF UserTypes
<1>1. CASE UNCHANGED <<tokens, now>>
  BY <1>t, <1>1 DEF TokenTypes, Live
<1>2. CASE Tick
  <2>1. now' \in 0..MaxTime
    BY <1>2, <1>t DEF Tick, TokenTypes
  <2>2. \A tk \in tokens' : tk \in tokens /\ tk.exp > now'
    BY <1>2 DEF Tick, Live
  <2>. QED
    BY <1>t, <2>1, <2>2 DEF TokenTypes, Live
<1>3. ASSUME NEW u \in User, Login(u) PROVE TokenTypes'
  <2>1. now' = now /\ now \in 0..MaxTime
    BY <1>3, <1>t DEF Login, TokenTypes
  <2>2. CreateJwt(u) \in Token /\ CreateJwt(u).exp > now
    <3>1. now + Ttl \in 1..(MaxTime + Ttl) /\ now + Ttl > now
      BY <1>t, <2>1
    <3>2. roles[u] \in SUBSET Role
      BY <1>t
    <3>. QED
      BY <3>1, <3>2 DEF CreateJwt, Token
  <2>3. tokens' = tokens \cup {CreateJwt(u)}
    BY <1>3 DEF Login
  <2>. QED
    BY <1>t, <2>1, <2>2, <2>3 DEF TokenTypes, Live
<1>. QED
  BY <1>1, <1>2, <1>3 DEF AccessNext, accessVars, CreateWallet, RestoreUser,
     AssignRole, RevokeRole, GrantUserPermission, RevokeUserPermission, GrantRolePermission,
     RevokeRolePermission, RestoreTooLate, RestoreDies, Await, AwaitRestore, BanUser, UnbanUser,
     SoftDeleteUser, BanDies, SoftDeleteDies, FreezeWallet, UnfreezeWallet

\* Only CreateWallet changes who owns what, and no wallet is lost.
LEMMA NextWalletTypes == AccessTypeOK /\ [AccessNext]_accessVars => WalletTypes'
<1>. SUFFICES ASSUME AccessTypeOK, [AccessNext]_accessVars PROVE WalletTypes'
  OBVIOUS
<1>t. WalletTypes /\ \A u : WalletsOf(u) \subseteq DOMAIN owner
  BY TypesInParts DEF WalletsOf
<1>1. CASE UNCHANGED walletVars
  BY <1>t, <1>1 DEF WalletTypes, walletVars
<1>2. ASSUME NEW u \in User, NEW w \in WalletId, CreateWallet(u, w) PROVE WalletTypes'
  <2>1. DOMAIN owner' = DOMAIN owner \cup {w} /\ \A x \in DOMAIN owner' : owner'[x] \in User
    BY <1>2, <1>t DEF CreateWallet, WalletTypes
  <2>2. frozen' = frozen /\ thawed' = thawed /\ late' \subseteq late \cup {w}
    BY <1>2 DEF CreateWallet
  <2>. QED
    BY <1>t, <2>1, <2>2 DEF WalletTypes
<1>3. ASSUME NEW u \in User, NEW unfreeze \in BOOLEAN, RestoreUser(u, unfreeze) PROVE WalletTypes'
  BY <1>3, <1>t DEF RestoreUser, WalletTypes
<1>4. ASSUME NEW u \in User, NEW reached \in SUBSET WalletsOf(u), RestoreDies(u, reached) PROVE WalletTypes'
  BY <1>4, <1>t DEF RestoreDies, WalletTypes
<1>5. ASSUME NEW tk \in tokens, NEW u \in User, BanUser(tk, u) \/ SoftDeleteUser(tk, u) PROVE WalletTypes'
  BY <1>5, <1>t DEF BanUser, SoftDeleteUser, FreezeAll, WalletTypes
<1>6. ASSUME NEW tk \in tokens, NEW u \in User, NEW reached \in SUBSET WalletsOf(u),
             BanDies(tk, u, reached) \/ SoftDeleteDies(tk, u, reached)
      PROVE  WalletTypes'
  BY <1>6, <1>t DEF BanDies, SoftDeleteDies, WalletTypes
<1>7. ASSUME NEW tk \in tokens, NEW w \in WalletId, FreezeWallet(tk, w) \/ UnfreezeWallet(tk, w)
      PROVE  WalletTypes'
  BY <1>7, <1>t DEF FreezeWallet, UnfreezeWallet, WalletTypes
<1>. QED
  BY <1>1, <1>2, <1>3, <1>4, <1>5, <1>6, <1>7 DEF AccessNext, accessVars, Tick, Login, AssignRole,
     RevokeRole, GrantUserPermission, RevokeUserPermission, GrantRolePermission, RevokeRolePermission,
     RestoreTooLate, Await, AwaitRestore, UnbanUser

LEMMA NextCallTypes == AccessTypeOK /\ [AccessNext]_accessVars => CallTypes'
<1>. SUFFICES ASSUME AccessTypeOK, [AccessNext]_accessVars PROVE CallTypes'
  OBVIOUS
<1>t. CallTypes
  BY TypesInParts
<1>1. CASE UNCHANGED calls
  BY <1>t, <1>1 DEF CallTypes
<1>2. CASE calls' = EmptyBag
  BY <1>2, EmptyIsABag DEF CallTypes
<1>3. ASSUME NEW tk, NEW handler \in DOMAIN RequiredPermission, NEW target \in User \cup Role,
             Await(tk, handler, target)
      PROVE  CallTypes'
  BY <1>3, CallsType DEF Await, CallTypes
<1>4. ASSUME NEW handler \in DOMAIN RequiredPermission, NEW target \in User \cup Role, Resume(handler, target)
      PROVE  CallTypes'
  BY <1>4, CallsType DEF Resume, CallTypes
<1>5. \A u \in User : \A r \in GrantedRoles : AssignRole(u, r) \/ RevokeRole(u, r) => CallTypes'
  BY <1>4, Handlers DEF AssignRole, RevokeRole
<1>6. \A u \in User : \A p \in GrantedPermissions :
        GrantUserPermission(u, p) \/ RevokeUserPermission(u, p) => CallTypes'
  BY <1>4, Handlers DEF GrantUserPermission, RevokeUserPermission
<1>7. \A r \in OverriddenRoles : \A p \in GrantedPermissions :
        GrantRolePermission(r, p) \/ RevokeRolePermission(r, p) => CallTypes'
  BY <1>4, Handlers, AccessBounds DEF GrantRolePermission, RevokeRolePermission
<1>8. \A u \in User : \A w \in WalletId : CreateWallet(u, w) => CallTypes'
  BY <1>4, Handlers DEF CreateWallet
<1>9. \A u \in User : (RestoreTooLate(u) \/ \E unfreeze \in BOOLEAN : RestoreUser(u, unfreeze)) => CallTypes'
  BY <1>4, Handlers DEF RestoreUser, RestoreTooLate
<1>10. \A tk \in tokens : \A u \in User :
         Await(tk, "manage_role", u) \/ Await(tk, "manage_permission", u) \/ AwaitRestore(tk, u) => CallTypes'
  BY <1>3, Handlers DEF AwaitRestore
<1>11. \A tk \in tokens : \A r \in OverriddenRoles : Await(tk, "manage_role_permission", r) => CallTypes'
  BY <1>3, Handlers, AccessBounds
<1>12. \A tk \in tokens : Await(tk, "create_wallet", tk.sub) => CallTypes'
  BY <1>3, Handlers, TypesInParts DEF TokenTypes, Token
<1>. QED
  BY <1>1, <1>2, <1>5, <1>6, <1>7, <1>8, <1>9, <1>10, <1>11, <1>12
  DEF AccessNext, accessVars, Tick, Login, RestoreDies, BanUser, UnbanUser, SoftDeleteUser, BanDies,
      SoftDeleteDies, Dies, FreezeWallet, UnfreezeWallet

LEMMA NextAudit == AccessTypeOK /\ [AccessNext]_accessVars => audit_seq' \in 0..MaxAudit
<1>. SUFFICES ASSUME AccessTypeOK, [AccessNext]_accessVars PROVE audit_seq' \in 0..MaxAudit
  OBVIOUS
<1>1. MaxAudit \in Nat /\ audit_seq \in 0..MaxAudit
  BY AccessBounds, TypesInParts
<1>2. Audited => audit_seq' \in 0..MaxAudit
  BY <1>1 DEF Audited
<1>3. UNCHANGED audit_seq => audit_seq' \in 0..MaxAudit
  BY <1>1
<1>. QED
  BY <1>2, <1>3 DEF AccessNext, accessVars, Tick, Login, AssignRole, RevokeRole, GrantUserPermission,
     RevokeUserPermission, GrantRolePermission, RevokeRolePermission, CreateWallet, RestoreUser,
     RestoreTooLate, RestoreDies, Await, AwaitRestore, BanUser, UnbanUser, SoftDeleteUser, BanDies,
     SoftDeleteDies, FreezeWallet, UnfreezeWallet

\* Every state is well formed: tokens are live and carry roles, wallets that are
\* frozen exist, what waits is a bag of calls.
THEOREM AccessTypeCorrect == AccessSpec => []AccessTypeOK
<1>1. AccessTypeOK /\ [AccessNext]_accessVars => AccessTypeOK'
  <2>. SUFFICES ASSUME AccessTypeOK, [AccessNext]_accessVars PROVE AccessTypeOK'
    OBVIOUS
  <2>1. UserTypes' /\ FlagTypes' /\ TokenTypes' /\ WalletTypes' /\ CallTypes' /\ audit_seq' \in 0..MaxAudit
    BY NextUserTypes, NextFlagTypes, NextTokenTypes, NextWalletTypes, NextCallTypes, NextAudit
  <2>. QED
    BY <2>1 DEF AccessTypeOK, UserTypes, FlagTypes, TokenTypes, WalletTypes, CallTypes
<1>. QED
  BY <1>1, InitTypes, PTL DEF AccessSpec

-----------------------------------------------------------------------------
(* What was taken from a user stays usable for less than a token's life.   *)

\* A token was handed out no more than Ttl before its exp, to a user that was
\* not banned and had its roles: a ban in force, and the revocation of one of
\* those roles, came later.
TakenAfterIssue ==
  \A tk \in tokens :
    /\ tk.exp <= now + Ttl
    /\ tk.sub \in banned => tk.exp <= bannedAt[tk.sub] + Ttl
    /\ \A r \in tk.roles \ roles[tk.sub] : tk.exp <= revokedAt[tk.sub][r] + Ttl

LEMMA TokenType ==
  ASSUME AccessTypeOK, NEW tk \in tokens
  PROVE  /\ tk.exp \in Nat /\ tk.sub \in User /\ tk.roles \subseteq Role
         /\ now < tk.exp /\ now \in Nat /\ Ttl \in Nat /\ bannedAt[tk.sub] \in Nat
         /\ \A r \in Role : revokedAt[tk.sub][r] \in Nat
<1>1. /\ tokens \subseteq Token /\ now \in 0..MaxTime /\ bannedAt \in [User -> 0..MaxTime]
      /\ revokedAt \in [User -> [Role -> 0..MaxTime]] /\ Live(tk)
  BY DEF AccessTypeOK
<1>2. tk.exp \in Nat /\ tk.sub \in User /\ tk.roles \subseteq Role
  BY <1>1, AccessBounds, TtlPositive DEF Token
<1>. QED
  BY <1>1, <1>2, AccessBounds, TtlPositive DEF Live

LEMMA NextTakenAfterIssue ==
  AccessTypeOK /\ TakenAfterIssue /\ [AccessNext]_accessVars => TakenAfterIssue'
<1>. SUFFICES ASSUME AccessTypeOK, TakenAfterIssue, [AccessNext]_accessVars PROVE TakenAfterIssue'
  OBVIOUS
<1>t. /\ roles \in [User -> SUBSET Role] /\ revokedAt \in [User -> [Role -> 0..MaxTime]]
      /\ bannedAt \in [User -> 0..MaxTime] /\ now \in 0..MaxTime /\ MaxTime \in Nat /\ Ttl \in Nat
  BY AccessBounds, TtlPositive DEF AccessTypeOK
<1>1. CASE UNCHANGED <<tokens, now, banned, bannedAt, roles, revokedAt>>
  BY <1>1 DEF TakenAfterIssue
<1>2. CASE Tick
  <2>. SUFFICES ASSUME NEW tk \in tokens'
                PROVE  /\ tk.exp <= now' + Ttl
                       /\ tk.sub \in banned' => tk.exp <= bannedAt'[tk.sub] + Ttl
                       /\ \A r \in tk.roles \ roles'[tk.sub] : tk.exp <= revokedAt'[tk.sub][r] + Ttl
    BY DEF TakenAfterIssue
  <2>1. tk \in tokens /\ now' = now + 1 /\ UNCHANGED <<banned, bannedAt, roles, revokedAt>>
    BY <1>2 DEF Tick, flagVars, userVars
  <2>. QED
    BY <1>t, <2>1, TokenType DEF TakenAfterIssue
<1>3. ASSUME NEW u \in User, Login(u) PROVE TakenAfterIssue'
  <2>1. /\ u \notin banned /\ tokens' = tokens \cup {CreateJwt(u)}
        /\ UNCHANGED <<now, banned, bannedAt, roles, revokedAt>>
    BY <1>3 DEF Login, flagVars, userVars
  <2>2. CreateJwt(u).exp = now + Ttl /\ CreateJwt(u).sub = u /\ CreateJwt(u).roles = roles[u]
    BY DEF CreateJwt
  <2>3. now + Ttl <= now + Ttl
    BY <1>t
  <2>. QED
    BY <2>1, <2>2, <2>3 DEF TakenAfterIssue
<1>4. ASSUME NEW u \in User, NEW r \in GrantedRoles, AssignRole(u, r) PROVE TakenAfterIssue'
  <2>. SUFFICES ASSUME NEW tk \in tokens, NEW x \in tk.roles \ roles'[tk.sub]
                PROVE  tk.exp <= revokedAt'[tk.sub][x] + Ttl
    BY <1>4 DEF AssignRole, TakenAfterIssue, flagVars
  <2>1. tk.sub \in User /\ x \in Role /\ r \in Role
    BY TokenType, AccessBounds
  <2>2. roles' = [roles EXCEPT ![u] = @ \cup {r}] /\ revokedAt' = [revokedAt EXCEPT ![u][r] = 0]
    BY <1>4 DEF AssignRole
  <2>3. x \notin roles[tk.sub] /\ (tk.sub = u => x # r)
    BY <1>t, <2>1, <2>2
  <2>4. revokedAt'[tk.sub][x] = revokedAt[tk.sub][x]
    BY <1>t, <2>1, <2>2, <2>3
  <2>. QED
    BY <2>3, <2>4 DEF TakenAfterIssue
<1>5. ASSUME NEW u \in User, NEW r \in GrantedRoles, RevokeRole(u, r) PROVE TakenAfterIssue'
  <2>. SUFFICES ASSUME NEW tk \in tokens, NEW x \in tk.roles \ roles'[tk.sub]
                PROVE  tk.exp <= revokedAt'[tk.sub][x] + Ttl
    BY <1>5 DEF RevokeRole, TakenAfterIssue, flagVars
  <2>1. tk.sub \in User /\ x \in Role /\ r \in Role /\ tk.exp <= now + Ttl
    BY TokenType, AccessBounds DEF TakenAfterIssue
  <2>2. /\ roles' = [roles EXCEPT ![u] = @ \ {r}]
        /\ revokedAt' = IF r \in roles[u] THEN [revokedAt EXCEPT ![u][r] = now] ELSE revokedAt
    BY <1>5 DEF RevokeRole
  <2>3. CASE tk.sub = u /\ x = r /\ r \in roles[u]
    BY <1>t, <2>1, <2>2, <2>3
  <2>4. CASE ~(tk.sub = u /\ x = r /\ r \in roles[u])
    <3>1. x \notin roles[tk.sub] /\ revokedAt'[tk.sub][x] = revokedAt[tk.sub][x]
      BY <1>t, <2>1, <2>2, <2>4
    <3>. QED
      BY <3>1 DEF TakenAfterIssue
  <2>. QED
    BY <2>3, <2>4
<1>6. ASSUME NEW u \in User, UNCHANGED <<tokens, now, roles, revokedAt>>,
             banned' = banned \cup {u},
             bannedAt' = [bannedAt EXCEPT ![u] = IF u \in banned THEN @ ELSE now]
      PROVE  TakenAfterIssue'
  <2>1. \A v \in User : bannedAt'[v] = IF v = u /\ u \notin banned THEN now ELSE bannedAt[v]
    BY <1>t, <1>6
  <2>. QED
    BY <1>6, <2>1, TokenType DEF TakenAfterIssue
<1>7. ASSUME NEW tk \in tokens, NEW u \in User, UnbanUser(tk, u) PROVE TakenAfterIssue'
  <2>1. /\ UNCHANGED <<tokens, now, roles, revokedAt>> /\ banned' = banned \ {u}
        /\ \A v \in User \ {u} : bannedAt'[v] = bannedAt[v]
    BY <1>7, <1>t DEF UnbanUser, userVars
  <2>. QED
    BY <2>1, TokenType DEF TakenAfterIssue
<1>8. \A tk \in tokens : \A u \in User :
        (BanUser(tk, u) \/ \E reached \in SUBSET WalletsOf(u) : BanDies(tk, u, reached)) => TakenAfterIssue'
  BY <1>6 DEF BanUser, BanDies, userVars
<1>. QED
  BY <1>1, <1>2, <1>3, <1>4, <1>5, <1>7, <1>8 DEF AccessNext, accessVars, userVars, flagVars,
     CreateWallet, RestoreUser, GrantUserPermission, RevokeUserPermission, GrantRolePermission,
     RevokeRolePermission, RestoreTooLate, RestoreDies, Await, AwaitRestore, SoftDeleteUser,
     SoftDeleteDies, FreezeWallet, UnfreezeWallet

\* The roles and the ban that a token does not know of came less than Ttl ago,
\* for every life of a token, and however users log in, lose and regain roles,
\* are banned and unbanned.
THEOREM StaleAuthorityIsShort == AccessSpec => []StaleAuthorityExpires
<1>1. AccessInit => TakenAfterIssue
  BY DEF AccessInit, TakenAfterIssue
<1>2. AccessTypeOK /\ TakenAfterIssue => StaleAuthorityExpires
  <2>. SUFFICES ASSUME AccessTypeOK, TakenAfterIssue, NEW tk \in tokens
                PROVE  /\ tk.sub \in banned => now < bannedAt[tk.sub] + Ttl
                       /\ \A r \in tk.roles \ roles[tk.sub] : now < revokedAt[tk.sub][r] + Ttl
    BY DEF StaleAuthorityExpires
  <2>. QED
    BY TokenType DEF TakenAfterIssue
<1>. QED
  BY <1>1, <1>2, NextTakenAfterIssue, AccessTypeCorrect, PTL DEF AccessSpec

-----------------------------------------------------------------------------
(* Custody *)

\* Bans, deletions and restorations leave no wallet of a banned or deleted user
\* open but those reopened, created or missed after the closure: one step
\* keeps it, wherever the process dies in a loop over the wallets.
LEMMA NextCold ==
  AccessTypeOK /\ ColdUnlessReopened /\ [AccessNext]_accessVars => ColdUnlessReopened'
<1>. SUFFICES ASSUME AccessTypeOK, ColdUnlessReopened, [AccessNext]_accessVars PROVE ColdUnlessReopened'
  OBVIOUS
<1>1. CASE UNCHANGED <<walletVars, flagVars>>
  BY <1>1 DEF ColdUnlessReopened, walletVars, flagVars, Closed
<1>2. ASSUME NEW u \in User, NEW w \in WalletId, CreateWallet(u, w) PROVE ColdUnlessReopened'
  <2>1. /\ w \notin DOMAIN owner
        /\ DOMAIN owner' = DOMAIN owner \cup {w} /\ owner'[w] = u
        /\ \A x \in DOMAIN owner : owner'[x] = owner[x]
        /\ UNCHANGED <<banned, deleted, frozen, thawed>>
        /\ late' = IF Closed(u) THEN late \cup {w} ELSE late
    BY <1>2 DEF CreateWallet, flagVars
  <2>. QED
    BY <2>1 DEF ColdUnlessReopened, Closed
<1>3. ASSUME NEW u \in User, NEW unfreeze \in BOOLEAN, RestoreUser(u, unfreeze) PROVE ColdUnlessReopened'
  BY <1>3 DEF RestoreUser, ColdUnlessReopened, Closed, WalletsOf
<1>4. ASSUME NEW u \in User, NEW reached \in SUBSET WalletsOf(u), RestoreDies(u, reached)
      PROVE  ColdUnlessReopened'
  BY <1>4 DEF RestoreDies, ColdUnlessReopened, Closed, WalletsOf
<1>5. ASSUME NEW tk \in tokens, NEW u \in User, BanUser(tk, u) PROVE ColdUnlessReopened'
  BY <1>5 DEF BanUser, FreezeAll, ColdUnlessReopened, Closed, WalletsOf
<1>6. ASSUME NEW tk \in tokens, NEW u \in User, SoftDeleteUser(tk, u) PROVE ColdUnlessReopened'
  BY <1>6 DEF SoftDeleteUser, FreezeAll, ColdUnlessReopened, Closed, WalletsOf
<1>7. ASSUME NEW tk \in tokens, NEW u \in User, UnbanUser(tk, u) PROVE ColdUnlessReopened'
  BY <1>7 DEF UnbanUser, walletVars, ColdUnlessReopened, Closed
<1>8. ASSUME NEW tk \in tokens, NEW u \in User, NEW reached \in SUBSET WalletsOf(u), BanDies(tk, u, reached)
      PROVE  ColdUnlessReopened'
  BY <1>8 DEF BanDies, ColdUnlessReopened, Closed, WalletsOf
<1>9. ASSUME NEW tk \in tokens, NEW u \in User, NEW reached \in SUBSET WalletsOf(u),
             SoftDeleteDies(tk, u, reached)
      PROVE  ColdUnlessReopened'
  BY <1>9 DEF SoftDeleteDies, flagVars, ColdUnlessReopened, Closed
<1>10. ASSUME NEW tk \in tokens, NEW w \in WalletId, FreezeWallet(tk, w) PROVE ColdUnlessReopened'
  BY <1>10 DEF FreezeWallet, flagVars, ColdUnlessReopened, Closed
<1>11. ASSUME NEW tk \in tokens, NEW w \in WalletId, UnfreezeWallet(tk, w) PROVE ColdUnlessReopened'
  BY <1>11 DEF UnfreezeWallet, flagVars, ColdUnlessReopened, Closed
<1>. QED
  BY <1>1, <1>2, <1>3, <1>4, <1>5, <1>6, <1>7, <1>8, <1>9, <1>10, <1>11
  DEF AccessNext, accessVars, Tick, Login, AssignRole, RevokeRole, GrantUserPermission,
      RevokeUserPermission, GrantRolePermission, RevokeRolePermission, RestoreTooLate, Await, AwaitRestore

\* No wallet of a closed account is open but those reopened, created or missed
\* after the closure, for any users and wallets.
THEOREM ClosedAccountsStayCold == AccessSpec => []ColdUnlessReopened
<1>1. AccessInit => ColdUnlessReopened
  BY DEF AccessInit, ColdUnlessReopened
<1>. QED
  BY <1>1, NextCold, AccessTypeCorrect, PTL DEF AccessSpec

-----------------------------------------------------------------------------
(* What a step may never do *)

\* Nobody's permissions grow but by a grant: a revocation, the last permission
\* of an overridden role included, gives none to anyone (in memory).
THEOREM RevocationsGiveNothing == AccessSpec => AuthorityGrowsByGrants
<1>1. AccessTypeOK /\ [AccessNext]_accessVars =>
        [~durable => \/ \A u \in User : Authority(u)' \subseteq Authority(u)
                     \/ GrantStep]_accessVars
  <2>. SUFFICES ASSUME AccessTypeOK, [AccessNext]_accessVars, ~durable, ~GrantStep
                PROVE  \A u \in User : Authority(u)' \subseteq Authority(u)
    OBVIOUS
  <2>t. roles \in [User -> SUBSET Role] /\ user_overrides \in [User -> SUBSET Permission]
    BY DEF AccessTypeOK
  <2>1. CASE UNCHANGED userVars
    BY <2>1 DEF userVars, Authority, HasPermission, EffectivePermissions
  <2>2. ASSUME NEW u \in User, NEW r \in GrantedRoles, RevokeRole(u, r)
        PROVE  \A v \in User : Authority(v)' \subseteq Authority(v)
    <3>1. /\ \A v \in User : roles'[v] \subseteq roles[v]
          /\ role_overrides' = role_overrides /\ user_overrides' = user_overrides
      BY <2>t, <2>2 DEF RevokeRole
    <3>. QED
      BY <3>1 DEF Authority, HasPermission, EffectivePermissions
  <2>3. ASSUME NEW u \in User, NEW p \in GrantedPermissions, RevokeUserPermission(u, p)
        PROVE  \A v \in User : Authority(v)' \subseteq Authority(v)
    <3>1. /\ \A v \in User : user_overrides'[v] \subseteq user_overrides[v]
          /\ roles' = roles /\ role_overrides' = role_overrides
      BY <2>t, <2>3 DEF RevokeUserPermission
    <3>. QED
      BY <3>1 DEF Authority, HasPermission, EffectivePermissions
  <2>4. ASSUME NEW r \in OverriddenRoles, NEW p \in GrantedPermissions, RevokeRolePermission(r, p)
        PROVE  \A v \in User : Authority(v)' \subseteq Authority(v)
    <3>1. /\ roles' = roles /\ user_overrides' = user_overrides
          /\ role_overrides' = WithoutGrant(role_overrides, r, p)
      BY <2>4 DEF RevokeRolePermission
    <3>2. /\ DOMAIN role_overrides' = DOMAIN role_overrides
          /\ \A x \in DOMAIN role_overrides : role_overrides'[x] \subseteq role_overrides[x]
      BY <3>1 DEF WithoutGrant
    <3>3. \A x : EffectivePermissions(x, role_overrides') \subseteq EffectivePermissions(x, role_overrides)
      BY <3>2 DEF EffectivePermissions
    <3>4. \A v \in User : Authority(v)' =
            {q \in Permission : HasPermission(q, roles[v], role_overrides', user_overrides[v])}
      BY <3>1 DEF Authority
    <3>. QED
      BY <3>3, <3>4 DEF Authority, HasPermission
  <2>. QED
    BY <2>1, <2>2, <2>3, <2>4 DEF AccessNext, GrantStep, accessVars, Tick, Login, CreateWallet,
       RestoreUser, RestoreTooLate, RestoreDies, Await, AwaitRestore, BanUser, UnbanUser,
       SoftDeleteUser, BanDies, SoftDeleteDies, FreezeWallet, UnfreezeWallet
<1>. QED
  BY <1>1, AccessTypeCorrect, PTL DEF AccessSpec, AuthorityGrowsByGrants

\* On PostgreSQL a frozen wallet thaws by an unfreeze or in the step that ends
\* the deletion of its owner.
THEOREM RestoresThawOnce == AccessSpec => RestoreThawsOnce
<1>1. [AccessNext]_accessVars =>
        [durable => \A w \in frozen \ frozen' :
           \/ owner[w] \in deleted \ deleted'
           \/ \E tk \in tokens : UnfreezeWallet(tk, w)]_accessVars
  <2>. SUFFICES ASSUME [AccessNext]_accessVars, durable, NEW w \in frozen \ frozen'
                PROVE  owner[w] \in deleted \ deleted' \/ \E tk \in tokens : UnfreezeWallet(tk, w)
    OBVIOUS
  <2>1. ASSUME NEW u \in User, NEW unfreeze \in BOOLEAN, RestoreUser(u, unfreeze)
        PROVE  owner[w] \in deleted \ deleted'
    BY <2>1 DEF RestoreUser, WalletsOf
  <2>2. ASSUME NEW u \in User, NEW reached \in SUBSET WalletsOf(u), RestoreDies(u, reached)
        PROVE  owner[w] \in deleted \ deleted'
    BY <2>2 DEF RestoreDies, WalletsOf
  <2>3. ASSUME NEW tk \in tokens, NEW x \in WalletId, UnfreezeWallet(tk, x)
        PROVE  UnfreezeWallet(tk, w)
    <3>1. w = x
      BY <2>3 DEF UnfreezeWallet
    <3>. QED
      BY <2>3, <3>1
  <2>4. frozen \subseteq frozen' => owner[w] \in deleted \ deleted'
    OBVIOUS
  <2>. QED
    BY <2>1, <2>2, <2>3, <2>4 DEF AccessNext, accessVars, walletVars, Tick, Login, AssignRole,
       RevokeRole, GrantUserPermission, RevokeUserPermission, GrantRolePermission,
       RevokeRolePermission, CreateWallet, RestoreTooLate, Await, AwaitRestore, BanUser, UnbanUser,
       SoftDeleteUser, FreezeAll, BanDies, SoftDeleteDies, FreezeWallet
<1>. QED
  BY <1>1, PTL DEF AccessSpec, RestoreThawsOnce
=============================================================================
