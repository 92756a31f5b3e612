------------------------------ MODULE Accounts ------------------------------
(***************************************************************************)
(* Registration, activation, passwords and profiles: the handlers of       *)
(* src/api/auth_routes.py and the profile handlers of                      *)
(* src/api/admin_routes.py on the users of src/domain/user_repository.py   *)
(* or src/infrastructure/postgres_user_store.py.                           *)
(*                                                                         *)
(* No handler uses after an await what it saw of a user before it, so in   *)
(* memory each is one step.  In PostgreSQL the users are shared by several *)
(* processes: every database transaction is a step, and a process may die  *)
(* between two of them.                                                    *)
(*                                                                         *)
(* User ids are fresh: the number of the registration.                     *)
(***************************************************************************)
EXTENDS Naturals, FiniteSets, Functions

CONSTANTS
  Name, Email,
  AdminName,           \* the configured name of the bootstrap administrator
  SystemName,          \* "system"
  Blank, NoEmail,      \* the empty email, and no email (None, NULL)
  MaxUsers, MaxWrites  \* bounds: registrations, passwords being hashed

ASSUME NamesConfigured == {AdminName, SystemName} \subseteq Name /\ AdminName # SystemName
ASSUME BlanksApart == Blank # NoEmail /\ {Blank, NoEmail} \cap Email = {}
ASSUME AccountsBounds == MaxUsers \in Nat /\ MaxWrites \in Nat

VARIABLES
  durable,      \* the store is PostgreSQL and not memory; never changes
  users,        \* user -> its record; the domain is the users that exist
  by_username,  \* name -> user: the index of the store
  by_email,     \* email -> user: the index of the store
  creds,        \* user -> its credentials, for the users that have them
  roles,        \* user -> the roles given at registration
  registering,  \* user -> the database transaction its registration does next
  writes,       \* password writes that passed their checks and are hashing
  registered,   \* registrations so far
  torn          \* history: an update failed after it had changed an index

indexVars == <<by_username, by_email, torn>>
accountsVars == <<durable, users, indexVars, creds, roles, registering, writes, registered>>

SYSTEM == 0
UserRecord == [username : Name, email : Email \cup {Blank, NoEmail}, deleted : BOOLEAN]

\* password is "" before there is one, "temp" when an administrator issued it.
Credentials == [password : {"", "own", "temp"}, code : BOOLEAN, must_change : BOOLEAN]

\* The migrations of a database create its SYSTEM user, which has no credentials.
AccountsInit ==
  /\ durable \in BOOLEAN
  /\ users = [u \in IF durable THEN {SYSTEM} ELSE {} |->
                [username |-> SystemName, email |-> NoEmail, deleted |-> FALSE]]
  /\ by_username = [n \in IF durable THEN {SystemName} ELSE {} |-> SYSTEM]
  /\ by_email = [a \in {} |-> SYSTEM]
  /\ creds = [u \in {} |-> {}]
  /\ roles = [u \in {} |-> {}]
  /\ registering = [u \in {} |-> ""]
  /\ writes = {}
  /\ registered = 0
  /\ torn = FALSE

-----------------------------------------------------------------------------
(* The store. *)

With(f, x, y) == [z \in DOMAIN f \cup {x} |-> IF z = x THEN y ELSE f[z]]
Without(f, x) == Restrict(f, DOMAIN f \ {x})

\* The emails the store keeps unique: memory skips every falsy one, a UNIQUE
\* column only NULL.
Indexed(a) == a # NoEmail /\ (durable \/ a # Blank)

IndexEmail(index, a, u) == IF Indexed(a) THEN With(index, a, u) ELSE index

CreateUser(u, name, email) ==
  /\ name \notin DOMAIN by_username
  /\ ~(Indexed(email) /\ email \in DOMAIN by_email)
  /\ users' = With(users, u, [username |-> name, email |-> email, deleted |-> FALSE])
  /\ by_username' = With(by_username, name, u)
  /\ by_email' = IndexEmail(by_email, email, u)
  /\ registered' = u
  /\ UNCHANGED torn

FreshCredentials == [password |-> "", code |-> TRUE, must_change |-> FALSE]

-----------------------------------------------------------------------------
(* Registration *)

\* Mutant: the second of two users is promoted when the other one is named
\* system, whatever its id.
IsBootstrapAdminByName(name, us) ==
  /\ name = AdminName
  /\ \/ Cardinality(DOMAIN us) = 1
     \/ Cardinality(DOMAIN us) = 2 /\ \E u \in DOMAIN us : us[u].username = SystemName

\* The first user of an empty store, SYSTEM not counted.
IsBootstrapAdmin(name, us) ==
  /\ name = AdminName
  /\ \/ Cardinality(DOMAIN us) = 1
     \/ Cardinality(DOMAIN us) = 2 /\ SYSTEM \in DOMAIN us /\ us[SYSTEM].username = SystemName

FirstRole(name, us) == IF IsBootstrapAdmin(name, us) THEN "ADMIN" ELSE "VIEWER"

Register(name, email) ==
  LET u == registered + 1 IN
  /\ ~durable /\ registered < MaxUsers
  /\ CreateUser(u, name, email)
  /\ creds' = With(creds, u, FreshCredentials)
  /\ roles' = With(roles, u, {FirstRole(name, users')})
  /\ UNCHANGED <<durable, registering, writes>>

\* Mutant: the role is stored before the credentials.
InsertUserAndRole(name, email) ==
  /\ durable /\ registered < MaxUsers
  /\ CreateUser(registered + 1, name, email)
  /\ registering' = With(registering, registered + 1, "create_credentials")
  /\ roles' = With(roles, registered + 1, {"VIEWER"})
  /\ UNCHANGED <<durable, creds, writes>>

InsertUser(name, email) ==
  /\ durable /\ registered < MaxUsers
  /\ CreateUser(registered + 1, name, email)
  /\ registering' = With(registering, registered + 1, "create_credentials")
  /\ UNCHANGED <<durable, creds, roles, writes>>

InsertCredentials(u) ==
  /\ u \in DOMAIN registering /\ registering[u] = "create_credentials"
  /\ creds' = With(creds, u, FreshCredentials)
  /\ registering' = [registering EXCEPT ![u] = "count_users"]
  /\ UNCHANGED <<durable, users, indexVars, roles, writes, registered>>

\* The name is the one in the request: nobody can rename the user before it
\* has a password.
CountUsers(u) ==
  /\ u \in DOMAIN registering /\ registering[u] = "count_users"
  /\ registering' = [registering EXCEPT ![u] = FirstRole(users[u].username, users)]
  /\ UNCHANGED <<durable, users, indexVars, creds, roles, writes, registered>>

InsertRole(u) ==
  /\ u \in DOMAIN registering /\ registering[u] \in {"ADMIN", "VIEWER"}
  /\ roles' = With(roles, u, {registering[u]})
  /\ registering' = Without(registering, u)
  /\ UNCHANGED <<durable, users, indexVars, creds, writes, registered>>

\* The process dies: what is committed stays.
RegistrationDies(u) ==
  /\ u \in DOMAIN registering
  /\ registering' = Without(registering, u)
  /\ UNCHANGED <<durable, users, indexVars, creds, roles, writes, registered>>

-----------------------------------------------------------------------------
(* Passwords.  A write is checked, the new password hashed, and stored. *)

WriteKind == {"activate", "change", "temp"}

\* What the handler checks first: the activation code; the current password;
\* that the user is not deleted.
Checked(kind, u) ==
  /\ u \in DOMAIN creds
  /\ CASE kind = "activate" -> creds[u].code
       [] kind = "change"   -> creds[u].password # ""
       [] kind = "temp"     -> ~users[u].deleted

\* Mutant: set_password leaves the activation code alone.
StoredKeepingCode(kind, u) ==
  [password    |-> IF kind = "temp" THEN "temp" ELSE "own",
   code        |-> kind = "temp" /\ creds[u].code,
   must_change |-> kind = "temp"]

\* activate_credentials and set_password.
Stored(kind, u) ==
  [password    |-> IF kind = "temp" THEN "temp" ELSE "own",
   code        |-> FALSE,
   must_change |-> kind = "temp"]

WritePassword(kind, u) ==
  /\ ~durable
  /\ Checked(kind, u)
  /\ creds' = [creds EXCEPT ![u] = Stored(kind, u)]
  /\ UNCHANGED <<durable, users, indexVars, roles, registering, writes, registered>>

CheckPassword(kind, u) ==
  /\ durable
  /\ Cardinality(writes) < MaxWrites
  /\ Checked(kind, u)
  /\ writes' = writes \cup {[kind |-> kind, user |-> u]}
  /\ UNCHANGED <<durable, users, indexVars, creds, roles, registering, registered>>

StorePassword(w) ==
  /\ w \in writes
  /\ writes' = writes \ {w}
  /\ creds' = [creds EXCEPT ![w.user] = Stored(w.kind, w.user)]
  /\ UNCHANGED <<durable, users, indexVars, roles, registering, registered>>

WriteDies(w) ==
  /\ w \in writes
  /\ writes' = writes \ {w}
  /\ UNCHANGED <<durable, users, indexVars, creds, roles, registering, registered>>

-----------------------------------------------------------------------------
(* Profiles *)

CanLogIn(u) == u \in DOMAIN creds /\ creds[u].password # ""

EmailTaken(u, email) ==
  email # users[u].email /\ Indexed(email) /\ email \in DOMAIN by_email

NameTaken(u, name) == name # users[u].username /\ name \in DOMAIN by_username

\* Mutant: the old email stays in the index.
ReindexedKeepingOld(u, email) ==
  IF email = users[u].email THEN by_email ELSE IndexEmail(by_email, email, u)

Reindexed(u, email) ==
  IF email = users[u].email THEN by_email
  ELSE IndexEmail(Without(by_email, users[u].email), email, u)

\* Mutant: the old name of a renamed user keeps leading to the user.
WithBothNames(u, name) == With(by_username, name, u)

WithName(u, name) ==
  IF name = users[u].username THEN by_username
  ELSE With(Without(by_username, users[u].username), name, u)

\* update_user when nothing conflicts.
SetProfile(u, name, email) ==
  /\ ~EmailTaken(u, email) /\ ~NameTaken(u, name)
  /\ users' = [users EXCEPT ![u].username = name, ![u].email = email]
  /\ by_email' = Reindexed(u, email)
  /\ by_username' = WithName(u, name)
  /\ UNCHANGED <<durable, torn, creds, roles, registering, writes, registered>>

\* update_user in memory when only the name conflicts: the email index has
\* changed when the error is raised.
TearIndex(u, name, email) ==
  /\ ~durable
  /\ ~EmailTaken(u, email) /\ NameTaken(u, name)
  /\ by_email' = Reindexed(u, email)
  /\ torn' = (torn \/ email # users[u].email)
  /\ UNCHANGED <<durable, users, by_username, creds, roles, registering, writes, registered>>

UpdateMe(u, name, email) ==
  /\ CanLogIn(u)
  /\ SetProfile(u, name, email) \/ TearIndex(u, name, email)

\* The administrator's handler changes no name; it reaches any user.
UpdateUser(u, email) == u \in DOMAIN users /\ SetProfile(u, users[u].username, email)

SetDeleted(u, deleted) ==
  /\ u \in DOMAIN users /\ users[u].deleted # deleted
  /\ users' = [users EXCEPT ![u].deleted = deleted]
  /\ UNCHANGED <<durable, indexVars, creds, roles, registering, writes, registered>>

-----------------------------------------------------------------------------

AccountsNext ==
  \/ \E name \in Name, email \in Email \cup {NoEmail} :
       Register(name, email) \/ InsertUser(name, email)
  \/ \E u \in 0..registered :
       \/ InsertCredentials(u) \/ CountUsers(u) \/ InsertRole(u) \/ RegistrationDies(u)
       \/ \E kind \in WriteKind : WritePassword(kind, u) \/ CheckPassword(kind, u)
       \/ \E name \in Name, email \in Email \cup {Blank} : UpdateMe(u, name, email)
       \/ \E email \in Email \cup {Blank} : UpdateUser(u, email)
       \/ \E deleted \in BOOLEAN : SetDeleted(u, deleted)
  \/ \E w \in writes : StorePassword(w) \/ WriteDies(w)

AccountsSpec == AccountsInit /\ [][AccountsNext]_accountsVars

-----------------------------------------------------------------------------
(* Properties *)

\* Type invariant.
AccountsTypeOK ==
  /\ durable \in BOOLEAN /\ torn \in BOOLEAN
  /\ DOMAIN users \subseteq 0..registered /\ \A u \in DOMAIN users : users[u] \in UserRecord
  /\ DOMAIN creds \subseteq DOMAIN users /\ \A u \in DOMAIN creds : creds[u] \in Credentials
  /\ DOMAIN roles \subseteq DOMAIN creds
  /\ DOMAIN registering \subseteq DOMAIN users \ DOMAIN roles
  /\ writes \subseteq [kind : WriteKind, user : DOMAIN creds]
  /\ registered \in 0..MaxUsers

\* A name leads to the one user that carries it, through registrations,
\* conflicts and renamings in any order: nobody is locked out of an account or
\* let into another one because a name changed hands.
NamesLeadHome ==
  /\ \A u \in DOMAIN users : users[u].username \in DOMAIN by_username
  /\ \A n \in DOMAIN by_username :
       by_username[n] \in DOMAIN users /\ users[by_username[n]].username = n

\* Until an update fails half-way, and forever on PostgreSQL, the index of
\* emails and the records say the same.
EmailsAgree ==
  torn \/ /\ \A u \in DOMAIN users :
               Indexed(users[u].email) => /\ users[u].email \in DOMAIN by_email
                                          /\ by_email[users[u].email] = u
          /\ \A a \in DOMAIN by_email : users[by_email[a]].email = a

\* No two users share an email: what the comment in update_user says the index
\* is for.
EmailsUnique ==
  \A u, v \in DOMAIN users :
    (users[u].email = users[v].email /\ users[u].email \in Email) => u = v

\* Both indexes of the store agree with its records.
IndexesAgree == NamesLeadHome /\ EmailsAgree

\* At most the first user ever registered became an administrator, whoever
\* registers, deletes, renames or dies in between and in whatever process.
AdminIsFirst == \A u \in DOMAIN roles : "ADMIN" \in roles[u] => u = 1

\* An account waits for its activation code or has a password, and never both:
\* login refuses one that has a code, whatever its password.
CodeOrPassword == \A u \in DOMAIN creds : creds[u].code <=> creds[u].password = ""

\* In one process nothing but a change of the temporary password itself ends
\* the obligation to change it: no activation, with a code sent before, does.
ObligationPersists ==
  [][\A u \in DOMAIN creds :
       (~durable /\ creds[u].must_change /\ ~creds'[u].must_change)
         => ~creds[u].code /\ WritePassword("change", u)]_accountsVars
=============================================================================
