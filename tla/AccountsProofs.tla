--------------------------- MODULE AccountsProofs ---------------------------
(***************************************************************************)
(* Theorems about Accounts for every set of names and emails and every     *)
(* number of registrations, in memory and on PostgreSQL, where             *)
(* registrations and password writes interleave and die between two        *)
(* database transactions.                                                  *)
(***************************************************************************)
EXTENDS Accounts, FiniteSetTheorems, TLAPS

-----------------------------------------------------------------------------
(* Type correctness *)

Stages == {"create_credentials", "count_users", "ADMIN", "VIEWER"}

\* A registration is in a stage only on PostgreSQL, and past the first one the
\* credentials are there; users are numbered without gaps.
Registrations ==
  /\ DOMAIN users = (IF durable THEN 0 ELSE 1)..registered
  /\ \A u \in DOMAIN registering :
       /\ u # SYSTEM
       /\ registering[u] \in Stages
       /\ registering[u] # "create_credentials" => u \in DOMAIN creds
  /\ ~durable => DOMAIN registering = {} /\ writes = {}

TypeInv == AccountsTypeOK /\ Registrations

\* A registration takes the next number.
LEMMA NewUser ==
  ASSUME TypeInv, NEW name \in Name, NEW email \in Email \cup {NoEmail}, registered < MaxUsers,
         CreateUser(registered + 1, name, email), UNCHANGED durable
  PROVE  /\ registered' = registered + 1 /\ registered + 1 \in Nat /\ registered + 1 # SYSTEM
         /\ registered + 1 \notin DOMAIN users
         /\ registered' \in 0..MaxUsers
         /\ DOMAIN users' = DOMAIN users \cup {registered + 1}
         /\ \A u \in DOMAIN users : users'[u] = users[u]
         /\ users'[registered + 1] = [username |-> name, email |-> email, deleted |-> FALSE]
         /\ DOMAIN users' \subseteq 0..registered' /\ \A u \in DOMAIN users' : users'[u] \in UserRecord
         /\ DOMAIN users' = (IF durable' THEN 0 ELSE 1)..registered'
         /\ torn' = torn
<1> DEFINE n == registered + 1
           new == [username |-> name, email |-> email, deleted |-> FALSE]
<1>1. /\ registered \in Nat /\ registered \in 0..MaxUsers /\ MaxUsers \in Nat
      /\ n \notin DOMAIN users
  BY AccountsBounds DEF TypeInv, AccountsTypeOK
<1>2. new \in UserRecord
  BY DEF UserRecord
<1>3. users' = With(users, n, new) /\ registered' = n /\ torn' = torn
  BY DEF CreateUser
<1> HIDE DEF new
<1>4. /\ DOMAIN users' = DOMAIN users \cup {n} /\ users'[n] = new
      /\ \A u \in DOMAIN users : users'[u] = users[u]
  BY <1>1, <1>3 DEF With
<1>5. DOMAIN users' = (IF durable' THEN 0 ELSE 1)..registered'
  <2>1. (durable' <=> durable) /\ DOMAIN users = (IF durable THEN 0 ELSE 1)..registered
    BY DEF TypeInv, Registrations
  <2>2. CASE durable
    <3>1. DOMAIN users' = 0..registered \cup {registered + 1}
      BY <1>4, <2>1, <2>2
    <3>2. 0..registered \cup {registered + 1} = 0..(registered + 1)
      BY <1>1
    <3> QED
      BY <1>3, <2>1, <2>2, <3>1, <3>2
  <2>3. CASE ~durable
    <3>1. DOMAIN users' = 1..registered \cup {registered + 1}
      BY <1>4, <2>1, <2>3
    <3>2. 1..registered \cup {registered + 1} = 1..(registered + 1)
      BY <1>1
    <3> QED
      BY <1>3, <2>1, <2>3, <3>1, <3>2
  <2> QED
    BY <2>2, <2>3
<1>6. \A u \in DOMAIN users' : users'[u] \in UserRecord
  BY <1>2, <1>4 DEF TypeInv, AccountsTypeOK
<1>7. registered' \in 0..MaxUsers /\ n # SYSTEM /\ n \in Nat
  BY <1>1, <1>3 DEF SYSTEM
<1>8. DOMAIN users' \subseteq 0..registered'
  BY <1>1, <1>3, <1>4 DEF TypeInv, AccountsTypeOK
<1> QED
  BY <1>1, <1>3, <1>4, <1>5, <1>6, <1>7, <1>8 DEF new

LEMMA InitTypeInv == AccountsInit => TypeInv
<1> SUFFICES ASSUME AccountsInit PROVE TypeInv
  OBVIOUS
<1>1. /\ durable \in BOOLEAN /\ torn = FALSE /\ registered = 0 /\ writes = {}
      /\ DOMAIN creds = {} /\ DOMAIN roles = {} /\ DOMAIN registering = {}
      /\ DOMAIN users = IF durable THEN {SYSTEM} ELSE {}
      /\ \A u \in DOMAIN users :
           users[u] = [username |-> SystemName, email |-> NoEmail, deleted |-> FALSE]
  BY DEF AccountsInit
<1>2. [username |-> SystemName, email |-> NoEmail, deleted |-> FALSE] \in UserRecord
  BY NamesConfigured DEF UserRecord
<1>3. DOMAIN users = (IF durable THEN 0 ELSE 1)..registered
  BY <1>1 DEF SYSTEM
<1>4. registered \in 0..MaxUsers
  BY <1>1, AccountsBounds
<1>5. AccountsTypeOK
  <2>1. DOMAIN users \subseteq 0..registered /\ \A u \in DOMAIN users : users[u] \in UserRecord
    BY <1>1, <1>2 DEF SYSTEM
  <2> QED
    BY <1>1, <1>4, <2>1 DEF AccountsTypeOK
<1> QED
  BY <1>1, <1>3, <1>5 DEF TypeInv, Registrations

\* A step that leaves the users, who they are registered as and the writes under
\* way alone, and whose credentials are credentials.
LEMMA SameUsers ==
  ASSUME TypeInv, UNCHANGED <<durable, registered>>, torn' \in BOOLEAN,
         DOMAIN users' = DOMAIN users, \A u \in DOMAIN users : users'[u] \in UserRecord,
         DOMAIN creds \subseteq DOMAIN creds', DOMAIN creds' \subseteq DOMAIN users,
         \A u \in DOMAIN creds' : creds'[u] \in Credentials,
         DOMAIN roles' \subseteq DOMAIN creds',
         DOMAIN registering' \subseteq DOMAIN registering \ DOMAIN roles',
         \A u \in DOMAIN registering' :
           /\ registering'[u] \in Stages
           /\ registering'[u] # "create_credentials" => u \in DOMAIN creds',
         writes' \subseteq [kind : WriteKind, user : DOMAIN creds],
         ~durable => writes' = {}
  PROVE  TypeInv'
<1>1. AccountsTypeOK'
  BY DEF TypeInv, AccountsTypeOK
<1>2. Registrations'
  BY DEF TypeInv, Registrations
<1> QED
  BY <1>1, <1>2 DEF TypeInv

\* What is stored by a registration and by a password write.
LEMMA StoredType ==
  /\ FreshCredentials \in Credentials
  /\ \A kind \in WriteKind : \A u : Stored(kind, u) \in Credentials
BY DEF FreshCredentials, Stored, Credentials, WriteKind

LEMMA RegistrationTypes ==
  ASSUME TypeInv, NEW name \in Name, NEW email \in Email \cup {NoEmail},
         Register(name, email) \/ InsertUser(name, email)
  PROVE  TypeInv'
<1> DEFINE n == registered + 1
<1>1. /\ CreateUser(n, name, email) /\ registered < MaxUsers /\ UNCHANGED <<durable, writes>>
  BY DEF Register, InsertUser
<1>2. /\ registered' = n /\ n \in Nat /\ n # SYSTEM /\ n \notin DOMAIN users
      /\ registered' \in 0..MaxUsers
      /\ DOMAIN users' = DOMAIN users \cup {n}
      /\ DOMAIN users' \subseteq 0..registered' /\ \A u \in DOMAIN users' : users'[u] \in UserRecord
      /\ DOMAIN users' = (IF durable' THEN 0 ELSE 1)..registered'
      /\ torn' = torn
  BY <1>1, NewUser
<1>3. /\ DOMAIN creds \subseteq DOMAIN users /\ DOMAIN roles \subseteq DOMAIN creds
      /\ DOMAIN registering \subseteq DOMAIN users \ DOMAIN roles
      /\ \A u \in DOMAIN creds : creds[u] \in Credentials
      /\ durable \in BOOLEAN /\ torn \in BOOLEAN
      /\ writes \subseteq [kind : WriteKind, user : DOMAIN creds]
  BY DEF TypeInv, AccountsTypeOK
<1> HIDE DEF n
<1>4. CASE Register(name, email)
  <2>1. ~durable /\ creds' = With(creds, n, FreshCredentials) /\ registering' = registering
    BY <1>4 DEF Register, n
  <2>2. PICK x : roles' = With(roles, n, x)
    BY <1>4 DEF Register, n
  <2>3. /\ DOMAIN creds' = DOMAIN creds \cup {n} /\ DOMAIN roles' = DOMAIN roles \cup {n}
        /\ \A u \in DOMAIN creds' : creds'[u] \in Credentials
    BY <1>3, <2>1, <2>2, StoredType DEF With
  <2>4. DOMAIN registering = {} /\ writes = {}
    BY <2>1 DEF TypeInv, Registrations
  <2>5. AccountsTypeOK'
    BY <1>1, <1>2, <1>3, <2>1, <2>3, <2>4 DEF AccountsTypeOK
  <2>6. Registrations'
    BY <1>1, <1>2, <2>1, <2>4 DEF Registrations
  <2> QED
    BY <2>5, <2>6 DEF TypeInv
<1>5. CASE InsertUser(name, email)
  <2>1. /\ durable /\ UNCHANGED <<creds, roles>>
        /\ registering' = With(registering, n, "create_credentials")
    BY <1>5 DEF InsertUser, n
  <2>2. /\ DOMAIN registering' = DOMAIN registering \cup {n}
        /\ \A u \in DOMAIN registering' :
             registering'[u] = IF u = n THEN "create_credentials" ELSE registering[u]
    BY <2>1 DEF With
  <2>3. AccountsTypeOK'
    BY <1>1, <1>2, <1>3, <2>1, <2>2 DEF AccountsTypeOK
  <2>4. \A u \in DOMAIN registering' : /\ u # SYSTEM /\ registering'[u] \in Stages
                                       /\ registering'[u] # "create_credentials" => u \in DOMAIN creds'
    BY <1>2, <2>1, <2>2 DEF TypeInv, Registrations, Stages
  <2>5. Registrations'
    BY <1>1, <1>2, <2>1, <2>4 DEF Registrations
  <2> QED
    BY <2>3, <2>5 DEF TypeInv
<1> QED
  BY <1>4, <1>5

LEMMA NextTypeInv == TypeInv /\ [AccountsNext]_accountsVars => TypeInv'
<1> SUFFICES ASSUME TypeInv, [AccountsNext]_accountsVars PROVE TypeInv'
  OBVIOUS
<1>0. /\ durable \in BOOLEAN /\ torn \in BOOLEAN
      /\ \A u \in DOMAIN users : users[u] \in UserRecord
      /\ DOMAIN creds \subseteq DOMAIN users /\ \A u \in DOMAIN creds : creds[u] \in Credentials
      /\ DOMAIN roles \subseteq DOMAIN creds /\ DOMAIN registering \subseteq DOMAIN users \ DOMAIN roles
      /\ \A u \in DOMAIN registering :
           /\ registering[u] \in Stages
           /\ registering[u] # "create_credentials" => u \in DOMAIN creds
      /\ writes \subseteq [kind : WriteKind, user : DOMAIN creds]
      /\ ~durable => writes = {}
  BY DEF TypeInv, AccountsTypeOK, Registrations
<1>1. ASSUME NEW u, InsertCredentials(u) PROVE TypeInv'
  <2>1. /\ u \in DOMAIN registering
        /\ creds' = With(creds, u, FreshCredentials)
        /\ registering' = [registering EXCEPT ![u] = "count_users"]
        /\ UNCHANGED <<durable, users, indexVars, roles, writes, registered>>
    BY <1>1 DEF InsertCredentials
  <2>2. /\ DOMAIN creds' = DOMAIN creds \cup {u}
        /\ \A v \in DOMAIN creds' : creds'[v] \in Credentials
    BY <1>0, <2>1, StoredType DEF With
  <2>3. /\ DOMAIN registering' = DOMAIN registering
        /\ \A v \in DOMAIN registering' : registering'[v] = IF v = u THEN "count_users" ELSE registering[v]
    BY <2>1
  <2> QED
    BY <1>0, <2>1, <2>2, <2>3, SameUsers DEF indexVars, Stages
<1>2. ASSUME NEW u, CountUsers(u) PROVE TypeInv'
  <2>1. /\ u \in DOMAIN registering /\ registering[u] = "count_users"
        /\ registering' = [registering EXCEPT ![u] = FirstRole(users[u].username, users)]
        /\ UNCHANGED <<durable, users, indexVars, creds, roles, writes, registered>>
    BY <1>2 DEF CountUsers
  <2>2. FirstRole(users[u].username, users) \in {"ADMIN", "VIEWER"}
    BY DEF FirstRole
  <2>3. /\ DOMAIN registering' = DOMAIN registering
        /\ \A v \in DOMAIN registering' :
             registering'[v] \in (IF v = u THEN {"ADMIN", "VIEWER"} ELSE {registering[v]})
    BY <2>1, <2>2
  <2>4. \A v \in DOMAIN registering' : /\ registering'[v] \in Stages
                                       /\ registering'[v] # "create_credentials" => v \in DOMAIN creds
    BY <1>0, <2>1, <2>3 DEF Stages
  <2> QED
    BY <1>0, <2>1, <2>3, <2>4, SameUsers DEF indexVars
<1>3. ASSUME NEW u, InsertRole(u) PROVE TypeInv'
  <2>1. /\ u \in DOMAIN registering /\ registering[u] \in {"ADMIN", "VIEWER"}
        /\ roles' = With(roles, u, {registering[u]})
        /\ registering' = Without(registering, u)
        /\ UNCHANGED <<durable, users, indexVars, creds, writes, registered>>
    BY <1>3 DEF InsertRole
  <2>2. DOMAIN roles' = DOMAIN roles \cup {u}
    BY <2>1 DEF With
  <2>3. /\ DOMAIN registering' = DOMAIN registering \ {u}
        /\ \A v \in DOMAIN registering' : registering'[v] = registering[v]
    BY <2>1 DEF Without, Restrict
  <2> QED
    BY <1>0, <2>1, <2>2, <2>3, SameUsers DEF indexVars
<1>4. ASSUME NEW u, RegistrationDies(u) PROVE TypeInv'
  <2>1. /\ DOMAIN registering' = DOMAIN registering \ {u}
        /\ \A v \in DOMAIN registering' : registering'[v] = registering[v]
    BY <1>4 DEF RegistrationDies, Without, Restrict
  <2> QED
    BY <1>0, <1>4, <2>1, SameUsers DEF RegistrationDies, indexVars
<1>5. ASSUME NEW kind \in WriteKind, NEW u \in DOMAIN creds,
             creds' = [creds EXCEPT ![u] = Stored(kind, u)],
             writes' \subseteq writes,
             UNCHANGED <<durable, users, indexVars, roles, registering, registered>>
      PROVE  TypeInv'
  <2>1. DOMAIN creds' = DOMAIN creds /\ \A v \in DOMAIN creds' : creds'[v] \in Credentials
    BY <1>0, <1>5, StoredType
  <2> QED
    BY <1>0, <1>5, <2>1, SameUsers DEF indexVars
<1>6. ASSUME NEW kind \in WriteKind, NEW u, WritePassword(kind, u) PROVE TypeInv'
  BY <1>5, <1>6 DEF WritePassword, Checked
<1>7. ASSUME NEW kind \in WriteKind, NEW u, CheckPassword(kind, u) PROVE TypeInv'
  <2>1. writes' \subseteq [kind : WriteKind, user : DOMAIN creds] /\ durable
    <3>1. durable /\ u \in DOMAIN creds /\ writes' = writes \cup {[kind |-> kind, user |-> u]}
      BY <1>7 DEF CheckPassword, Checked
    <3> QED
      BY <1>0, <3>1
  <2> QED
    BY <1>0, <1>7, <2>1, SameUsers DEF CheckPassword, indexVars
<1>8. ASSUME NEW w \in writes, StorePassword(w) PROVE TypeInv'
  <2>1. w.kind \in WriteKind /\ w.user \in DOMAIN creds
    BY <1>0
  <2> QED
    BY <1>5, <1>8, <2>1 DEF StorePassword
<1>9. ASSUME NEW w \in writes, WriteDies(w) PROVE TypeInv'
  BY <1>0, <1>9, SameUsers DEF WriteDies, indexVars
<1>10. ASSUME NEW u \in DOMAIN users, NEW name \in Name, NEW email \in Email \cup {Blank},
              SetProfile(u, name, email) \/ TearIndex(u, name, email)
       PROVE  TypeInv'
  <2>1. [users[u] EXCEPT !.username = name, !.email = email] \in UserRecord
    BY <1>0 DEF UserRecord
  <2>2. DOMAIN users' = DOMAIN users /\ \A v \in DOMAIN users : users'[v] \in UserRecord
    <3>1. CASE SetProfile(u, name, email)
      <4>1. users' = [users EXCEPT ![u] = [users[u] EXCEPT !.username = name, !.email = email]]
        BY <3>1 DEF SetProfile
      <4> QED
        BY <1>0, <2>1, <4>1
    <3>2. CASE TearIndex(u, name, email)
      BY <1>0, <3>2 DEF TearIndex
    <3> QED
      BY <1>10, <3>1, <3>2
  <2>3. torn' \in BOOLEAN
    BY <1>0, <1>10 DEF SetProfile, TearIndex
  <2> QED
    BY <1>0, <1>10, <2>2, <2>3, SameUsers DEF SetProfile, TearIndex
<1>11. ASSUME NEW u, NEW deleted \in BOOLEAN, SetDeleted(u, deleted) PROVE TypeInv'
  <2>1. u \in DOMAIN users /\ users' = [users EXCEPT ![u] = [users[u] EXCEPT !.deleted = deleted]]
    BY <1>11 DEF SetDeleted
  <2>2. [users[u] EXCEPT !.deleted = deleted] \in UserRecord
    BY <1>0, <2>1 DEF UserRecord
  <2>3. DOMAIN users' = DOMAIN users /\ \A v \in DOMAIN users : users'[v] \in UserRecord
    BY <1>0, <2>1, <2>2
  <2> QED
    BY <1>0, <1>11, <2>3, SameUsers DEF SetDeleted, indexVars
<1>12. ASSUME NEW u, NEW name \in Name, NEW email \in Email \cup {Blank}, UpdateMe(u, name, email)
       PROVE  TypeInv'
  BY <1>0, <1>10, <1>12 DEF UpdateMe, CanLogIn
<1>13. ASSUME NEW u, NEW email \in Email \cup {Blank}, UpdateUser(u, email) PROVE TypeInv'
  <2>1. u \in DOMAIN users /\ users[u].username \in Name
    BY <1>0, <1>13 DEF UpdateUser, UserRecord
  <2> QED
    BY <1>10, <1>13, <2>1 DEF UpdateUser
<1>14. CASE UNCHANGED accountsVars
  BY <1>14 DEF accountsVars, indexVars, TypeInv, AccountsTypeOK, Registrations
<1> QED
  BY <1>1, <1>2, <1>3, <1>4, <1>6, <1>7, <1>8, <1>9, <1>11, <1>12, <1>13, <1>14, RegistrationTypes
  DEF AccountsNext

\* Whatever registers, writes a password or dies at the same time, the store
\* keeps its types: only a user with credentials has roles or a password being
\* written, and one whose registration goes on has no role yet.
THEOREM AccountsTypeCorrect == AccountsSpec => []AccountsTypeOK
<1>1. TypeInv => AccountsTypeOK
  BY DEF TypeInv
<1> QED
  BY <1>1, InitTypeInv, NextTypeInv, PTL DEF AccountsSpec

-----------------------------------------------------------------------------
(* The indexes *)

\* IndexesAgree is not inductive: that every name of a record is in the index,
\* and every entry leads to a record with its name, leaves room for two records
\* of one name.  Each name leads to its own record.
EachNameLeadsHome ==
  /\ \A u \in DOMAIN users : /\ users[u].username \in DOMAIN by_username
                             /\ by_username[users[u].username] = u
  /\ \A n \in DOMAIN by_username :
       by_username[n] \in DOMAIN users /\ users[by_username[n]].username = n

EachEmailLeadsHome ==
  torn \/ /\ \A u \in DOMAIN users :
               Indexed(users[u].email) => /\ users[u].email \in DOMAIN by_email
                                          /\ by_email[users[u].email] = u
          /\ \A a \in DOMAIN by_email : by_email[a] \in DOMAIN users /\ users[by_email[a]].email = a

IndexInv == EachNameLeadsHome /\ EachEmailLeadsHome

LEMMA InitIndexInv == AccountsInit => IndexInv
<1> SUFFICES ASSUME AccountsInit PROVE IndexInv
  OBVIOUS
<1>1. /\ users = [u \in IF durable THEN {SYSTEM} ELSE {} |->
                    [username |-> SystemName, email |-> NoEmail, deleted |-> FALSE]]
      /\ by_username = [n \in IF durable THEN {SystemName} ELSE {} |-> SYSTEM]
      /\ DOMAIN by_email = {}
  BY DEF AccountsInit
<1>2. CASE durable
  BY <1>1, <1>2 DEF IndexInv, EachNameLeadsHome, EachEmailLeadsHome, Indexed
<1>3. CASE ~durable
  BY <1>1, <1>3 DEF IndexInv, EachNameLeadsHome, EachEmailLeadsHome
<1> QED
  BY <1>2, <1>3

\* The records keep their names and emails.
LEMMA SameRecords ==
  ASSUME IndexInv, UNCHANGED <<durable, indexVars>>, DOMAIN users' = DOMAIN users,
         \A u \in DOMAIN users : /\ users'[u].username = users[u].username
                                 /\ users'[u].email = users[u].email
  PROVE  IndexInv'
<1>1. EachNameLeadsHome'
  BY DEF IndexInv, EachNameLeadsHome, indexVars
<1>2. EachEmailLeadsHome'
  BY DEF IndexInv, EachEmailLeadsHome, indexVars, Indexed
<1> QED
  BY <1>1, <1>2 DEF IndexInv

\* A record is added under a name and an email that nobody has.
LEMMA RecordAdded ==
  ASSUME TypeInv, IndexInv, NEW name \in Name, NEW email \in Email \cup {NoEmail},
         registered < MaxUsers, CreateUser(registered + 1, name, email), UNCHANGED durable
  PROVE  IndexInv'
<1> DEFINE n == registered + 1
<1>1. /\ n \notin DOMAIN users /\ DOMAIN users' = DOMAIN users \cup {n}
      /\ \A u \in DOMAIN users : users'[u] = users[u]
      /\ users'[n].username = name /\ users'[n].email = email
      /\ torn' = torn
  <2>1. /\ n \notin DOMAIN users /\ DOMAIN users' = DOMAIN users \cup {n}
        /\ \A u \in DOMAIN users : users'[u] = users[u]
        /\ users'[n] = [username |-> name, email |-> email, deleted |-> FALSE]
        /\ torn' = torn
    BY NewUser
  <2> QED
    BY <2>1
<1>2. /\ name \notin DOMAIN by_username
      /\ ~(Indexed(email) /\ email \in DOMAIN by_email)
      /\ by_username' = With(by_username, name, n)
      /\ by_email' = IndexEmail(by_email, email, n)
  BY DEF CreateUser
<1> HIDE DEF n
<1>3. EachNameLeadsHome'
  <2>1. /\ DOMAIN by_username' = DOMAIN by_username \cup {name}
        /\ \A m \in DOMAIN by_username' : by_username'[m] = IF m = name THEN n ELSE by_username[m]
    BY <1>2 DEF With
  <2> QED
    BY <1>1, <1>2, <2>1 DEF IndexInv, EachNameLeadsHome
<1>4. EachEmailLeadsHome'
  <2>1. \A a : Indexed(a)' <=> Indexed(a)
    BY DEF Indexed
  <2>2. CASE Indexed(email)
    <3>1. /\ DOMAIN by_email' = DOMAIN by_email \cup {email}
          /\ \A a \in DOMAIN by_email' : by_email'[a] = IF a = email THEN n ELSE by_email[a]
      BY <1>2, <2>2 DEF With, IndexEmail
    <3> QED
      BY <1>1, <1>2, <2>1, <2>2, <3>1 DEF IndexInv, EachEmailLeadsHome
  <2>3. CASE ~Indexed(email)
    <3>1. by_email' = by_email
      BY <1>2, <2>3 DEF IndexEmail
    <3> QED
      BY <1>1, <2>1, <2>3, <3>1 DEF IndexInv, EachEmailLeadsHome
  <2> QED
    BY <2>2, <2>3
<1> QED
  BY <1>3, <1>4 DEF IndexInv

\* What the index of emails becomes when the email of u changes.
LEMMA ReindexedProperties ==
  ASSUME NEW u \in DOMAIN users, NEW email, email # users[u].email
  PROVE  /\ Indexed(email) => DOMAIN Reindexed(u, email) = (DOMAIN by_email \ {users[u].email}) \cup {email}
         /\ ~Indexed(email) => DOMAIN Reindexed(u, email) = DOMAIN by_email \ {users[u].email}
         /\ \A a \in DOMAIN Reindexed(u, email) :
              Reindexed(u, email)[a] = IF Indexed(email) /\ a = email THEN u ELSE by_email[a]
BY DEF Reindexed, IndexEmail, With, Without, Restrict

\* A user gets a name and an email that nobody else has.
LEMMA ProfileSet ==
  ASSUME TypeInv, IndexInv, NEW u \in DOMAIN users, NEW name, NEW email, SetProfile(u, name, email)
  PROVE  IndexInv'
<1> DEFINE old == users[u]
<1>1. /\ ~EmailTaken(u, email) /\ ~NameTaken(u, name)
      /\ users' = [users EXCEPT ![u].username = name, ![u].email = email]
      /\ by_email' = Reindexed(u, email) /\ by_username' = WithName(u, name)
      /\ UNCHANGED <<durable, torn>>
  BY DEF SetProfile
<1>2. old \in UserRecord
  BY DEF TypeInv, AccountsTypeOK
<1>3. /\ DOMAIN users' = DOMAIN users
      /\ \A v \in DOMAIN users : v # u => users'[v] = users[v]
      /\ users'[u].username = name /\ users'[u].email = email
  BY <1>1, <1>2 DEF UserRecord
<1>4. EachNameLeadsHome'
  <2>1. CASE name = old.username
    <3>1. by_username' = by_username
      BY <1>1, <2>1 DEF WithName
    <3> QED
      BY <1>3, <2>1, <3>1 DEF IndexInv, EachNameLeadsHome
  <2>2. CASE name # old.username
    <3>1. /\ DOMAIN by_username' = (DOMAIN by_username \ {old.username}) \cup {name}
          /\ \A m \in DOMAIN by_username' : by_username'[m] = IF m = name THEN u ELSE by_username[m]
      BY <1>1, <2>2 DEF WithName, With, Without, Restrict
    <3>2. name \notin DOMAIN by_username
      BY <1>1, <2>2 DEF NameTaken
    <3> QED
      BY <1>3, <2>2, <3>1, <3>2 DEF IndexInv, EachNameLeadsHome
  <2> QED
    BY <2>1, <2>2
<1>5. EachEmailLeadsHome'
  <2>1. \A a : Indexed(a)' <=> Indexed(a)
    BY <1>1 DEF Indexed
  <2>2. CASE torn
    BY <1>1, <2>2 DEF EachEmailLeadsHome
  <2>3. CASE ~torn /\ email = old.email
    <3>1. by_email' = by_email
      BY <1>1, <2>3 DEF Reindexed
    <3> QED
      BY <1>3, <2>1, <2>3, <3>1 DEF IndexInv, EachEmailLeadsHome
  <2>4. CASE ~torn /\ email # old.email /\ Indexed(email)
    <3>1. /\ DOMAIN by_email' = (DOMAIN by_email \ {old.email}) \cup {email}
          /\ \A a \in DOMAIN by_email' : by_email'[a] = IF a = email THEN u ELSE by_email[a]
      BY <1>1, <2>4, ReindexedProperties
    <3>2. email \notin DOMAIN by_email
      BY <1>1, <2>4 DEF EmailTaken
    <3> QED
      BY <1>3, <2>1, <2>4, <3>1, <3>2 DEF IndexInv, EachEmailLeadsHome
  <2>5. CASE ~torn /\ email # old.email /\ ~Indexed(email)
    <3>1. /\ DOMAIN by_email' = DOMAIN by_email \ {old.email}
          /\ \A a \in DOMAIN by_email' : by_email'[a] = by_email[a]
      <4>1. by_email' = Without(by_email, old.email)
        BY <1>1, <2>5 DEF Reindexed, IndexEmail
      <4> QED
        BY <4>1 DEF Without, Restrict
    <3>2. \A v \in DOMAIN users : Indexed(users[v].email) => /\ users[v].email \in DOMAIN by_email
                                                            /\ by_email[users[v].email] = v
      BY <2>5 DEF IndexInv, EachEmailLeadsHome
    <3>3. \A a \in DOMAIN by_email : by_email[a] \in DOMAIN users /\ users[by_email[a]].email = a
      BY <2>5 DEF IndexInv, EachEmailLeadsHome
    <3>4. \A v \in DOMAIN users' : Indexed(users'[v].email) => /\ users'[v].email \in DOMAIN by_email'
                                                              /\ by_email'[users'[v].email] = v
      BY <1>3, <2>5, <3>1, <3>2
    <3>5. \A a \in DOMAIN by_email' : by_email'[a] \in DOMAIN users' /\ users'[by_email'[a]].email = a
      BY <1>3, <3>1, <3>3
    <3> QED
      BY <2>1, <3>4, <3>5 DEF EachEmailLeadsHome
  <2> QED
    BY <2>2, <2>3, <2>4, <2>5
<1> QED
  BY <1>4, <1>5 DEF IndexInv

\* An update that fails half-way is recorded as torn unless it changed nothing.
LEMMA IndexTorn ==
  ASSUME IndexInv, NEW u \in DOMAIN users, NEW name, NEW email, TearIndex(u, name, email)
  PROVE  IndexInv'
<1>1. EachNameLeadsHome'
  BY DEF TearIndex, IndexInv, EachNameLeadsHome
<1>2. EachEmailLeadsHome'
  <2>1. CASE email = users[u].email
    <3>1. by_email' = by_email /\ UNCHANGED <<users, durable>> /\ (torn' <=> torn)
      BY <2>1 DEF TearIndex, Reindexed
    <3> QED
      BY <3>1 DEF IndexInv, EachEmailLeadsHome, Indexed
  <2>2. CASE email # users[u].email
    BY <2>2 DEF TearIndex, EachEmailLeadsHome
  <2> QED
    BY <2>1, <2>2
<1> QED
  BY <1>1, <1>2 DEF IndexInv

LEMMA NextIndexInv == TypeInv /\ IndexInv /\ [AccountsNext]_accountsVars => IndexInv'
<1> SUFFICES ASSUME TypeInv, IndexInv, [AccountsNext]_accountsVars PROVE IndexInv'
  OBVIOUS
<1>1. CASE UNCHANGED <<durable, users, indexVars>>
  BY <1>1, SameRecords
<1>2. ASSUME NEW name \in Name, NEW email \in Email \cup {NoEmail},
             Register(name, email) \/ InsertUser(name, email)
      PROVE  IndexInv'
  BY <1>2, RecordAdded DEF Register, InsertUser
<1>3. ASSUME NEW u, NEW name \in Name, NEW email \in Email \cup {Blank}, UpdateMe(u, name, email)
      PROVE  IndexInv'
  <2>1. u \in DOMAIN users
    BY <1>3 DEF UpdateMe, CanLogIn, TypeInv, AccountsTypeOK
  <2> QED
    BY <1>3, <2>1, ProfileSet, IndexTorn DEF UpdateMe
<1>4. ASSUME NEW u, NEW email \in Email \cup {Blank}, UpdateUser(u, email) PROVE IndexInv'
  BY <1>4, ProfileSet DEF UpdateUser
<1>5. ASSUME NEW u, NEW deleted \in BOOLEAN, SetDeleted(u, deleted) PROVE IndexInv'
  <2>1. /\ DOMAIN users' = DOMAIN users
        /\ \A v \in DOMAIN users : /\ users'[v].username = users[v].username
                                   /\ users'[v].email = users[v].email
    BY <1>5 DEF SetDeleted, TypeInv, AccountsTypeOK, UserRecord
  <2> QED
    BY <1>5, <2>1, SameRecords DEF SetDeleted
<1> QED
  BY <1>1, <1>2, <1>3, <1>4, <1>5
  DEF AccountsNext, accountsVars, InsertCredentials, CountUsers, InsertRole, RegistrationDies,
      WritePassword, CheckPassword, StorePassword, WriteDies

\* Through registrations, renamings, conflicts and deaths in any order a name
\* leads to the one user that carries it, and so does an email until an update
\* in memory fails half-way.
THEOREM IndexesKept == AccountsSpec => []IndexesAgree
<1>1. IndexInv => IndexesAgree
  BY DEF IndexInv, EachNameLeadsHome, EachEmailLeadsHome, IndexesAgree, NamesLeadHome, EmailsAgree
<1> QED
  BY <1>1, InitTypeInv, NextTypeInv, InitIndexInv, NextIndexInv, PTL DEF AccountsSpec

-----------------------------------------------------------------------------
(* The bootstrap administrator *)

\* The users are numbered without gaps, so counting them tells whether u is the
\* first one.
LEMMA CountedFirst ==
  ASSUME NEW name, NEW us, NEW d \in BOOLEAN, NEW k \in Nat, DOMAIN us = (IF d THEN 0 ELSE 1)..k,
         NEW u \in DOMAIN us, u # SYSTEM, FirstRole(name, us) = "ADMIN"
  PROVE  u = 1
<1>1. \/ Cardinality(DOMAIN us) = 1
      \/ Cardinality(DOMAIN us) = 2 /\ SYSTEM \in DOMAIN us
  BY DEF FirstRole, IsBootstrapAdmin
<1>2. CASE d
  <2>1. DOMAIN us = 0..k /\ Cardinality(0..k) = k + 1
    BY <1>2, FS_Interval
  <2> QED
    BY <1>1, <2>1 DEF SYSTEM
<1>3. CASE ~d
  <2>1. DOMAIN us = 1..k /\ (k = 0 \/ Cardinality(1..k) = k)
    BY <1>3, FS_Interval
  <2> QED
    BY <1>1, <2>1 DEF SYSTEM
<1> QED
  BY <1>2, <1>3

\* AdminIsFirst is not inductive: a registration that has counted the users and
\* is about to store its role may be overtaken by any number of others.
AdminInv ==
  /\ AdminIsFirst
  /\ \A u \in DOMAIN registering : registering[u] = "ADMIN" => u = 1

LEMMA NextAdminInv == TypeInv /\ TypeInv' /\ AdminInv /\ [AccountsNext]_accountsVars => AdminInv'
<1> SUFFICES ASSUME TypeInv, TypeInv', AdminInv, [AccountsNext]_accountsVars PROVE AdminInv'
  OBVIOUS
<1>1. /\ registered \in Nat /\ registered' \in Nat /\ durable \in BOOLEAN /\ durable' \in BOOLEAN
      /\ DOMAIN users = (IF durable THEN 0 ELSE 1)..registered
      /\ DOMAIN users' = (IF durable' THEN 0 ELSE 1)..registered'
      /\ DOMAIN registering \subseteq DOMAIN users
      /\ \A u \in DOMAIN registering : u # SYSTEM
  BY DEF TypeInv, AccountsTypeOK, Registrations
<1>2. CASE UNCHANGED <<roles, registering>>
  BY <1>2 DEF AdminInv, AdminIsFirst
<1>3. ASSUME NEW name \in Name, NEW email \in Email \cup {NoEmail}, Register(name, email)
      PROVE  AdminInv'
  <2> DEFINE n == registered + 1
             role == FirstRole(name, users')
  <2>1. /\ roles' = With(roles, n, {role}) /\ UNCHANGED registering
        /\ CreateUser(n, name, email) /\ UNCHANGED durable /\ registered < MaxUsers
    BY <1>3 DEF Register
  <2>2. n \in DOMAIN users' /\ n # SYSTEM
    BY <2>1, NewUser
  <2>3. role = "ADMIN" => n = 1
    BY <1>1, <2>2, CountedFirst
  <2> HIDE DEF n, role
  <2>4. /\ DOMAIN roles' = DOMAIN roles \cup {n}
        /\ \A u \in DOMAIN roles' : roles'[u] = IF u = n THEN {role} ELSE roles[u]
    BY <2>1 DEF With
  <2> QED
    BY <2>1, <2>3, <2>4 DEF AdminInv, AdminIsFirst
<1>4. ASSUME NEW name \in Name, NEW email \in Email \cup {NoEmail}, InsertUser(name, email)
      PROVE  AdminInv'
  <2>1. /\ roles' = roles
        /\ \A u \in DOMAIN registering' : registering'[u] = "ADMIN" => u \in DOMAIN registering
                                                                    /\ registering[u] = "ADMIN"
    BY <1>4 DEF InsertUser, With
  <2> QED
    BY <2>1 DEF AdminInv, AdminIsFirst
<1>5. ASSUME NEW u, InsertCredentials(u) PROVE AdminInv'
  <2>1. roles' = roles /\ registering' = [registering EXCEPT ![u] = "count_users"]
    BY <1>5 DEF InsertCredentials
  <2> QED
    BY <2>1 DEF AdminInv, AdminIsFirst
<1>6. ASSUME NEW u, CountUsers(u) PROVE AdminInv'
  <2> DEFINE role == FirstRole(users[u].username, users)
  <2>1. roles' = roles /\ registering' = [registering EXCEPT ![u] = role] /\ u \in DOMAIN registering
    BY <1>6 DEF CountUsers
  <2>2. role = "ADMIN" => u = 1
    BY <1>1, <2>1, CountedFirst
  <2> HIDE DEF role
  <2> QED
    BY <2>1, <2>2 DEF AdminInv, AdminIsFirst
<1>7. ASSUME NEW u, InsertRole(u) PROVE AdminInv'
  <2>1. /\ u \in DOMAIN registering
        /\ DOMAIN roles' = DOMAIN roles \cup {u}
        /\ \A v \in DOMAIN roles' : roles'[v] = IF v = u THEN {registering[u]} ELSE roles[v]
        /\ DOMAIN registering' = DOMAIN registering \ {u}
        /\ \A v \in DOMAIN registering' : registering'[v] = registering[v]
    BY <1>7 DEF InsertRole, With, Without, Restrict
  <2> QED
    BY <2>1 DEF AdminInv, AdminIsFirst
<1>8. ASSUME NEW u, RegistrationDies(u) PROVE AdminInv'
  <2>1. /\ roles' = roles
        /\ DOMAIN registering' = DOMAIN registering \ {u}
        /\ \A v \in DOMAIN registering' : registering'[v] = registering[v]
    BY <1>8 DEF RegistrationDies, Without, Restrict
  <2> QED
    BY <2>1 DEF AdminInv, AdminIsFirst
<1> QED
  BY <1>2, <1>3, <1>4, <1>5, <1>6, <1>7, <1>8
  DEF AccountsNext, accountsVars, WritePassword, CheckPassword, StorePassword, WriteDies,
      UpdateMe, UpdateUser, SetProfile, TearIndex, SetDeleted

\* Nobody but the first user ever registered is given the role of the bootstrap
\* administrator, however many registrations count the users at the same time.
THEOREM FirstUserAdmin == AccountsSpec => []AdminIsFirst
<1>1. AccountsInit => AdminInv
  BY DEF AccountsInit, AdminInv, AdminIsFirst
<1>2. AdminInv => AdminIsFirst
  BY DEF AdminInv
<1> QED
  BY <1>1, <1>2, InitTypeInv, NextTypeInv, NextAdminInv, PTL DEF AccountsSpec

-----------------------------------------------------------------------------
(* Passwords *)

\* A password that must be changed has no activation code beside it.
CodeInv ==
  /\ CodeOrPassword
  /\ \A u \in DOMAIN creds : creds[u].must_change => ~creds[u].code

\* What a step stores is a fresh record or that of one password write.
LEMMA CredentialSteps ==
  ASSUME [AccountsNext]_accountsVars
  PROVE  \/ creds' = creds
         \/ \E u : creds' = With(creds, u, FreshCredentials)
         \/ \E kind, u : creds' = [creds EXCEPT ![u] = Stored(kind, u)]
<1>1. ASSUME NEW name, NEW email, Register(name, email)
      PROVE  \E u : creds' = With(creds, u, FreshCredentials)
  BY <1>1 DEF Register
<1>2. ASSUME NEW u, InsertCredentials(u) PROVE \E v : creds' = With(creds, v, FreshCredentials)
  BY <1>2 DEF InsertCredentials
<1>3. ASSUME NEW kind, NEW u, WritePassword(kind, u)
      PROVE  \E k, v : creds' = [creds EXCEPT ![v] = Stored(k, v)]
  BY <1>3 DEF WritePassword
<1>4. ASSUME NEW w, StorePassword(w)
      PROVE  \E k, v : creds' = [creds EXCEPT ![v] = Stored(k, v)]
  BY <1>4 DEF StorePassword
<1> QED
  BY <1>1, <1>2, <1>3, <1>4
  DEF AccountsNext, accountsVars, InsertUser, CountUsers, InsertRole, RegistrationDies,
      CheckPassword, WriteDies, UpdateMe, UpdateUser, SetProfile, TearIndex, SetDeleted

LEMMA NextCodeInv == CodeInv /\ [AccountsNext]_accountsVars => CodeInv'
<1> SUFFICES ASSUME CodeInv, [AccountsNext]_accountsVars PROVE CodeInv'
  OBVIOUS
<1>1. CASE creds' = creds
  BY <1>1 DEF CodeInv, CodeOrPassword
<1>2. ASSUME NEW u, creds' = With(creds, u, FreshCredentials) PROVE CodeInv'
  <2>1. \A v \in DOMAIN creds' : \/ creds'[v] = FreshCredentials
                                 \/ v \in DOMAIN creds /\ creds'[v] = creds[v]
    BY <1>2 DEF With
  <2>2. /\ FreshCredentials.code /\ FreshCredentials.password = "" /\ ~FreshCredentials.must_change
    BY DEF FreshCredentials
  <2> QED
    BY <2>1, <2>2 DEF CodeInv, CodeOrPassword
<1>3. ASSUME NEW kind, NEW u, creds' = [creds EXCEPT ![u] = Stored(kind, u)] PROVE CodeInv'
  <2>1. \A v \in DOMAIN creds' : \/ creds'[v] = Stored(kind, u)
                                 \/ v \in DOMAIN creds /\ creds'[v] = creds[v]
    BY <1>3
  <2>2. ~Stored(kind, u).code /\ Stored(kind, u).password # ""
    BY DEF Stored
  <2> QED
    BY <2>1, <2>2 DEF CodeInv, CodeOrPassword
<1> QED
  BY <1>1, <1>2, <1>3, CredentialSteps

LEMMA InitCodeInv == AccountsInit => CodeInv
BY DEF AccountsInit, CodeInv, CodeOrPassword

\* An account waits for its activation code or has a password, and never both.
THEOREM CodeOrPasswordKept == AccountsSpec => []CodeOrPassword
<1>1. CodeInv => CodeOrPassword
  BY DEF CodeInv
<1> QED
  BY <1>1, InitCodeInv, NextCodeInv, PTL DEF AccountsSpec

\* In one process only a change of the temporary password itself ends the
\* obligation to change it.
THEOREM ObligationStands == AccountsSpec => ObligationPersists
<1> DEFINE Stands == \A u \in DOMAIN creds :
                       (~durable /\ creds[u].must_change /\ ~creds'[u].must_change)
                         => ~creds[u].code /\ WritePassword("change", u)
<1>1. TypeInv /\ CodeInv /\ [AccountsNext]_accountsVars => [Stands]_accountsVars
  <2> SUFFICES ASSUME TypeInv, CodeInv, AccountsNext, NEW u \in DOMAIN creds, ~durable,
                      creds[u].must_change, ~creds'[u].must_change
               PROVE  ~creds[u].code /\ WritePassword("change", u)
    OBVIOUS
  <2>1. ~creds[u].code
    BY DEF CodeInv
  <2>2. DOMAIN registering = {} /\ writes = {}
    BY DEF TypeInv, Registrations
  <2>3. creds' # creds
    OBVIOUS
  <2>4. ASSUME NEW name \in Name, NEW email \in Email \cup {NoEmail}, Register(name, email)
        PROVE  FALSE
    <3>1. registered + 1 \notin DOMAIN users
      BY <2>4, NewUser DEF Register
    <3>2. u # registered + 1
      BY <3>1 DEF TypeInv, AccountsTypeOK
    <3>3. creds'[u] = creds[u]
      BY <2>4, <3>2 DEF Register, With
    <3> QED
      BY <3>3
  <2>5. ASSUME NEW kind \in WriteKind, NEW v, WritePassword(kind, v)
        PROVE  WritePassword("change", u)
    <3>1. v \in DOMAIN creds /\ creds' = [creds EXCEPT ![v] = Stored(kind, v)]
      BY <2>5 DEF WritePassword, Checked
    <3>2. v = u
      BY <3>1
    <3>3. kind # "temp"
      BY <3>1, <3>2 DEF Stored
    <3>4. kind # "activate"
      BY <2>1, <2>5, <3>2 DEF WritePassword, Checked
    <3> QED
      BY <2>5, <3>2, <3>3, <3>4 DEF WriteKind
  <2> QED
    BY <2>1, <2>2, <2>3, <2>4, <2>5
    DEF AccountsNext, InsertUser, InsertCredentials, CountUsers, InsertRole, RegistrationDies,
        CheckPassword, WriteDies, StorePassword, UpdateMe, UpdateUser, SetProfile, TearIndex,
        SetDeleted
<1> QED
  BY <1>1, InitTypeInv, NextTypeInv, InitCodeInv, NextCodeInv, PTL DEF AccountsSpec, ObligationPersists
=============================================================================
