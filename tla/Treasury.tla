------------------------------ MODULE Treasury ------------------------------
(***************************************************************************)
(* Currencies and the treasury wallets of the platform: two handlers of    *)
(* src/api/admin_routes.py on several processes that share a database, or  *)
(* on one that keeps everything in memory and looks and inserts at once.   *)
(***************************************************************************)
EXTENDS Naturals, FiniteSets

CONSTANTS Currency, Native, Process, None

ASSUME NativeIsCurrency == Native \in Currency /\ None \notin Currency

VARIABLES
  shared,      \* the store is PostgreSQL; never changes
  currencies,  \* currencies that exist -> active
  treasuries,  \* currency -> its treasury wallets, how many
  looking      \* process -> the currency whose treasury wallet it did not find

treasuryVars == <<shared, currencies, treasuries, looking>>

TreasuryInit ==
  /\ shared \in BOOLEAN
  /\ currencies = [c \in {Native} |-> TRUE]
  /\ treasuries = [c \in Currency |-> 0]
  /\ looking = [p \in Process |-> None]

\* The primary key, or the dictionary, refuses a code that exists.
CreateCurrency(c, active) ==
  /\ c \notin DOMAIN currencies
  /\ currencies' = [x \in DOMAIN currencies \cup {c} |-> IF x = c THEN active ELSE currencies[x]]
  /\ UNCHANGED <<shared, treasuries, looking>>

\* Mutant: the currency only has to exist.
WantsTreasuryInactive(c) == c \in DOMAIN currencies /\ treasuries[c] = 0

WantsTreasury(c) == c \in DOMAIN currencies /\ currencies[c] /\ treasuries[c] = 0

CreateTreasuryWallet(c) ==
  /\ ~shared /\ WantsTreasury(c)
  /\ treasuries' = [treasuries EXCEPT ![c] = @ + 1]
  /\ UNCHANGED <<shared, currencies, looking>>

FindTreasury(p, c) ==
  /\ shared /\ looking[p] = None
  /\ WantsTreasury(c)
  /\ looking' = [looking EXCEPT ![p] = c]
  /\ UNCHANGED <<shared, currencies, treasuries>>

\* Mutant: the table has no unique index.
InsertTreasuryAnyway(p) ==
  /\ looking[p] # None
  /\ treasuries' = [treasuries EXCEPT ![looking[p]] = @ + 1]
  /\ looking' = [looking EXCEPT ![p] = None]
  /\ UNCHANGED <<shared, currencies>>

\* The unique index refuses a second wallet, and the handler raises.
InsertTreasury(p) ==
  /\ looking[p] # None
  /\ treasuries' = [treasuries EXCEPT ![looking[p]] = IF @ = 0 THEN 1 ELSE @]
  /\ looking' = [looking EXCEPT ![p] = None]
  /\ UNCHANGED <<shared, currencies>>

TreasuryNext ==
  \/ \E c \in Currency :
       \/ \E active \in BOOLEAN : CreateCurrency(c, active)
       \/ CreateTreasuryWallet(c)
       \/ \E p \in Process : FindTreasury(p, c)
  \/ \E p \in Process : InsertTreasury(p)

TreasurySpec == TreasuryInit /\ [][TreasuryNext]_treasuryVars

-----------------------------------------------------------------------------
(* Properties *)

\* Type invariant, and no treasury wallet of a currency that nobody may use.
TreasuryTypeOK ==
  /\ shared \in BOOLEAN
  /\ DOMAIN currencies \subseteq Currency
  /\ looking \in [Process -> Currency \cup {None}]
  /\ \A c \in Currency : treasuries[c] > 0 => c \in DOMAIN currencies /\ currencies[c]

\* At most one treasury wallet of a currency, however many processes found none
\* before the first of them inserted it.
OneTreasury == \A c \in Currency : treasuries[c] <= 1
=============================================================================
