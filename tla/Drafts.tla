------------------------------- MODULE Drafts -------------------------------
(***************************************************************************)
(* Wallet drafts (src/api/wallet_routes.py): a key pair is shown once, and *)
(* the wallet created when the user confirms it in time.                   *)
(*                                                                         *)
(* Drafts live in the memory of the process, their ids are fresh.  The     *)
(* creation of the wallet may raise: in PostgreSQL also after the row was  *)
(* committed, when the connection breaks before the answer.                *)
(***************************************************************************)
EXTENDS Naturals, FiniteSets

CONSTANTS Owner, Ttl, MaxClock, MaxDrafts  \* bounds: the clock, the drafts

ASSUME DraftTtl == Ttl \in Nat
ASSUME DraftBounds == MaxClock \in Nat /\ MaxDrafts \in Nat

VARIABLES
  clock,
  drafts,     \* draft -> its user and time of creation, while it is kept
  previews,   \* drafts so far
  created,    \* wallets created from drafts: draft, user, number, time
  \* History, read by properties only.
  previewed,  \* draft -> what it was
  unsure      \* drafts of which a wallet was created and the call raised

draftVars == <<clock, drafts, previews, created, previewed, unsure>>

DraftsInit ==
  /\ clock = 0 /\ previews = 0
  /\ drafts = [d \in {} |-> {}] /\ previewed = [d \in {} |-> {}]
  /\ created = {} /\ unsure = {}

Advance ==
  /\ clock < MaxClock
  /\ clock' = clock + 1
  /\ UNCHANGED <<drafts, previews, created, previewed, unsure>>

\* _prune_wallet_drafts: a draft exactly Ttl old is kept.
Kept == [d \in {x \in DOMAIN drafts : clock - drafts[x].created_at <= Ttl} |-> drafts[d]]

PreviewWallet(u) ==
  LET d == previews + 1
      draft == [user_id |-> u, created_at |-> clock] IN
  /\ previews < MaxDrafts
  /\ previews' = d
  /\ drafts' = [x \in DOMAIN Kept \cup {d} |-> IF x = d THEN draft ELSE Kept[x]]
  /\ previewed' = [x \in 1..d |-> IF x = d THEN draft ELSE previewed[x]]
  /\ UNCHANGED <<clock, created, unsure>>

Usable(u, d) == d \in DOMAIN Kept /\ Kept[d].user_id = u

CreateWalletFrom(u, d) ==
  created' = created \cup
    {[draft |-> d, user |-> u, at |-> clock, number |-> Cardinality(created)]}

\* Mutant: the draft stays.
ConfirmAgain(u, d) ==
  /\ Usable(u, d) /\ Cardinality(created) <= MaxDrafts
  /\ CreateWalletFrom(u, d)
  /\ drafts' = Kept
  /\ UNCHANGED <<clock, previews, previewed, unsure>>

ConfirmWallet(u, d) ==
  /\ Usable(u, d)
  /\ CreateWalletFrom(u, d)
  /\ drafts' = [x \in DOMAIN Kept \ {d} |-> Kept[x]]
  /\ UNCHANGED <<clock, previews, previewed, unsure>>

\* Mutant: an attempt that fails renews the draft.
ConfirmRenews(u, d) ==
  /\ Usable(u, d)
  /\ drafts' = [Kept EXCEPT ![d].created_at = clock]
  /\ UNCHANGED <<clock, previews, created, previewed, unsure>>

\* The creation raises, before or after the wallet is there; the draft stays.
ConfirmRaises(u, d) ==
  /\ Usable(u, d)
  /\ drafts' = Kept
  /\ \/ UNCHANGED <<created, unsure>>
     \/ /\ Cardinality(created) <= MaxDrafts
        /\ CreateWalletFrom(u, d)
        /\ unsure' = unsure \cup {d}
  /\ UNCHANGED <<clock, previews, previewed>>

ConfirmRefused(u, d) ==
  /\ ~Usable(u, d)
  /\ drafts' = Kept
  /\ UNCHANGED <<clock, previews, created, previewed, unsure>>

Restart ==
  /\ drafts' = [d \in {} |-> {}]
  /\ UNCHANGED <<clock, previews, created, previewed, unsure>>

DraftsNext ==
  \/ Advance \/ Restart
  \/ \E u \in Owner :
       \/ PreviewWallet(u)
       \/ \E d \in 1..MaxDrafts : ConfirmWallet(u, d) \/ ConfirmRaises(u, d) \/ ConfirmRefused(u, d)

DraftsSpec == DraftsInit /\ [][DraftsNext]_draftVars

-----------------------------------------------------------------------------
(* Properties *)

\* Type invariant.
DraftsTypeOK ==
  /\ clock \in 0..MaxClock /\ previews \in 0..MaxDrafts
  /\ DOMAIN drafts \subseteq 1..previews
  /\ \A d \in DOMAIN drafts : drafts[d] = previewed[d]
  /\ unsure \subseteq {w.draft : w \in created}

\* A key pair becomes a wallet of the user it was shown to, while it was valid;
\* and once only, whatever is retried, unless a call created the wallet and
\* raised: then the draft could be confirmed again.
DraftSpentOnce ==
  /\ \A w \in created : /\ w.user = previewed[w.draft].user_id
                        /\ w.at <= previewed[w.draft].created_at + Ttl
  /\ \A v, w \in created : (v.draft = w.draft /\ v # w) => w.draft \in unsure
=============================================================================
