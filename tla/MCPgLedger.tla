----------------------------- MODULE MCPgLedger -----------------------------
(***************************************************************************)
(* Instances of PgLedger for TLC.                                          *)
(***************************************************************************)
EXTENDS PgAccounting

CONSTANTS p1, p2, w1, w2, w3, alice, bob, native

\* Two users with a wallet each; alice with a second one.
PairOwner == w1 :> alice @@ w2 :> bob
TrioOwner == w1 :> alice @@ w2 :> bob @@ w3 :> alice
OneCurrency == [w \in WalletId |-> native]
NoRates == [from \in Currency |-> [to \in Currency |-> {}]]

Interchangeable == Permutations(Process)
=============================================================================
