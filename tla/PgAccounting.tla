---------------------------- MODULE PgAccounting ----------------------------
(***************************************************************************)
(* What the wallets table adds up to.                                      *)
(***************************************************************************)
EXTENDS PgLedger, Accounting, TLC

\* Every balance is what the committed deltas make it, with several processes
\* mining at once and dying half-way through a block: no delta is half done.
BalancesExplained == \A w \in WalletId : balance[w] = AppliedTotal(Chain, applied, w)
=============================================================================
