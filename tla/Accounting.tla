----------------------------- MODULE Accounting -----------------------------
(***************************************************************************)
(* What transactions add up to: sums over sequences of them, whichever     *)
(* store keeps the balances.                                               *)
(***************************************************************************)
EXTENDS Transactions

\* What one transaction is worth to wallet w.
Worth(tx, w) ==
  LET gained == IF tx.signature = Mint THEN tx.amount ELSE CreditAmount(tx)
  IN  (IF tx.receiver_wallet_id = w THEN gained ELSE 0)
      - (IF tx.sender_wallet_id = w THEN tx.amount ELSE 0)

\* What a sequence of numbers adds up to.
SumSeq(s) ==
  LET sum[n \in 0..Len(s)] == IF n = 0 THEN 0 ELSE sum[n - 1] + s[n]
  IN  sum[Len(s)]

\* What the first n transactions of txs are worth to wallet w.
Total(txs, n, w) == SumSeq([i \in 1..n |-> Worth(txs[i], w)])

\* What the applied transactions are worth to w: done[b] of the transactions
\* txs[b] of each block b.
AppliedTotal(txs, done, w) ==
  SumSeq([b \in DOMAIN txs |-> Total(txs[b], done[b], w)])
=============================================================================
