------------------------------ MODULE Journal ------------------------------
(***************************************************************************)
(* What the mempool and the chain promise together, whatever stores them   *)
(* (docs/business-rules.md, BR-TX-07 and BR-BL-07): a transaction is first *)
(* pending; mining moves everything pending, in admission order, into one  *)
(* new block; nothing that was admitted is dropped, repeated or reordered, *)
(* and a block that is written never changes.                              *)
(***************************************************************************)
EXTENDS Naturals, Sequences

CONSTANT Tx         \* the transactions that can be admitted

VARIABLES
  pending,          \* admitted and not yet confirmed, oldest first
  blocks            \* the blocks, each one the sequence of its transactions

vars == <<pending, blocks>>

\* The genesis block carries no transaction.
Init ==
  /\ pending = <<>>
  /\ blocks = << <<>> >>

\* A validated transaction joins the pending ones.
Admit ==
  /\ Len(pending') = Len(pending) + 1
  /\ LET tx == pending'[Len(pending')]
     IN  tx \in Tx /\ pending' = Append(pending, tx)
  /\ UNCHANGED blocks

\* One block takes all of them.
Confirm ==
  /\ blocks' = Append(blocks, pending)
  /\ pending' = <<>>

Next == Admit \/ Confirm

Spec == Init /\ [][Next]_vars
=============================================================================
