-------------------------- MODULE LedgerAccounting --------------------------
(***************************************************************************)
(* What the balances of the ledger add up to: sums over the chain, kept    *)
(* apart from Ledger because they fold over sequences and sets.            *)
(***************************************************************************)
EXTENDS Ledger, Accounting, SequencesExt

\* The transactions of every block, in order.
Confirmed == FlattenSeq(chain)

\* Every balance is exactly what the applied transactions make it: no wallet
\* handler, no freeze and no failed transfer ever creates or destroys coin, and
\* a transfer that raises has debited nobody.
BalancesExplained == \A w \in WalletId : balance[w] = AppliedTotal(chain, applied, w)

-----------------------------------------------------------------------------
(* What the documentation says and the code does not keep *)

\* docs/business-rules.md:98, BR-WL-08: "Total supply is conserved:
\* sum(wallets.balance) == sum(amount of every coinbase transaction) at every
\* chain height, regardless of how many transfers happened."
SupplyConserved ==
  ~mining =>
    SumFunction(balance) =
      FoldSeq(LAMBDA tx, sum : IF tx.signature = Mint THEN sum + tx.amount ELSE sum, 0, Confirmed)

\* docs/business-rules.md:50, BR-CH-01: "The chain is valid if and only if every
\* block satisfies BR-BL-04, BR-BL-06, and BR-CH-05", which are about proofs,
\* links and Merkle roots and hold of every block _mine writes.  _validate_blocks
\* looks at each transaction too: a coinbase passes, anything else needs a sender
\* wallet that exists and a signature, and POST /transactions has neither.
TransactionValid(tx) ==
  \/ tx.signature = Mint
  \/ tx.sender_wallet_id \in wallets /\ tx.signature # Unsigned

MinedChainValid == \A i \in DOMAIN Confirmed : TransactionValid(Confirmed[i])
=============================================================================
