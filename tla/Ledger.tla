------------------------------- MODULE Ledger -------------------------------
(***************************************************************************)
(* The wallet ledger of one node in its default, in-memory deployment: the *)
(* wallet store, the nonce table, the mempool, the chain, and the handlers *)
(* that create and freeze wallets, admit transactions and mine.            *)
(*                                                                         *)
(* Quart runs every handler on one event loop and a handler gives it up    *)
(* only while it awaits the request body, before it reads any of this      *)
(* state, so a handler is one action.  The exception is `_mine`: it cannot *)
(* be interrupted either, but the loop of apply_block_deltas may raise     *)
(* part-way, so each pass of that loop is an action of its own (ApplyDelta *)
(* or AbortDeltas) and `mining` keeps every other handler out meanwhile.   *)
(***************************************************************************)
EXTENDS Transactions

CONSTANTS
  MaxPending,       \* bound on the length of the mempool
  MaxBlocks         \* bound on the length of the chain

ASSUME BoundAssumption == MaxPending \in Nat /\ MaxBlocks \in Nat

-----------------------------------------------------------------------------

VARIABLES
  wallets,          \* the ids in the wallet store
  balance,          \* balance of each wallet
  frozen,           \* the frozen flag of each wallet
  nonces,           \* last_used_nonce of each wallet, 0 before the first
  mempool,          \* pending transactions, oldest first
  chain,            \* the blocks, each one the sequence of its transactions
  mining,           \* TRUE while _mine runs apply_block_deltas
  applied           \* history: how many transactions of each block moved balances

vars == <<wallets, balance, frozen, nonces, mempool, chain, mining, applied>>

Init ==
  /\ wallets = {}
  /\ balance = [w \in WalletId |-> 0]
  /\ frozen = [w \in WalletId |-> FALSE]
  /\ nonces = [w \in WalletId |-> 0]
  /\ mempool = <<>>
  /\ chain = << <<>> >>
  /\ mining = FALSE
  /\ applied = <<0>>

-----------------------------------------------------------------------------
(* Wallet handlers *)

\* POST /wallets, POST /wallets/confirm and POST /admin/treasury.
CreateWallet(w) ==
  /\ ~mining
  /\ w \notin wallets
  /\ wallets' = wallets \cup {w}
  /\ balance' = [balance EXCEPT ![w] = 0]
  /\ frozen' = [frozen EXCEPT ![w] = FALSE]
  /\ UNCHANGED <<nonces, mempool, chain, mining, applied>>

\* POST /admin/wallets/<id>/freeze and /unfreeze: the record is rebuilt with
\* the new flag and its old balance.
SetFrozen(w, flag) ==
  /\ ~mining
  /\ w \in wallets
  /\ frozen' = [frozen EXCEPT ![w] = flag]
  /\ UNCHANGED <<wallets, balance, nonces, mempool, chain, mining, applied>>

-----------------------------------------------------------------------------
(* Admission *)

\* POST /admin/mint.
AdminMint(w, a) ==
  /\ ~mining
  /\ w \in wallets
  /\ ~frozen[w]
  /\ Len(mempool) < MaxPending
  /\ mempool' = Append(mempool, MintTx(w, a))
  /\ UNCHANGED <<wallets, balance, frozen, nonces, chain, mining, applied>>

\* Mutant: reserve_nonce accepts the nonce it has just recorded.
BuildTransactionTwice(s, r, a, net, n) ==
  /\ s \in wallets /\ r \in wallets
  /\ ~frozen[s] /\ ~frozen[r]
  /\ balance[s] >= a
  /\ net \in Quotes(s, r, a)
  /\ n >= nonces[s]
  /\ nonces' = [nonces EXCEPT ![s] = n]

\* The checks of build_transaction, its conversion and reserve_nonce.  The
\* balance it compares with is the mined one: what is pending is not deducted.
BuildTransaction(s, r, a, net, n) ==
  /\ s \in wallets /\ r \in wallets
  /\ ~frozen[s] /\ ~frozen[r]
  /\ balance[s] >= a
  /\ net \in Quotes(s, r, a)
  /\ n > nonces[s]
  /\ nonces' = [nonces EXCEPT ![s] = n]

\* MempoolService.add: validate_transaction compares the two user names, and a
\* transfer between two wallets of one user is refused only here, with its
\* nonce already reserved.
AddToMempool(tx) ==
  IF OwnerOf[tx.sender_wallet_id] = OwnerOf[tx.receiver_wallet_id]
  THEN UNCHANGED mempool
  ELSE /\ Len(mempool) < MaxPending
       /\ mempool' = Append(mempool, tx)

\* POST /transactions/signed, from the owner of the sender wallet.
SubmitSigned(s, r, a, net, n) ==
  /\ ~mining
  /\ s # r
  /\ BuildTransaction(s, r, a, net, n)
  /\ AddToMempool(SignedTx(s, r, a, net, n))
  /\ UNCHANGED <<wallets, balance, frozen, chain, mining, applied>>

\* POST /transactions: no wallet ids, no signature, no check of any balance.
SubmitLegacy ==
  /\ ~mining
  /\ Len(mempool) < MaxPending
  /\ mempool' = Append(mempool, LegacyTx)
  /\ UNCHANGED <<wallets, balance, frozen, nonces, chain, mining, applied>>

-----------------------------------------------------------------------------
(* Mining *)

\* Mutant: flush returns what is pending and does not clear it.
MineAndKeep ==
  /\ ~mining
  /\ Len(chain) < MaxBlocks
  /\ chain' = Append(chain, mempool)
  /\ applied' = Append(applied, 0)
  /\ mining' = (mempool # <<>>)
  /\ UNCHANGED <<wallets, balance, frozen, nonces, mempool>>

\* _mine up to create_block: the whole mempool becomes the next block, and
\* apply_block_deltas starts when the block has transactions.
Mine ==
  /\ ~mining
  /\ Len(chain) < MaxBlocks
  /\ chain' = Append(chain, mempool)
  /\ applied' = Append(applied, 0)
  /\ mempool' = <<>>
  /\ mining' = (mempool # <<>>)
  /\ UNCHANGED <<wallets, balance, frozen, nonces>>

\* The transaction apply_block_deltas has reached.
Height == Len(chain)
Reached == chain[Height][applied[Height] + 1]

\* Mutant: the freeze is enforced at admission only.
CanCreditFrozen(w) == w \in wallets

\* credit() raises for a missing or a frozen wallet.
CanCredit(w) == w \in wallets /\ ~frozen[w]

\* Mutant: the balance is checked at admission only.
CanTransferUnpaid(tx) ==
  /\ CanCredit(tx.sender_wallet_id)
  /\ CanCredit(tx.receiver_wallet_id)

\* apply_transfer() raises for either wallet missing or frozen, then for a
\* sender who cannot pay.
CanTransfer(tx) ==
  /\ CanCredit(tx.sender_wallet_id)
  /\ CanCredit(tx.receiver_wallet_id)
  /\ balance[tx.sender_wallet_id] >= tx.amount

CanApply(tx) ==
  /\ IsCoinbase(tx) => CanCredit(tx.receiver_wallet_id)
  /\ IsTransfer(tx) => CanTransfer(tx)

\* Mutant: the receiver gets what the sender pays, whatever the currency.
AfterDeltaUnconverted(tx) ==
  IF IsCoinbase(tx)
  THEN [balance EXCEPT ![tx.receiver_wallet_id] = @ + tx.amount]
  ELSE IF IsTransfer(tx)
       THEN [balance EXCEPT ![tx.sender_wallet_id] = @ - tx.amount,
                            ![tx.receiver_wallet_id] = @ + tx.amount]
       ELSE balance

\* The balances after credit(), after apply_transfer(), or as they were for a
\* legacy transaction.
AfterDelta(tx) ==
  IF IsCoinbase(tx)
  THEN [balance EXCEPT ![tx.receiver_wallet_id] = @ + tx.amount]
  ELSE IF IsTransfer(tx)
       THEN [w \in WalletId |->
               balance[w] - (IF w = tx.sender_wallet_id THEN tx.amount ELSE 0)
                          + (IF w = tx.receiver_wallet_id THEN CreditAmount(tx) ELSE 0)]
       ELSE balance

\* Mutant: the loop does not stop at the end of the block.
ApplyDeltaForever ==
  /\ mining
  /\ CanApply(Reached)
  /\ balance' = AfterDelta(Reached)
  /\ applied' = [applied EXCEPT ![Height] = @ + 1]
  /\ UNCHANGED <<wallets, frozen, nonces, mempool, chain, mining>>

\* One pass of the loop of apply_block_deltas; the last one ends the handler.
ApplyDelta ==
  /\ mining
  /\ CanApply(Reached)
  /\ balance' = AfterDelta(Reached)
  /\ applied' = [applied EXCEPT ![Height] = @ + 1]
  /\ mining' = (applied[Height] + 1 < Len(chain[Height]))
  /\ UNCHANGED <<wallets, frozen, nonces, mempool, chain>>

\* A pass that raises: the rest of the block is never applied, the request
\* ends in an error, and the block stays on the chain.
AbortDeltas ==
  /\ mining
  /\ ~CanApply(Reached)
  /\ mining' = FALSE
  /\ UNCHANGED <<wallets, balance, frozen, nonces, mempool, chain, applied>>

-----------------------------------------------------------------------------

Next ==
  \/ \E w \in WalletId : CreateWallet(w)
  \/ \E w \in WalletId, flag \in BOOLEAN : SetFrozen(w, flag)
  \/ \E w \in WalletId, a \in Amounts : AdminMint(w, a)
  \/ \E s, r \in WalletId, a \in Amounts, n \in 1..MaxNonce :
       \E net \in Quotes(s, r, a) : SubmitSigned(s, r, a, net, n)
  \/ SubmitLegacy
  \/ Mine
  \/ ApplyDelta
  \/ AbortDeltas

Spec == Init /\ [][Next]_vars

-----------------------------------------------------------------------------
(* Properties *)

TypeOK ==
  /\ wallets \subseteq WalletId
  /\ balance \in [WalletId -> Int]
  /\ frozen \in [WalletId -> BOOLEAN]
  /\ nonces \in [WalletId -> Nat]
  /\ \A w \in WalletId \ wallets : balance[w] = 0 /\ ~frozen[w] /\ nonces[w] = 0
  /\ mempool \in Seq(Tx)
  /\ chain \in Seq(Seq(Tx)) /\ chain # <<>>
  /\ mining \in BOOLEAN
  /\ applied \in Seq(Nat) /\ Len(applied) = Len(chain)
  /\ \A b \in DOMAIN chain : applied[b] <= Len(chain[b])
  /\ mining => applied[Height] < Len(chain[Height])

\* Nobody overspends: several transfers admitted against the same balance can
\* be pending together, and only apply_transfer's own check stops the ones the
\* sender can no longer pay when the block is applied.
NoOverdraft == \A w \in WalletId : balance[w] >= 0

\* t1 entered the mempool before t2: wherever both are from one wallet, their
\* nonces are in order, so no signed transfer is ever confirmed twice.
InNonceOrder(t1, t2) ==
  (t1.signature = Ecdsa /\ t2.signature = Ecdsa
     /\ t1.sender_wallet_id = t2.sender_wallet_id) => t1.nonce < t2.nonce

\* Along the chain, block by block, and on into the mempool, the nonces of a
\* wallet strictly increase.
NoncesIncrease ==
  /\ \A i, j \in DOMAIN mempool : i < j => InNonceOrder(mempool[i], mempool[j])
  /\ \A b \in DOMAIN chain : \A i, j \in DOMAIN chain[b] :
       i < j => InNonceOrder(chain[b][i], chain[b][j])
  /\ \A b, c \in DOMAIN chain : b < c =>
       \A i \in DOMAIN chain[b], j \in DOMAIN chain[c] : InNonceOrder(chain[b][i], chain[c][j])
  /\ \A b \in DOMAIN chain : \A i \in DOMAIN chain[b], j \in DOMAIN mempool :
       InNonceOrder(chain[b][i], mempool[j])

\* The nonce table has seen the nonce of tx.
NonceSeen(tx) ==
  tx.signature = Ecdsa => /\ tx.sender_wallet_id \in wallets
                          /\ tx.nonce <= nonces[tx.sender_wallet_id]

NoncesRecorded ==
  /\ \A i \in DOMAIN mempool : NonceSeen(mempool[i])
  /\ \A b \in DOMAIN chain : \A i \in DOMAIN chain[b] : NonceSeen(chain[b][i])

\* Replay protection over the whole history: no signed transfer is admitted or
\* confirmed twice, and none that is pending or confirmed could be submitted
\* again.
ReplayProtected == NoncesIncrease /\ NoncesRecorded

\* While a wallet is frozen nothing moves its balance, not even a transfer or a
\* mint admitted before the freeze and mined after it.
FrozenFundsStay == [][\A w \in WalletId : frozen[w] => balance'[w] = balance[w]]_vars

\* The mempool and the chain implement the journal: see Journal.tla.
J == INSTANCE Journal WITH pending <- mempool, blocks <- chain
JournalSpec == J!Spec

=============================================================================
