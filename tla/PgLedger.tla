------------------------------ MODULE PgLedger ------------------------------
(***************************************************************************)
(* The ledger kept in PostgreSQL: processes that serve the same database,  *)
(* each running one handler at a time.  Every repository method opens its  *)
(* own connection and is a database transaction of its own, at READ        *)
(* COMMITTED, so a handler is a sequence of steps between which the other  *)
(* processes, and a crash, come in.                                        *)
(*                                                                         *)
(* A method whose effect is that of one statement (an upsert, rows locked  *)
(* FOR UPDATE and then written) is one step.  MempoolRepository.flush is   *)
(* two: its SELECT and its DELETE each see what is committed when they     *)
(* start.  The genesis block exists from the first start on.               *)
(***************************************************************************)
EXTENDS Transactions, FiniteSets

CONSTANTS
  Process,          \* the server processes
  MayCrash,         \* whether a process can die in the middle of a handler
  MaxAdmitted,      \* bound on the rows ever inserted into the mempool table
  MaxBlocks         \* bound on the blocks and the blocks being mined

ASSUME PgAssumption ==
  /\ IsFiniteSet(Process)
  /\ MayCrash \in BOOLEAN
  /\ MaxAdmitted \in Nat
  /\ MaxBlocks \in Nat

VARIABLES
  wallets,          \* ids in the wallets table
  balance,          \* wallets.balance
  frozen,           \* wallets.frozen
  nonces,           \* wallet_nonces.last_used_nonce, 0 without a row
  mempool,          \* rows of the mempool table in the order of their ids
  lastRow,          \* the last id the mempool table gave out
  blocks,           \* blocks by index, with their rows of the transactions table
  pc,               \* what each process does next
  job,              \* what the handler of each process holds in its variables
  applied           \* history: how many transactions of each block moved balances

vars == <<wallets, balance, frozen, nonces, mempool, lastRow, blocks, pc, job, applied>>

\* A row of the mempool table.  Its id is lost when it is flushed; the model
\* keeps it to tell one admission from another.
Row == [id : Nat, tx : Tx]

\* previous_hash is the hash of one block, and is modelled by its index.
Block == [previous : Nat, rows : Seq(Row)]

Genesis == [previous |-> 0, rows |-> <<>>]

\* The locals of the handlers: the transaction being submitted, the previous
\* block, what was flushed, the index of the new block, the deltas done.
Job == [tx : Tx, previous : Nat, rows : Seq(Row), index : Nat, done : Nat]

NoJob == [tx |-> LegacyTx, previous |-> 0, rows |-> <<>>, index |-> 0, done |-> 0]

Init ==
  /\ wallets = {}
  /\ balance = [w \in WalletId |-> 0]
  /\ frozen = [w \in WalletId |-> FALSE]
  /\ nonces = [w \in WalletId |-> 0]
  /\ mempool = <<>>
  /\ lastRow = 0
  /\ blocks = << Genesis >>
  /\ pc = [p \in Process |-> "idle"]
  /\ job = [p \in Process |-> NoJob]
  /\ applied = <<0>>

\* The handler of p goes on to step l, or ends.
Goto(p, l) == pc' = [pc EXCEPT ![p] = l]
Return(p) == Goto(p, "idle") /\ job' = [job EXCEPT ![p] = NoJob]

At(l) == {p \in Process : pc[p] = l}
Submitting == At("reserve") \cup At("insert")
Mining == At("select") \cup At("delete") \cup At("count") \cup At("append")

-----------------------------------------------------------------------------
(* Wallets *)

CreateWallet(p, w) ==
  /\ pc[p] = "idle"
  /\ w \notin wallets
  /\ wallets' = wallets \cup {w}
  /\ balance' = [balance EXCEPT ![w] = 0]
  /\ frozen' = [frozen EXCEPT ![w] = FALSE]
  /\ UNCHANGED <<nonces, mempool, lastRow, blocks, pc, job, applied>>

SetFrozen(p, w, flag) ==
  /\ pc[p] = "idle"
  /\ w \in wallets
  /\ frozen' = [frozen EXCEPT ![w] = flag]
  /\ UNCHANGED <<wallets, balance, nonces, mempool, lastRow, blocks, pc, job, applied>>

-----------------------------------------------------------------------------
(* Admission *)

Room == lastRow + Cardinality(Submitting) < MaxAdmitted

\* Mutant: the balance is left to be checked when the block is applied.
CheckTransferUnpaid(p, s, r, a, net, n) ==
  /\ pc[p] = "idle"
  /\ Room
  /\ s # r
  /\ s \in wallets /\ r \in wallets
  /\ ~frozen[s] /\ ~frozen[r]
  /\ net \in Quotes(s, r, a)
  /\ job' = [job EXCEPT ![p].tx = SignedTx(s, r, a, net, n)]
  /\ Goto(p, "reserve")
  /\ UNCHANGED <<wallets, balance, frozen, nonces, mempool, lastRow, blocks, applied>>

\* build_transaction up to reserve_nonce: what it reads may change before the
\* next step.
CheckTransfer(p, s, r, a, net, n) ==
  /\ pc[p] = "idle"
  /\ Room
  /\ s # r
  /\ s \in wallets /\ r \in wallets
  /\ ~frozen[s] /\ ~frozen[r]
  /\ balance[s] >= a
  /\ net \in Quotes(s, r, a)
  /\ job' = [job EXCEPT ![p].tx = SignedTx(s, r, a, net, n)]
  /\ Goto(p, "reserve")
  /\ UNCHANGED <<wallets, balance, frozen, nonces, mempool, lastRow, blocks, applied>>

\* Mutant: the WHERE of the upsert compares with <=.
ReserveNonceTwice(p) ==
  LET tx == job[p].tx
      s  == tx.sender_wallet_id
  IN  /\ pc[p] = "reserve"
      /\ \/ /\ tx.nonce >= nonces[s]
            /\ nonces' = [nonces EXCEPT ![s] = tx.nonce]
            /\ Goto(p, "insert") /\ UNCHANGED job
         \/ /\ tx.nonce < nonces[s]
            /\ Return(p)
            /\ UNCHANGED nonces
      /\ UNCHANGED <<wallets, balance, frozen, mempool, lastRow, blocks, applied>>

\* The upsert of reserve_nonce writes when the nonce beats the one recorded and
\* raises NonceReplayError otherwise.  validate_transaction comes after it and
\* refuses a transfer between two wallets of one user.
ReserveNonce(p) ==
  LET tx == job[p].tx
      s  == tx.sender_wallet_id
  IN  /\ pc[p] = "reserve"
      /\ \/ /\ tx.nonce > nonces[s]
            /\ nonces' = [nonces EXCEPT ![s] = tx.nonce]
            /\ IF OwnerOf[s] = OwnerOf[tx.receiver_wallet_id]
               THEN Return(p)
               ELSE Goto(p, "insert") /\ UNCHANGED job
         \/ /\ tx.nonce <= nonces[s]
            /\ Return(p)
            /\ UNCHANGED nonces
      /\ UNCHANGED <<wallets, balance, frozen, mempool, lastRow, blocks, applied>>

\* build_mint.
CheckMint(p, w, a) ==
  /\ pc[p] = "idle"
  /\ Room
  /\ w \in wallets
  /\ ~frozen[w]
  /\ job' = [job EXCEPT ![p].tx = MintTx(w, a)]
  /\ Goto(p, "insert")
  /\ UNCHANGED <<wallets, balance, frozen, nonces, mempool, lastRow, blocks, applied>>

InsertRow(tx) ==
  /\ lastRow' = lastRow + 1
  /\ mempool' = Append(mempool, [id |-> lastRow', tx |-> tx])

\* PostgresMempoolRepository.add.
InsertPending(p) ==
  /\ pc[p] = "insert"
  /\ InsertRow(job[p].tx)
  /\ Return(p)
  /\ UNCHANGED <<wallets, balance, frozen, nonces, blocks, applied>>

\* POST /transactions reads nothing before it inserts.
SubmitLegacy(p) ==
  /\ pc[p] = "idle"
  /\ Room
  /\ InsertRow(LegacyTx)
  /\ UNCHANGED <<wallets, balance, frozen, nonces, blocks, pc, job, applied>>

-----------------------------------------------------------------------------
(* Mining *)

\* Mutant: last() returns the first block it finds.
ReadFirst(p) ==
  /\ pc[p] = "idle"
  /\ Len(blocks) + Cardinality(Mining) < MaxBlocks
  /\ job' = [job EXCEPT ![p].previous = 1]
  /\ Goto(p, "select")
  /\ UNCHANGED <<wallets, balance, frozen, nonces, mempool, lastRow, blocks, applied>>

\* previous_block, and the proof of work on it.
ReadLast(p) ==
  /\ pc[p] = "idle"
  /\ Len(blocks) + Cardinality(Mining) < MaxBlocks
  /\ job' = [job EXCEPT ![p].previous = Len(blocks)]
  /\ Goto(p, "select")
  /\ UNCHANGED <<wallets, balance, frozen, nonces, mempool, lastRow, blocks, applied>>

\* Mutant: the SELECT of flush has a LIMIT and its DELETE has not.
SelectOne(p) ==
  /\ pc[p] = "select"
  /\ job' = [job EXCEPT ![p].rows = IF mempool = <<>> THEN <<>> ELSE << Head(mempool) >>]
  /\ Goto(p, "delete")
  /\ UNCHANGED <<wallets, balance, frozen, nonces, mempool, lastRow, blocks, applied>>

SelectPending(p) ==
  /\ pc[p] = "select"
  /\ job' = [job EXCEPT ![p].rows = mempool]
  /\ Goto(p, "delete")
  /\ UNCHANGED <<wallets, balance, frozen, nonces, mempool, lastRow, blocks, applied>>

\* Mutant: the DELETE of flush is not committed.
DeleteNothing(p) ==
  /\ pc[p] = "delete"
  /\ Goto(p, "count")
  /\ UNCHANGED <<wallets, balance, frozen, nonces, mempool, lastRow, blocks, job, applied>>

\* DELETE FROM mempool has no WHERE: it removes every row committed by now.
DeletePending(p) ==
  /\ pc[p] = "delete"
  /\ mempool' = <<>>
  /\ Goto(p, "count")
  /\ UNCHANGED <<wallets, balance, frozen, nonces, lastRow, blocks, job, applied>>

\* create_block takes the index from count().
CountBlocks(p) ==
  /\ pc[p] = "count"
  /\ job' = [job EXCEPT ![p].index = Len(blocks) + 1]
  /\ Goto(p, "append")
  /\ UNCHANGED <<wallets, balance, frozen, nonces, mempool, lastRow, blocks, applied>>

\* Mutant: a block with the same index is replaced.
AppendOver(p) ==
  LET new == [previous |-> job[p].previous, rows |-> job[p].rows]
  IN  /\ pc[p] = "append"
      /\ blocks' = [b \in DOMAIN blocks \cup {job[p].index} |->
                      IF b = job[p].index THEN new ELSE blocks[b]]
      /\ applied' = [b \in DOMAIN blocks' |-> IF b = job[p].index THEN 0 ELSE applied[b]]
      /\ IF job[p].rows = <<>> THEN Return(p) ELSE Goto(p, "deltas") /\ UNCHANGED job
      /\ UNCHANGED <<wallets, balance, frozen, nonces, mempool, lastRow>>

\* Mutant: the loop over the transactions starts on an empty block.
AppendAndApply(p) ==
  /\ pc[p] = "append"
  /\ \/ /\ job[p].index \notin DOMAIN blocks
        /\ blocks' = Append(blocks, [previous |-> job[p].previous, rows |-> job[p].rows])
        /\ applied' = Append(applied, 0)
        /\ Goto(p, "deltas")
        /\ UNCHANGED job
     \/ /\ job[p].index \in DOMAIN blocks
        /\ Return(p)
        /\ UNCHANGED <<blocks, applied>>
  /\ UNCHANGED <<wallets, balance, frozen, nonces, mempool, lastRow>>

\* PostgresBlockRepository.append: the block and its transactions in one
\* database transaction, refused when the UNIQUE index already has that block.
\* (It is never beyond the end: no block is deleted.)
AppendBlock(p) ==
  /\ pc[p] = "append"
  /\ \/ /\ job[p].index \notin DOMAIN blocks
        /\ blocks' = Append(blocks, [previous |-> job[p].previous, rows |-> job[p].rows])
        /\ applied' = Append(applied, 0)
        /\ IF job[p].rows = <<>> THEN Return(p) ELSE Goto(p, "deltas") /\ UNCHANGED job
     \/ /\ job[p].index \in DOMAIN blocks
        /\ Return(p)
        /\ UNCHANGED <<blocks, applied>>
  /\ UNCHANGED <<wallets, balance, frozen, nonces, mempool, lastRow>>

\* The transaction apply_block_deltas has reached.
Reached(p) == job[p].rows[job[p].done + 1].tx

\* credit and apply_transfer lock the rows they read, so their checks hold when
\* they write.
CanCredit(w) == w \in wallets /\ ~frozen[w]

\* Mutant: the balance is checked at admission only.
CanTransferUnpaid(tx) ==
  /\ CanCredit(tx.sender_wallet_id)
  /\ CanCredit(tx.receiver_wallet_id)

CanTransfer(tx) ==
  /\ CanCredit(tx.sender_wallet_id)
  /\ CanCredit(tx.receiver_wallet_id)
  /\ balance[tx.sender_wallet_id] >= tx.amount

CanApply(tx) ==
  /\ IsCoinbase(tx) => CanCredit(tx.receiver_wallet_id)
  /\ IsTransfer(tx) => CanTransfer(tx)

AfterDelta(tx) ==
  IF IsCoinbase(tx)
  THEN [balance EXCEPT ![tx.receiver_wallet_id] = @ + tx.amount]
  ELSE IF IsTransfer(tx)
       THEN [w \in WalletId |->
               balance[w] - (IF w = tx.sender_wallet_id THEN tx.amount ELSE 0)
                          + (IF w = tx.receiver_wallet_id THEN CreditAmount(tx) ELSE 0)]
       ELSE balance

\* One pass of apply_block_deltas, committed on its own.
ApplyDelta(p) ==
  /\ pc[p] = "deltas"
  /\ CanApply(Reached(p))
  /\ balance' = AfterDelta(Reached(p))
  /\ applied' = [applied EXCEPT ![job[p].index] = @ + 1]
  /\ IF job[p].done + 1 = Len(job[p].rows)
     THEN Return(p)
     ELSE job' = [job EXCEPT ![p].done = @ + 1] /\ UNCHANGED pc
  /\ UNCHANGED <<wallets, frozen, nonces, mempool, lastRow, blocks>>

AbortDeltas(p) ==
  /\ pc[p] = "deltas"
  /\ ~CanApply(Reached(p))
  /\ Return(p)
  /\ UNCHANGED <<wallets, balance, frozen, nonces, mempool, lastRow, blocks, applied>>

-----------------------------------------------------------------------------

\* Mutant: apply_transfer commits the debit before the credit.
CrashHalfWay(p) ==
  /\ MayCrash
  /\ pc[p] # "idle"
  /\ Return(p)
  /\ balance' = IF pc[p] = "deltas" /\ IsTransfer(Reached(p)) /\ CanApply(Reached(p))
                THEN [balance EXCEPT ![Reached(p).sender_wallet_id] = @ - Reached(p).amount]
                ELSE balance
  /\ UNCHANGED <<wallets, frozen, nonces, mempool, lastRow, blocks, applied>>

\* The process dies between two database transactions and is started again: it
\* finds the genesis block and serves.
Crash(p) ==
  /\ MayCrash
  /\ pc[p] # "idle"
  /\ Return(p)
  /\ UNCHANGED <<wallets, balance, frozen, nonces, mempool, lastRow, blocks, applied>>

Next ==
  \E p \in Process :
    \/ \E w \in WalletId : CreateWallet(p, w)
    \/ \E w \in WalletId, flag \in BOOLEAN : SetFrozen(p, w, flag)
    \/ \E s, r \in WalletId, a \in Amounts, n \in 1..MaxNonce :
         \E net \in Quotes(s, r, a) : CheckTransfer(p, s, r, a, net, n)
    \/ ReserveNonce(p)
    \/ \E w \in WalletId, a \in Amounts : CheckMint(p, w, a)
    \/ InsertPending(p)
    \/ SubmitLegacy(p)
    \/ ReadLast(p)
    \/ SelectPending(p)
    \/ DeletePending(p)
    \/ CountBlocks(p)
    \/ AppendBlock(p)
    \/ ApplyDelta(p)
    \/ AbortDeltas(p)
    \/ Crash(p)

Spec == Init /\ [][Next]_vars

-----------------------------------------------------------------------------
(* Properties *)

Labels == {"idle", "reserve", "insert", "select", "delete", "count", "append", "deltas"}

TypeOK ==
  /\ wallets \subseteq WalletId
  /\ balance \in [WalletId -> Int]
  /\ frozen \in [WalletId -> BOOLEAN]
  /\ nonces \in [WalletId -> Nat]
  /\ mempool \in Seq(Row)
  /\ lastRow \in Nat
  /\ blocks \in Seq(Block)
  /\ pc \in [Process -> Labels]
  /\ job \in [Process -> Job]
  /\ applied \in Seq(Nat) /\ Len(applied) = Len(blocks)
  /\ \A p \in Process :
       /\ pc[p] = "idle" => job[p] = NoJob
       /\ pc[p] = "deltas" => /\ job[p].index \in DOMAIN blocks
                              /\ job[p].rows = blocks[job[p].index].rows
                              /\ job[p].done = applied[job[p].index]
                              /\ job[p].done < Len(job[p].rows)

\* No wallet is overdrawn although its balance is read long before the transfer
\* is applied and two blocks can be applied at the same time: apply_transfer
\* checks again, on rows it has locked.
NoOverdraft == \A w \in WalletId : balance[w] >= 0

\* The rows that exist somewhere: pending, in the hands of a miner, in a block.
RowsOf(rows) == {rows[i] : i \in DOMAIN rows}
Confirmed == UNION {RowsOf(blocks[b].rows) : b \in DOMAIN blocks}
Flushed == UNION {RowsOf(job[p].rows) : p \in Process}
Rows == RowsOf(mempool) \cup Flushed \cup Confirmed

\* migrations/versions/V012__wallet_nonces.sql:7-8: two requests with the same
\* nonce cannot both succeed, also when two processes serve them and a third
\* one mines in between or dies.
NonceAdmittedOnce ==
  \A x, y \in Rows :
    (x.tx.signature = Ecdsa /\ y.tx.signature = Ecdsa
       /\ x.tx.sender_wallet_id = y.tx.sender_wallet_id
       /\ x.tx.nonce = y.tx.nonce) => x = y

\* However many miners race, the chain only grows at its end: a block that is
\* written is never replaced, and the transactions counted as applied are some
\* of its own.
ChainGrows ==
  [][/\ \A b \in DOMAIN blocks : blocks'[b] = blocks[b] /\ applied'[b] >= applied[b]
     /\ \A b \in DOMAIN blocks' : applied'[b] <= Len(blocks'[b].rows)]_vars

\* Every row the mempool was given is still there, or with the miner that
\* flushed it, or in a block.
NothingLost == 1..lastRow \subseteq {row.id : row \in Rows}

\* No row is in the chain twice.
ConfirmedOnce ==
  \A b, c \in DOMAIN blocks : \A i \in DOMAIN blocks[b].rows, j \in DOMAIN blocks[c].rows :
    blocks[b].rows[i].id = blocks[c].rows[j].id => b = c /\ i = j

\* docs/business-rules.md:36, BR-BL-06: each block is chained to the one before it.
LinksHold == \A b \in DOMAIN blocks : blocks[b].previous = b - 1

-----------------------------------------------------------------------------
(* One process *)

\* A single process that does not die behaves as the in-memory node does.  A
\* transaction counts as pending from the step that decides its admission, and
\* until the block that takes it is written.
Txs(rows) == [i \in DOMAIN rows |-> rows[i].tx]

RowsBeingMined ==
  LET miners == At("count") \cup At("append")
  IN  IF miners = {} THEN <<>> ELSE job[CHOOSE p \in miners : TRUE].rows

BeingInserted ==
  IF At("insert") = {} THEN <<>> ELSE << job[CHOOSE p \in At("insert") : TRUE].tx >>

Pending == Txs(RowsBeingMined \o mempool) \o BeingInserted
Chain == [b \in DOMAIN blocks |-> Txs(blocks[b].rows)]
Applying == At("deltas") # {}

InMemory ==
  INSTANCE Ledger
  WITH mempool <- Pending, chain <- Chain, mining <- Applying, MaxPending <- MaxAdmitted

BehavesAsInMemory == InMemory!Spec
=============================================================================
