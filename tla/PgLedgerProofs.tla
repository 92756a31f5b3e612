--------------------------- MODULE PgLedgerProofs ---------------------------
(***************************************************************************)
(* Theorems about PgLedger for any number of processes that interleave and *)
(* die at any step, every set of wallets and every bound.                  *)
(***************************************************************************)
EXTENDS PgAccounting, TransactionProofs, FiniteSetTheorems

-----------------------------------------------------------------------------
(* The inductive invariant *)

\* Processes that write blocks and apply them keep out of each other's way:
\* the index from count() is at most the next one when the block is appended,
\* two processes never apply the deltas of one block, and none starts in the
\* middle of it.
MinersApart ==
  /\ \A b \in DOMAIN blocks : applied[b] <= Len(blocks[b].rows)
  /\ \A p \in At("append") : job[p].index \in 1..(Len(blocks) + 1)
  /\ \A p, q \in At("deltas") : p # q => job[p].index # job[q].index
  /\ \A p \in Process : pc[p] # "deltas" => job[p].done = 0

Inv == TypeOK /\ MinersApart

\* A handler that is about to end leaves nothing in its variables.
LEMMA EmptyHands ==
  /\ NoJob \in Job
  /\ LegacyTx \in Tx
  /\ <<>> \in Seq(Row)
  /\ NoJob.done = 0
BY BuiltTransactions, EmptySeq DEF NoJob, Job

\* What the handler of one process holds.
LEMMA JobType ==
  ASSUME TypeOK, NEW p \in Process
  PROVE  /\ job[p] \in Job /\ job[p].tx \in Tx /\ job[p].previous \in Nat
         /\ job[p].rows \in Seq(Row) /\ job[p].index \in Nat /\ job[p].done \in Nat
         /\ pc[p] \in Labels
BY DEF TypeOK, Job

\* A block and the number of its transactions that were applied.
LEMMA BlockType ==
  ASSUME TypeOK
  PROVE  /\ Len(blocks) \in Nat /\ Len(applied) = Len(blocks)
         /\ DOMAIN blocks = 1..Len(blocks) /\ DOMAIN applied = 1..Len(blocks)
         /\ \A b \in DOMAIN blocks : /\ blocks[b] \in Block
                                     /\ blocks[b].rows \in Seq(Row)
                                     /\ Len(blocks[b].rows) \in Nat
                                     /\ applied[b] \in Nat
<1>1. blocks \in Seq(Block) /\ applied \in Seq(Nat) /\ Len(applied) = Len(blocks)
  BY DEF TypeOK
<1>2. Len(blocks) \in Nat /\ DOMAIN blocks = 1..Len(blocks) /\ DOMAIN applied = 1..Len(blocks)
  BY <1>1, LenProperties
<1>3. ASSUME NEW b \in DOMAIN blocks
      PROVE  /\ blocks[b] \in Block /\ blocks[b].rows \in Seq(Row)
             /\ Len(blocks[b].rows) \in Nat /\ applied[b] \in Nat
  <2>1. blocks[b] \in Block /\ applied[b] \in Nat
    BY <1>1, <1>2, ElementOfSeq
  <2>2. blocks[b].rows \in Seq(Row)
    BY <2>1 DEF Block
  <2> QED
    BY <2>1, <2>2, LenProperties
<1> QED
  BY <1>1, <1>2, <1>3

\* The transaction a process has reached is a transaction of its block.
LEMMA ReachedType ==
  ASSUME TypeOK, NEW p \in Process, pc[p] = "deltas"
  PROVE  Reached(p) \in Tx
<1>1. job[p].rows \in Seq(Row) /\ job[p].done + 1 \in 1..Len(job[p].rows)
  BY JobType, LenProperties DEF TypeOK
<1>2. job[p].rows[job[p].done + 1] \in Row
  BY <1>1, ElementOfSeq
<1> QED
  BY <1>2 DEF Reached, Row

\* One pass of apply_block_deltas: only wallets that exist and are not frozen
\* move, and none of them ends below zero unless it was there already.
LEMMA DeltaEffect ==
  ASSUME TypeOK, NEW p \in Process, ApplyDelta(p)
  PROVE  /\ balance' \in [WalletId -> Int]
         /\ \A w \in WalletId : balance[w] >= 0 => balance'[w] >= 0
<1> DEFINE tx == Reached(p)
           s == tx.sender_wallet_id
           r == tx.receiver_wallet_id
           net == CreditAmount(tx)
           amount == tx.amount
<1>1. net \in Nat /\ amount \in Nat
  BY ReachedType, CreditType DEF ApplyDelta
<1>2. CanApply(tx) /\ balance' = AfterDelta(tx) /\ balance \in [WalletId -> Int]
  BY DEF ApplyDelta, TypeOK
<1>3. CASE IsCoinbase(tx)
  <2>1. balance' = [balance EXCEPT ![r] = @ + amount] /\ r \in WalletId
    BY <1>2, <1>3 DEF AfterDelta, CanApply, CanCredit, TypeOK
  <2> HIDE DEF r, amount
  <2> QED
    BY <1>1, <1>2, <2>1
<1>4. CASE ~IsCoinbase(tx) /\ IsTransfer(tx)
  <2>1. balance' = [w \in WalletId |-> balance[w] - (IF w = s THEN amount ELSE 0)
                                               + (IF w = r THEN net ELSE 0)]
    BY <1>2, <1>4 DEF AfterDelta
  <2>2. s \in WalletId /\ balance[s] >= amount
    BY <1>2, <1>4 DEF CanApply, CanTransfer, CanCredit, TypeOK
  <2> HIDE DEF s, r, net, amount
  <2> QED
    BY <1>1, <1>2, <2>1, <2>2
<1>5. CASE ~IsCoinbase(tx) /\ ~IsTransfer(tx)
  BY <1>2, <1>5 DEF AfterDelta
<1> QED
  BY <1>3, <1>4, <1>5

-----------------------------------------------------------------------------
(* Type correctness *)

LEMMA InitInv == Init => Inv
<1> SUFFICES ASSUME Init PROVE Inv
  OBVIOUS
<1>1. blocks = <<Genesis>> /\ applied = <<0>> /\ mempool = <<>>
  BY DEF Init
<1>2. Genesis \in Block /\ Len(Genesis.rows) = 0
  BY EmptyHands, EmptySeq DEF Genesis, Block
<1>3. <<Genesis>> \in Seq(Block) /\ Len(<<Genesis>>) = 1 /\ <<Genesis>>[1] = Genesis
  BY <1>2
<1>4. <<0>> \in Seq(Nat) /\ Len(<<0>>) = 1 /\ <<0>>[1] = 0
  OBVIOUS
<1>5. \A p \in Process : pc[p] = "idle" /\ job[p] = NoJob
  BY DEF Init
<1>6. /\ wallets \subseteq WalletId /\ balance \in [WalletId -> Int]
      /\ frozen \in [WalletId -> BOOLEAN] /\ nonces \in [WalletId -> Nat] /\ lastRow \in Nat
      /\ pc \in [Process -> Labels] /\ job \in [Process -> Job]
  BY EmptyHands DEF Init, Labels
<1>7. TypeOK
  BY <1>1, <1>3, <1>4, <1>5, <1>6, EmptyHands DEF TypeOK
<1>8. MinersApart
  <2>1. \A b \in DOMAIN blocks : b = 1
    BY <1>1, <1>3
  <2> QED
    BY <1>1, <1>2, <1>3, <1>4, <1>5, <2>1, EmptyHands DEF MinersApart, At
<1> QED
  BY <1>7, <1>8 DEF Inv

\* A step of p that touches no block and after which p appends and applies
\* nothing.
LEMMA OffTheChain ==
  ASSUME Inv, NEW p \in Process, NEW l \in Labels \ {"append", "deltas"}, NEW j \in Job,
         l = "idle" => j = NoJob, j.done = 0,
         pc' = [pc EXCEPT ![p] = l], job' = [job EXCEPT ![p] = j],
         UNCHANGED <<blocks, applied>>,
         wallets' \subseteq WalletId, balance' \in [WalletId -> Int],
         frozen' \in [WalletId -> BOOLEAN], nonces' \in [WalletId -> Nat],
         mempool' \in Seq(Row), lastRow' \in Nat
  PROVE  Inv'
<1>1. pc' \in [Process -> Labels] /\ job' \in [Process -> Job]
  BY DEF Inv, TypeOK
<1>2. \A q \in Process : /\ q # p => pc'[q] = pc[q] /\ job'[q] = job[q]
                         /\ q = p => pc'[q] = l /\ job'[q] = j
  BY DEF Inv, TypeOK
<1>3. TypeOK'
  BY <1>1, <1>2 DEF Inv, TypeOK
<1>4. MinersApart'
  BY <1>2 DEF Inv, MinersApart, At
<1> QED
  BY <1>3, <1>4 DEF Inv

LEMMA NextInv == Inv /\ [Next]_vars => Inv'
<1> SUFFICES ASSUME Inv, [Next]_vars PROVE Inv'
  OBVIOUS
<1> USE DEF Inv
<1>0. ASSUME NEW p \in Process, pc[p] = "idle", UNCHANGED <<pc, job>>
      PROVE  job[p] = NoJob /\ pc' = [pc EXCEPT ![p] = "idle"] /\ job' = [job EXCEPT ![p] = NoJob]
  BY <1>0 DEF TypeOK
<1> DEFINE SameWallets == UNCHANGED <<wallets, balance, frozen, nonces>>
<1>1. ASSUME NEW p \in Process, NEW w \in WalletId, CreateWallet(p, w) PROVE Inv'
  <2>1. /\ wallets' \subseteq WalletId /\ balance' \in [WalletId -> Int]
        /\ frozen' \in [WalletId -> BOOLEAN]
    BY <1>1 DEF CreateWallet, TypeOK
  <2>2. pc' = [pc EXCEPT ![p] = "idle"] /\ job' = [job EXCEPT ![p] = NoJob]
    BY <1>0, <1>1 DEF CreateWallet
  <2> QED
    BY <1>1, <2>1, <2>2, OffTheChain, EmptyHands DEF CreateWallet, TypeOK, Labels
<1>2. ASSUME NEW p \in Process, NEW w \in WalletId, NEW flag \in BOOLEAN, SetFrozen(p, w, flag)
      PROVE  Inv'
  <2>1. frozen' \in [WalletId -> BOOLEAN]
    BY <1>2 DEF SetFrozen, TypeOK
  <2>2. pc' = [pc EXCEPT ![p] = "idle"] /\ job' = [job EXCEPT ![p] = NoJob]
    BY <1>0, <1>2 DEF SetFrozen
  <2> QED
    BY <1>2, <2>1, <2>2, OffTheChain, EmptyHands DEF SetFrozen, TypeOK, Labels
<1>3. ASSUME NEW p \in Process, NEW s \in WalletId, NEW r \in WalletId, NEW a \in Amounts,
             NEW n \in 1..MaxNonce, NEW net \in Quotes(s, r, a), CheckTransfer(p, s, r, a, net, n)
      PROVE  Inv'
  <2>1. SignedTx(s, r, a, net, n) \in Tx
    BY QuotesType, BuiltTransactions, ConstantAssumption
  <2> DEFINE j == [job[p] EXCEPT !.tx = SignedTx(s, r, a, net, n)]
  <2>2. j \in Job /\ j.done = 0
    BY <1>3, <2>1, JobType DEF Job, MinersApart, CheckTransfer
  <2>3. job' = [job EXCEPT ![p] = j] /\ pc' = [pc EXCEPT ![p] = "reserve"]
    BY <1>3 DEF CheckTransfer, Goto, TypeOK
  <2> HIDE DEF j
  <2> QED
    BY <1>3, <2>2, <2>3, OffTheChain DEF CheckTransfer, TypeOK, Labels
<1>4. ASSUME NEW p \in Process, ReserveNonce(p) PROVE Inv'
  <2>1. nonces' \in [WalletId -> Nat]
    <3>1. job[p].tx.nonce \in Nat
      BY JobType DEF Tx
    <3> QED
      BY <1>4, <3>1 DEF ReserveNonce, TypeOK
  <2>2. CASE Return(p)
    BY <1>4, <2>1, <2>2, OffTheChain, EmptyHands DEF ReserveNonce, Return, Goto, TypeOK, Labels
  <2>3. CASE Goto(p, "insert") /\ UNCHANGED job
    <3>1. job' = [job EXCEPT ![p] = job[p]] /\ job[p] \in Job /\ job[p].done = 0
      BY <1>4, <2>3 DEF ReserveNonce, MinersApart, TypeOK
    <3> QED
      BY <1>4, <2>1, <2>3, <3>1, OffTheChain DEF ReserveNonce, Goto, TypeOK, Labels
  <2> QED
    BY <1>4, <2>2, <2>3 DEF ReserveNonce
<1>5. ASSUME NEW p \in Process, NEW w \in WalletId, NEW a \in Amounts, CheckMint(p, w, a)
      PROVE  Inv'
  <2> DEFINE j == [job[p] EXCEPT !.tx = MintTx(w, a)]
  <2>1. j \in Job /\ j.done = 0
    BY <1>5, BuiltTransactions, JobType DEF Job, MinersApart, CheckMint
  <2>2. job' = [job EXCEPT ![p] = j] /\ pc' = [pc EXCEPT ![p] = "insert"]
    BY <1>5 DEF CheckMint, Goto, TypeOK
  <2> HIDE DEF j
  <2> QED
    BY <1>5, <2>1, <2>2, OffTheChain DEF CheckMint, TypeOK, Labels
<1>6. ASSUME NEW tx \in Tx, InsertRow(tx) PROVE mempool' \in Seq(Row) /\ lastRow' \in Nat
  <2>1. lastRow' \in Nat
    BY <1>6 DEF InsertRow, TypeOK
  <2>2. [id |-> lastRow', tx |-> tx] \in Row
    BY <2>1 DEF Row
  <2> QED
    BY <1>6, <2>1, <2>2, AppendProperties DEF InsertRow, TypeOK
<1>7. ASSUME NEW p \in Process, InsertPending(p) PROVE Inv'
  <2>1. mempool' \in Seq(Row) /\ lastRow' \in Nat
    BY <1>6, <1>7, JobType DEF InsertPending
  <2> QED
    BY <1>7, <2>1, OffTheChain, EmptyHands DEF InsertPending, Return, Goto, TypeOK, Labels
<1>8. ASSUME NEW p \in Process, SubmitLegacy(p) PROVE Inv'
  <2>1. mempool' \in Seq(Row) /\ lastRow' \in Nat
    BY <1>6, <1>8, EmptyHands DEF SubmitLegacy
  <2>2. pc' = [pc EXCEPT ![p] = "idle"] /\ job' = [job EXCEPT ![p] = NoJob]
    BY <1>0, <1>8 DEF SubmitLegacy
  <2> QED
    BY <1>8, <2>1, <2>2, OffTheChain, EmptyHands DEF SubmitLegacy, TypeOK, Labels
<1>9. ASSUME NEW p \in Process, ReadLast(p) PROVE Inv'
  <2> DEFINE j == [job[p] EXCEPT !.previous = Len(blocks)]
  <2>1. j \in Job /\ j.done = 0
    BY <1>9, BlockType, JobType DEF Job, MinersApart, ReadLast
  <2>2. job' = [job EXCEPT ![p] = j] /\ pc' = [pc EXCEPT ![p] = "select"]
    BY <1>9 DEF ReadLast, Goto, TypeOK
  <2> HIDE DEF j
  <2> QED
    BY <1>9, <2>1, <2>2, OffTheChain DEF ReadLast, TypeOK, Labels
<1>10. ASSUME NEW p \in Process, SelectPending(p) PROVE Inv'
  <2> DEFINE j == [job[p] EXCEPT !.rows = mempool]
  <2>1. j \in Job /\ j.done = 0
    BY <1>10, JobType DEF Job, MinersApart, SelectPending, TypeOK
  <2>2. job' = [job EXCEPT ![p] = j] /\ pc' = [pc EXCEPT ![p] = "delete"]
    BY <1>10 DEF SelectPending, Goto, TypeOK
  <2> HIDE DEF j
  <2> QED
    BY <1>10, <2>1, <2>2, OffTheChain DEF SelectPending, TypeOK, Labels
<1>11. ASSUME NEW p \in Process, DeletePending(p) PROVE Inv'
  <2>1. job' = [job EXCEPT ![p] = job[p]] /\ job[p] \in Job /\ job[p].done = 0
    BY <1>11 DEF DeletePending, MinersApart, TypeOK
  <2> QED
    BY <1>11, <2>1, OffTheChain, EmptyHands DEF DeletePending, Goto, TypeOK, Labels
<1>12. ASSUME NEW p \in Process, CountBlocks(p) PROVE Inv'
  <2> DEFINE j == [job[p] EXCEPT !.index = Len(blocks) + 1]
  <2>1. j \in Job /\ j.index = Len(blocks) + 1 /\ j.done = 0 /\ Len(blocks) \in Nat
    BY <1>12, BlockType, JobType DEF Job, CountBlocks, MinersApart
  <2>2. job' = [job EXCEPT ![p] = j] /\ pc' = [pc EXCEPT ![p] = "append"]
    BY <1>12 DEF CountBlocks, Goto, TypeOK
  <2> HIDE DEF j
  <2>3. \A q \in Process : /\ q # p => pc'[q] = pc[q] /\ job'[q] = job[q]
                           /\ q = p => pc'[q] = "append" /\ job'[q] = j
    BY <2>2 DEF TypeOK
  <2>4. TypeOK'
    <3>1. pc' \in [Process -> Labels] /\ job' \in [Process -> Job]
      BY <2>1, <2>2 DEF TypeOK, Labels
    <3> QED
      BY <1>12, <2>3, <3>1 DEF CountBlocks, TypeOK
  <2>5. MinersApart'
    BY <1>12, <2>1, <2>3 DEF CountBlocks, MinersApart, At
  <2> QED
    BY <2>4, <2>5
<1>13. ASSUME NEW p \in Process, AppendBlock(p) PROVE Inv'
  <2>1. CASE Return(p) /\ UNCHANGED <<blocks, applied>>
    BY <1>13, <2>1, OffTheChain, EmptyHands DEF AppendBlock, Return, Goto, TypeOK, Labels
  <2> DEFINE new == [previous |-> job[p].previous, rows |-> job[p].rows]
             h == Len(blocks) + 1
  <2>2. CASE /\ job[p].index \notin DOMAIN blocks
             /\ blocks' = Append(blocks, new) /\ applied' = Append(applied, 0)
             /\ IF job[p].rows = <<>> THEN Return(p) ELSE Goto(p, "deltas") /\ UNCHANGED job
    <3>1. job[p].index = h /\ pc[p] = "append"
      <4>1. pc[p] = "append"
        BY <1>13 DEF AppendBlock
      <4>2. job[p].index \in 1..h
        BY <4>1 DEF MinersApart, At
      <4> QED
        BY <2>2, <4>1, <4>2, BlockType
    <3>2. new \in Block /\ new.rows = job[p].rows /\ Len(job[p].rows) \in Nat
      BY JobType, LenProperties DEF Block
    <3> HIDE DEF new
    <3>3. /\ blocks' \in Seq(Block) /\ Len(blocks') = h
          /\ \A b \in 1..Len(blocks) : blocks'[b] = blocks[b]
          /\ blocks'[h] = new
      BY <2>2, <3>2, AppendProperties DEF TypeOK
    <3>4. /\ applied' \in Seq(Nat) /\ Len(applied') = h
          /\ \A b \in 1..Len(blocks) : applied'[b] = applied[b]
          /\ applied'[h] = 0
      <4>1. applied \in Seq(Nat) /\ 0 \in Nat /\ Len(applied) = Len(blocks)
        BY DEF TypeOK
      <4> QED
        BY <2>2, <4>1, AppendProperties
    <3>5. DOMAIN blocks' = 1..h /\ DOMAIN blocks = 1..Len(blocks) /\ Len(blocks) \in Nat
      BY <3>3, BlockType, LenProperties
    <3>6. \A q \in Process : /\ q # p => pc'[q] = pc[q] /\ job'[q] = job[q]
                             /\ q = p => \/ pc'[q] = "idle" /\ job'[q] = NoJob
                                         \/ pc'[q] = "deltas" /\ job'[q] = job[p]
                                            /\ job[p].rows # <<>>
      BY <2>2 DEF Return, Goto, TypeOK
    <3>7. pc' \in [Process -> Labels] /\ job' \in [Process -> Job]
      BY <2>2, EmptyHands DEF Return, Goto, TypeOK, Labels
    <3>8. job[p].rows # <<>> => 0 < Len(job[p].rows)
      BY JobType, EmptySeq
    <3>9. ASSUME NEW q \in Process, pc'[q] = "deltas"
          PROVE  /\ job'[q].index \in DOMAIN blocks'
                 /\ job'[q].rows = blocks'[job'[q].index].rows
                 /\ job'[q].done = applied'[job'[q].index]
                 /\ job'[q].done < Len(job'[q].rows)
      <4>1. CASE q = p
        <5>1. job[p].done = 0
          BY <3>1 DEF MinersApart
        <5> QED
          BY <3>1, <3>2, <3>3, <3>4, <3>5, <3>6, <3>8, <3>9, <4>1, <5>1
      <4>2. CASE q # p
        BY <3>3, <3>4, <3>5, <3>6, <3>9, <4>2 DEF TypeOK
      <4> QED
        BY <4>1, <4>2
    <3>10. TypeOK'
      BY <1>13, <3>3, <3>4, <3>6, <3>7, <3>9 DEF AppendBlock, TypeOK
    <3>11. MinersApart'
      <4>1. \A b \in DOMAIN blocks' : applied'[b] <= Len(blocks'[b].rows)
        BY <3>2, <3>3, <3>4, <3>5 DEF MinersApart
      <4>2. \A q \in At("append")' : job'[q].index \in 1..(Len(blocks') + 1)
        BY <3>3, <3>5, <3>6 DEF MinersApart, At
      <4>3. \A q, r \in At("deltas")' : q # r => job'[q].index # job'[r].index
        <5>1. \A q \in At("deltas") : job[q].index \in 1..Len(blocks)
          BY <3>5 DEF At, TypeOK
        <5>2. ASSUME NEW q \in At("deltas")'
              PROVE  \/ q # p /\ q \in At("deltas") /\ job'[q] = job[q]
                     \/ q = p /\ job'[q].index = h
          <6>1. q \in Process /\ pc'[q] = "deltas"
            BY DEF At
          <6> HIDE DEF h
          <6> QED
            BY <3>1, <3>6, <6>1 DEF At
        <5>3. h \notin 1..Len(blocks)
          BY <3>5
        <5> HIDE DEF h
        <5> QED
          BY <5>1, <5>2, <5>3 DEF MinersApart
      <4>4. \A q \in Process : pc'[q] # "deltas" => job'[q].done = 0
        BY <3>6, EmptyHands DEF MinersApart
      <4> QED
        BY <4>1, <4>2, <4>3, <4>4 DEF MinersApart
    <3> QED
      BY <3>10, <3>11
  <2> QED
    BY <1>13, <2>1, <2>2 DEF AppendBlock
<1>14. ASSUME NEW p \in Process, ApplyDelta(p) PROVE Inv'
  <2> DEFINE b == job[p].index
             rows == job[p].rows
  <2>1. /\ pc[p] = "deltas" /\ b \in DOMAIN blocks /\ b \in DOMAIN applied
        /\ rows = blocks[b].rows /\ job[p].done = applied[b]
        /\ job[p].done < Len(rows) /\ job[p].done \in Nat /\ Len(rows) \in Nat
    BY <1>14, BlockType, JobType DEF ApplyDelta, TypeOK
  <2>2. /\ applied' \in Seq(Nat) /\ Len(applied') = Len(applied)
        /\ \A c \in 1..Len(applied) :
             applied'[c] = IF c = b THEN applied[b] + 1 ELSE applied[c]
    BY <1>14, <2>1, BlockType, ExceptSeq DEF ApplyDelta, TypeOK
  <2>3. balance' \in [WalletId -> Int]
    BY <1>14, DeltaEffect
  <2> DEFINE j == [job[p] EXCEPT !.done = job[p].done + 1]
  <2>4. j \in Job /\ j.index = b /\ j.rows = rows /\ j.done = job[p].done + 1
    BY JobType DEF Job
  <2>5. \/ Return(p) /\ job[p].done + 1 = Len(rows)
        \/ /\ job[p].done + 1 # Len(rows) /\ UNCHANGED pc
           /\ job' = [job EXCEPT ![p] = j]
    BY <1>14 DEF ApplyDelta, TypeOK
  <2> HIDE DEF j
  <2>6. \A q \in Process : /\ q # p => pc'[q] = pc[q] /\ job'[q] = job[q]
                           /\ q = p => \/ pc'[q] = "idle" /\ job'[q] = NoJob
                                       \/ /\ pc'[q] = "deltas" /\ job'[q] = j
                                          /\ job[p].done + 1 # Len(rows)
    BY <2>1, <2>5 DEF Return, Goto, TypeOK
  <2>7. pc' \in [Process -> Labels] /\ job' \in [Process -> Job]
    BY <2>4, <2>5, EmptyHands DEF Return, Goto, TypeOK, Labels
  <2>8. UNCHANGED <<wallets, frozen, nonces, mempool, lastRow, blocks>>
    BY <1>14 DEF ApplyDelta
  <2>9. ASSUME NEW q \in Process, pc'[q] = "deltas"
        PROVE  /\ job'[q].index \in DOMAIN blocks'
               /\ job'[q].rows = blocks'[job'[q].index].rows
               /\ job'[q].done = applied'[job'[q].index]
               /\ job'[q].done < Len(job'[q].rows)
    <3>1. CASE q = p
      <4>1. job'[q] = j /\ job[p].done + 1 # Len(rows)
        BY <2>6, <2>9, <3>1
      <4>2. applied'[b] = job[p].done + 1
        BY <2>1, <2>2, BlockType
      <4> QED
        BY <2>1, <2>4, <2>8, <4>1, <4>2
    <3>2. CASE q # p
      <4>1. pc[q] = "deltas" /\ job'[q] = job[q] /\ job[q].index # b
        BY <2>1, <2>6, <2>9, <3>2 DEF MinersApart, At
      <4>2. job[q].index \in DOMAIN applied
        BY <4>1, BlockType DEF TypeOK
      <4> QED
        BY <2>2, <2>8, <4>1, <4>2, BlockType DEF TypeOK
    <3> QED
      BY <3>1, <3>2
  <2>10. TypeOK'
    BY <2>2, <2>3, <2>6, <2>7, <2>8, <2>9 DEF TypeOK
  <2>11. MinersApart'
    <3>1. \A c \in DOMAIN blocks' : applied'[c] <= Len(blocks'[c].rows)
      BY <2>1, <2>2, <2>8, BlockType DEF MinersApart
    <3>2. \A q \in At("append")' : job'[q].index \in 1..(Len(blocks') + 1)
      BY <2>6, <2>8 DEF MinersApart, At
    <3>3. \A q, r \in At("deltas")' : q # r => job'[q].index # job'[r].index
      <4>1. \A q \in Process : pc'[q] = "deltas" => pc[q] = "deltas" /\ job'[q].index = job[q].index
        BY <2>1, <2>4, <2>6
      <4> QED
        BY <4>1 DEF MinersApart, At
    <3>4. \A q \in Process : pc'[q] # "deltas" => job'[q].done = 0
      BY <2>6, EmptyHands DEF MinersApart
    <3> QED
      BY <3>1, <3>2, <3>3, <3>4 DEF MinersApart
  <2> QED
    BY <2>10, <2>11
<1>15. ASSUME NEW p \in Process, AbortDeltas(p) \/ Crash(p) PROVE Inv'
  <2>1. Return(p) /\ UNCHANGED <<wallets, balance, frozen, nonces, mempool, lastRow, blocks, applied>>
    BY <1>15 DEF AbortDeltas, Crash
  <2> QED
    BY <2>1, OffTheChain, EmptyHands DEF Return, Goto, TypeOK, Labels
<1>16. CASE UNCHANGED vars
  <2>1. TypeOK'
    BY <1>16 DEF vars, TypeOK
  <2> QED
    BY <1>16, <2>1 DEF vars, MinersApart, At
<1> QED
  BY <1>1, <1>2, <1>3, <1>4, <1>5, <1>7, <1>8, <1>9, <1>10, <1>11, <1>12, <1>13, <1>14, <1>15,
     <1>16 DEF Next

\* However the processes interleave and die, the tables and the variables of
\* the handlers keep their types, and a process that applies deltas is inside
\* the block it wrote.
THEOREM PgTypeCorrect == Spec => []TypeOK
<1>1. Inv => TypeOK
  BY DEF Inv
<1> QED
  BY <1>1, InitInv, NextInv, PTL DEF Spec

-----------------------------------------------------------------------------
(* Balances and blocks *)

\* Every other step leaves the balances of existing wallets alone and takes
\* nothing away.
LEMMA OtherSteps ==
  ASSUME TypeOK, [Next]_vars, \A p \in Process : ~ApplyDelta(p)
  PROVE  \A w \in WalletId : balance[w] >= 0 => balance'[w] >= 0
<1>1. ASSUME NEW p \in Process, NEW w \in WalletId, CreateWallet(p, w)
      PROVE  \A x \in WalletId : balance[x] >= 0 => balance'[x] >= 0
  BY <1>1 DEF CreateWallet, TypeOK
<1>2. ASSUME NEW p \in Process, ReserveNonce(p) \/ AppendBlock(p) PROVE UNCHANGED balance
  BY <1>2 DEF ReserveNonce, AppendBlock
<1>3. CASE UNCHANGED balance
  BY <1>3
<1>4. CASE Next
  BY <1>1, <1>2, <1>3, <1>4
  DEF Next, SetFrozen, CheckTransfer, CheckMint, InsertPending, SubmitLegacy, ReadLast,
      SelectPending, DeletePending, CountBlocks, AbortDeltas, Crash
<1> QED
  BY <1>3, <1>4 DEF vars

\* No wallet is overdrawn, although the balance of a transfer is read long
\* before it is applied, in another database transaction and maybe in another
\* process.
THEOREM PgNeverOverdrawn == Spec => []NoOverdraft
<1>1. ASSUME Init PROVE NoOverdraft
  <2>1. balance = [w \in WalletId |-> 0]
    BY <1>1 DEF Init
  <2>2. \A w \in WalletId : balance[w] = 0
    BY <2>1
  <2> QED
    <3> USE DEF NoOverdraft
    <3> TAKE w \in WalletId
    <3>1. balance[w] = 0
      BY <2>2
    <3> QED
      BY <3>1
<1>2. TypeOK /\ NoOverdraft /\ [Next]_vars => NoOverdraft'
  BY DeltaEffect, OtherSteps DEF NoOverdraft
<1> QED
  BY <1>1, <1>2, PgTypeCorrect, PTL DEF Spec

\* A block that is written is never replaced, by however many miners that
\* counted the same blocks, and its deltas are applied at most once each.
THEOREM WrittenBlocksStay == Spec => ChainGrows
<1> DEFINE Grows == /\ \A b \in DOMAIN blocks : blocks'[b] = blocks[b] /\ applied'[b] >= applied[b]
                    /\ \A b \in DOMAIN blocks' : applied'[b] <= Len(blocks'[b].rows)
<1>1. Inv /\ [Next]_vars => [Grows]_vars
  <2> SUFFICES ASSUME Inv, Next PROVE Grows
    OBVIOUS
  <2>1. Inv'
    BY NextInv
  <2>2. \A b \in DOMAIN blocks' : applied'[b] <= Len(blocks'[b].rows)
    BY <2>1 DEF Inv, MinersApart
  <2>3. TypeOK /\ DOMAIN blocks = 1..Len(blocks) /\ DOMAIN applied = 1..Len(blocks)
    BY BlockType DEF Inv
  <2>4. ASSUME UNCHANGED <<blocks, applied>>
        PROVE  \A b \in DOMAIN blocks : blocks'[b] = blocks[b] /\ applied'[b] >= applied[b]
    BY <2>3, <2>4, BlockType
  <2>5. ASSUME NEW p \in Process, AppendBlock(p)
        PROVE  \A b \in DOMAIN blocks : blocks'[b] = blocks[b] /\ applied'[b] >= applied[b]
    <3> DEFINE new == [previous |-> job[p].previous, rows |-> job[p].rows]
    <3>1. CASE blocks' = Append(blocks, new) /\ applied' = Append(applied, 0)
      <4>1. new \in Block
        BY <2>3, JobType DEF Block
      <4>2. blocks \in Seq(Block) /\ applied \in Seq(Nat) /\ Len(applied) = Len(blocks) /\ 0 \in Nat
        BY <2>3 DEF TypeOK
      <4> HIDE DEF new
      <4>3. \A b \in 1..Len(blocks) : blocks'[b] = blocks[b]
        BY <3>1, <4>1, <4>2, AppendProperties
      <4>4. \A b \in 1..Len(blocks) : applied'[b] = applied[b]
        BY <3>1, <4>2, AppendProperties
      <4> QED
        BY <2>3, <4>3, <4>4, BlockType
    <3> QED
      BY <2>4, <2>5, <3>1 DEF AppendBlock
  <2>6. ASSUME NEW p \in Process, ApplyDelta(p)
        PROVE  \A b \in DOMAIN blocks : blocks'[b] = blocks[b] /\ applied'[b] >= applied[b]
    <3>1. /\ blocks' = blocks
          /\ applied' = [applied EXCEPT ![job[p].index] = applied[job[p].index] + 1]
      BY <2>6 DEF ApplyDelta
    <3> QED
      BY <2>3, <3>1, BlockType
  <2>7. \A b \in DOMAIN blocks : blocks'[b] = blocks[b] /\ applied'[b] >= applied[b]
    BY <2>4, <2>5, <2>6
    DEF Next, CreateWallet, SetFrozen, CheckTransfer, ReserveNonce, CheckMint, InsertPending,
        SubmitLegacy, ReadLast, SelectPending, DeletePending, CountBlocks, AbortDeltas, Crash
  <2> QED
    BY <2>2, <2>7
<1> QED
  BY <1>1, InitInv, NextInv, PTL DEF Spec, ChainGrows

-----------------------------------------------------------------------------
(* Nonces *)

SameNonce(t, u) ==
  /\ t.signature = Ecdsa /\ u.signature = Ecdsa
  /\ t.sender_wallet_id = u.sender_wallet_id
  /\ t.nonce = u.nonce

\* The nonce table covers the nonce of t.
Recorded(t) ==
  t.signature = Ecdsa => /\ t.sender_wallet_id \in WalletId
                         /\ t.nonce <= nonces[t.sender_wallet_id]

\* NonceAdmittedOnce is not inductive: the row that a process is about to
\* insert must differ from every row there is and from those that others are
\* about to insert, and it does because its nonce was above all that the table
\* covered when it was reserved.
NoncesTaken ==
  /\ \A x \in Rows : Recorded(x.tx)
  /\ \A p \in At("reserve") : job[p].tx.sender_wallet_id \in WalletId
  /\ \A p \in At("insert") : /\ Recorded(job[p].tx)
                             /\ \A x \in Rows : ~SameNonce(x.tx, job[p].tx)
  /\ \A p, q \in At("insert") : p # q => ~SameNonce(job[p].tx, job[q].tx)
  /\ NonceAdmittedOnce

\* What is somewhere is a row of the mempool table.
LEMMA RowsType ==
  ASSUME TypeOK
  PROVE  /\ Rows \subseteq Row
         /\ \A x \in Rows : x.tx \in Tx /\ x.tx.nonce \in Nat
<1>1. ASSUME NEW rows \in Seq(Row) PROVE RowsOf(rows) \subseteq Row
  BY LenProperties, ElementOfSeq DEF RowsOf
<1>2. RowsOf(mempool) \subseteq Row
  BY <1>1 DEF TypeOK
<1>3. Flushed \subseteq Row
  BY <1>1, JobType DEF Flushed
<1>4. Confirmed \subseteq Row
  BY <1>1, BlockType DEF Confirmed
<1>5. Rows \subseteq Row
  BY <1>2, <1>3, <1>4 DEF Rows
<1> QED
  BY <1>5 DEF Row, Tx

\* A step after which there are no new rows, and nobody inserts a transfer that
\* was not about to insert it before.
LEMMA NobodyReserves ==
  ASSUME TypeOK, TypeOK', NoncesTaken,
         Rows' \subseteq Rows,
         \A w \in WalletId : nonces[w] <= nonces'[w],
         \A p \in Process : pc'[p] = "reserve" => job'[p].tx.sender_wallet_id \in WalletId,
         \A p \in Process : pc'[p] = "insert" =>
           \/ pc[p] = "insert" /\ job'[p].tx = job[p].tx
           \/ job'[p].tx.signature # Ecdsa
  PROVE  NoncesTaken'
<1>1. ASSUME NEW t \in Tx, Recorded(t), t.signature = Ecdsa
      PROVE  t.sender_wallet_id \in WalletId /\ t.nonce <= nonces'[t.sender_wallet_id]
  BY <1>1 DEF Recorded, Tx, TypeOK
<1>2. \A x \in Rows' : Recorded(x.tx)'
  BY <1>1, RowsType DEF NoncesTaken, Recorded
<1>3. \A p \in At("reserve")' : job'[p].tx.sender_wallet_id \in WalletId
  BY DEF At
<1>4. ASSUME NEW p \in Process, pc'[p] = "insert", job'[p].tx.signature = Ecdsa
      PROVE  p \in At("insert") /\ job'[p].tx = job[p].tx /\ job[p].tx \in Tx
  BY <1>4, JobType DEF At
<1>5. \A p \in At("insert")' : Recorded(job[p].tx)'
  BY <1>1, <1>4 DEF NoncesTaken, Recorded, At
<1>6. \A p \in At("insert")' : \A x \in Rows' : ~SameNonce(x.tx, job'[p].tx)
  BY <1>4 DEF NoncesTaken, SameNonce, At
<1>7. \A p, q \in At("insert")' : p # q => ~SameNonce(job'[p].tx, job'[q].tx)
  BY <1>4 DEF NoncesTaken, SameNonce, At
<1>8. NonceAdmittedOnce'
  BY DEF NoncesTaken, NonceAdmittedOnce
<1> QED
  BY <1>2, <1>3, <1>5, <1>6, <1>7, <1>8 DEF NoncesTaken

\* The upsert that reserves a nonce.
LEMMA OneReserves ==
  ASSUME TypeOK, TypeOK', NoncesTaken, NEW p \in Process, pc[p] = "reserve",
         job[p].tx.nonce > nonces[job[p].tx.sender_wallet_id],
         nonces' = [nonces EXCEPT ![job[p].tx.sender_wallet_id] = job[p].tx.nonce],
         pc' = [pc EXCEPT ![p] = "insert"],
         UNCHANGED <<mempool, blocks, job>>
  PROVE  NoncesTaken'
<1> DEFINE tx == job[p].tx
           s == tx.sender_wallet_id
<1>1. tx \in Tx /\ tx.nonce \in Nat /\ s \in WalletId
  BY JobType DEF Tx, NoncesTaken, At
<1>2. \A w \in WalletId : nonces[w] \in Nat /\ nonces'[w] = IF w = s THEN tx.nonce ELSE nonces[w]
  BY <1>1 DEF TypeOK
<1>3. \A q \in Process : pc'[q] = IF q = p THEN "insert" ELSE pc[q]
  BY DEF TypeOK
<1>4. Rows' = Rows
  BY DEF Rows, Flushed, Confirmed
<1>5. ASSUME NEW t \in Tx, Recorded(t)
      PROVE  /\ ~SameNonce(t, tx) /\ ~SameNonce(tx, t)
             /\ t.signature = Ecdsa => /\ t.sender_wallet_id \in WalletId
                                       /\ t.nonce <= nonces'[t.sender_wallet_id]
  <2>1. t.nonce \in Nat
    BY DEF Tx
  <2> QED
    BY <1>1, <1>2, <1>5, <2>1 DEF Recorded, SameNonce
<1>6. \A x \in Rows' : Recorded(x.tx)'
  BY <1>4, <1>5, RowsType DEF NoncesTaken, Recorded
<1>7. \A q \in At("reserve")' : job'[q].tx.sender_wallet_id \in WalletId
  BY <1>3 DEF NoncesTaken, At
<1>8. \A q \in At("insert")' : q = p \/ q \in At("insert")
  BY <1>3 DEF At
<1>9. \A q \in At("insert")' : Recorded(job[q].tx)'
  <2>1. Recorded(tx)'
    BY <1>1, <1>2 DEF Recorded
  <2> QED
    BY <1>5, <1>8, <2>1, JobType DEF NoncesTaken, Recorded, At
<1>10. \A q \in At("insert")' : \A x \in Rows' : ~SameNonce(x.tx, job'[q].tx)
  BY <1>4, <1>5, <1>8, RowsType DEF NoncesTaken
<1>11. \A q, r \in At("insert")' : q # r => ~SameNonce(job'[q].tx, job'[r].tx)
  BY <1>5, <1>8, JobType DEF NoncesTaken, At
<1>12. NonceAdmittedOnce'
  BY <1>4 DEF NoncesTaken, NonceAdmittedOnce
<1> QED
  BY <1>6, <1>7, <1>9, <1>10, <1>11, <1>12 DEF NoncesTaken

\* The row of a transaction that nobody else holds is inserted.
LEMMA OneInserts ==
  ASSUME TypeOK, TypeOK', NoncesTaken, NEW new, Rows' \subseteq Rows \cup {new}, Recorded(new.tx),
         \A x \in Rows : ~SameNonce(x.tx, new.tx),
         UNCHANGED nonces,
         \A p \in Process : pc'[p] \in {"reserve", "insert"} => pc'[p] = pc[p] /\ job'[p] = job[p],
         \A p \in Process : pc'[p] = "insert" => ~SameNonce(job[p].tx, new.tx)
  PROVE  NoncesTaken'
<1>1. \A x \in Rows' : Recorded(x.tx)'
  BY DEF NoncesTaken, Recorded
<1>2. \A p \in At("reserve")' : job'[p].tx.sender_wallet_id \in WalletId
  BY DEF NoncesTaken, At
<1>3. \A p \in At("insert")' : /\ p \in At("insert") /\ job'[p] = job[p]
                               /\ ~SameNonce(job[p].tx, new.tx)
  BY DEF At
<1>4. \A p \in At("insert")' : Recorded(job[p].tx)'
  BY <1>3 DEF NoncesTaken, Recorded
<1>5. \A p \in At("insert")' : \A x \in Rows' : ~SameNonce(x.tx, job'[p].tx)
  BY <1>3 DEF NoncesTaken, SameNonce
<1>6. \A p, q \in At("insert")' : p # q => ~SameNonce(job'[p].tx, job'[q].tx)
  BY <1>3 DEF NoncesTaken
<1>7. NonceAdmittedOnce'
  BY DEF NoncesTaken, NonceAdmittedOnce, SameNonce
<1> QED
  BY <1>1, <1>2, <1>4, <1>5, <1>6, <1>7 DEF NoncesTaken

\* What the steps do to the rows that exist.
LEMMA RowsAppended ==
  ASSUME TypeOK, NEW tx \in Tx, InsertRow(tx), UNCHANGED blocks,
         \A q \in Process : job'[q].rows = job[q].rows \/ job'[q].rows = <<>>
  PROVE  Rows' \subseteq Rows \cup {[id |-> lastRow', tx |-> tx]}
<1> DEFINE new == [id |-> lastRow', tx |-> tx]
<1>1. mempool' = Append(mempool, new) /\ new \in Row /\ mempool \in Seq(Row)
  BY DEF InsertRow, TypeOK, Row
<1> HIDE DEF new
<1>2. RowsOf(mempool') \subseteq RowsOf(mempool) \cup {new}
  BY <1>1, AppendProperties, LenProperties DEF RowsOf
<1>3. RowsOf(<<>>) = {}
  BY DEF RowsOf
<1>4. Flushed' \subseteq Flushed
  BY <1>3 DEF Flushed
<1>5. Rows' \subseteq Rows \cup {new}
  BY <1>2, <1>4 DEF Rows, Confirmed
<1> QED
  BY <1>5 DEF new

LEMMA RowsMove ==
  ASSUME TypeOK, blocks' = blocks, mempool' = mempool \/ mempool' = <<>>,
         \A q \in Process : \/ job'[q].rows = job[q].rows \/ job'[q].rows = <<>>
                            \/ job'[q].rows = mempool
  PROVE  Rows' \subseteq Rows
<1>1. RowsOf(<<>>) = {}
  BY DEF RowsOf
<1>2. Flushed' \subseteq Flushed \cup RowsOf(mempool)
  BY <1>1 DEF Flushed
<1>3. RowsOf(mempool') \subseteq RowsOf(mempool)
  BY <1>1
<1>4. Confirmed' = Confirmed
  BY DEF Confirmed
<1> QED
  BY <1>2, <1>3, <1>4 DEF Rows

\* A block holds the rows that its miner had flushed.
LEMMA RowsWritten ==
  ASSUME TypeOK, NEW p \in Process, AppendBlock(p)
  PROVE  Rows' \subseteq Rows
<1> DEFINE new == [previous |-> job[p].previous, rows |-> job[p].rows]
<1>1. RowsOf(<<>>) = {} /\ NoJob.rows = <<>>
  BY DEF RowsOf, NoJob
<1>2. \A q \in Process : job'[q].rows = job[q].rows \/ job'[q].rows = <<>>
  BY <1>1 DEF AppendBlock, Return, TypeOK
<1>3. Flushed' \subseteq Flushed
  BY <1>1, <1>2 DEF Flushed
<1>4. CASE UNCHANGED blocks
  BY <1>3, <1>4 DEF Rows, Confirmed, AppendBlock
<1>5. CASE blocks' = Append(blocks, new)
  <2>1. new \in Block /\ blocks \in Seq(Block) /\ new.rows = job[p].rows
    BY JobType DEF Block, TypeOK
  <2> HIDE DEF new
  <2>2. \A b \in DOMAIN blocks' : \/ b \in DOMAIN blocks /\ blocks'[b] = blocks[b]
                                  \/ blocks'[b] = new
    BY <1>5, <2>1, AppendProperties, LenProperties
  <2>3. RowsOf(new.rows) \subseteq Flushed
    BY <2>1 DEF Flushed
  <2>4. Confirmed' \subseteq Confirmed \cup Flushed
    BY <2>2, <2>3 DEF Confirmed
  <2> QED
    BY <1>3, <2>4 DEF Rows, AppendBlock
<1> QED
  BY <1>4, <1>5 DEF AppendBlock

LEMMA InitNonces == Init => NoncesTaken
<1> SUFFICES ASSUME Init PROVE NoncesTaken
  OBVIOUS
<1>1. RowsOf(<<>>) = {}
  BY DEF RowsOf
<1>2. \A b \in DOMAIN blocks : blocks[b].rows = <<>>
  BY DEF Init, Genesis
<1>3. Confirmed = {}
  BY <1>1, <1>2 DEF Confirmed
<1>4. \A p \in Process : pc[p] = "idle" /\ job[p].rows = <<>>
  BY DEF Init, NoJob
<1>5. Flushed = {}
  BY <1>1, <1>4 DEF Flushed
<1>6. Rows = {}
  BY <1>1, <1>3, <1>5 DEF Rows, Init
<1> QED
  BY <1>4, <1>6 DEF NoncesTaken, NonceAdmittedOnce, At

LEMMA NextNonces == TypeOK /\ TypeOK' /\ NoncesTaken /\ [Next]_vars => NoncesTaken'
<1> SUFFICES ASSUME TypeOK, TypeOK', NoncesTaken, [Next]_vars PROVE NoncesTaken'
  OBVIOUS
<1>0. /\ NoJob.rows = <<>>
      /\ \A w \in WalletId : nonces[w] \in Nat
      /\ \A q \in Process : job[q].rows = job[q].rows
  BY DEF NoJob, TypeOK
<1> DEFINE
      \* p moves alone, and does not come to insert anything new.
      Quiet(p) ==
        /\ blocks' = blocks
        /\ \A w \in WalletId : nonces[w] <= nonces'[w]
        /\ \A q \in Process \ {p} : pc'[q] = pc[q] /\ job'[q] = job[q]
        /\ pc'[p] = "reserve" => job'[p].tx.sender_wallet_id \in WalletId
        /\ pc'[p] = "insert" => \/ pc[p] = "insert" /\ job'[p].tx = job[p].tx
                                \/ job'[p].tx.signature # Ecdsa
<1>1. ASSUME NEW p \in Process, Quiet(p), mempool' = mempool \/ mempool' = <<>>,
             job'[p].rows \in {job[p].rows, <<>>, mempool}
      PROVE  NoncesTaken'
  <2>1. Rows' \subseteq Rows
    BY <1>1, RowsMove
  <2>2. \A q \in Process : pc'[q] = "reserve" => job'[q].tx.sender_wallet_id \in WalletId
    BY <1>1 DEF NoncesTaken, At
  <2> QED
    BY <1>1, <2>1, <2>2, NobodyReserves
<1>2. ASSUME NEW p \in Process, Return(p)
      PROVE  /\ \A q \in Process \ {p} : pc'[q] = pc[q] /\ job'[q] = job[q]
             /\ pc'[p] = "idle" /\ job'[p] = NoJob
  BY <1>2 DEF Return, Goto, TypeOK
<1>3. ASSUME NEW p \in Process, NEW s \in WalletId, NEW r \in WalletId, NEW a \in Amounts,
             NEW n \in 1..MaxNonce, NEW net \in Quotes(s, r, a), CheckTransfer(p, s, r, a, net, n)
      PROVE  NoncesTaken'
  <2>1. /\ \A q \in Process \ {p} : pc'[q] = pc[q] /\ job'[q] = job[q]
        /\ pc'[p] = "reserve" /\ job'[p].tx = SignedTx(s, r, a, net, n)
        /\ job'[p].rows = job[p].rows
    BY <1>3 DEF CheckTransfer, Goto, TypeOK, Job
  <2> QED
    BY <1>0, <1>1, <1>3, <2>1 DEF CheckTransfer, SignedTx
<1>4. ASSUME NEW p \in Process, ReserveNonce(p) PROVE NoncesTaken'
  <2> DEFINE tx == job[p].tx
             s == tx.sender_wallet_id
  <2>1. pc[p] = "reserve" /\ tx \in Tx /\ tx.nonce \in Nat /\ s \in WalletId
    BY <1>4, JobType DEF ReserveNonce, NoncesTaken, At, Tx
  <2>2. CASE tx.nonce > nonces[s] /\ nonces' = [nonces EXCEPT ![s] = tx.nonce] /\ Return(p)
    <3>1. \A w \in WalletId : nonces[w] <= nonces'[w]
      BY <1>0, <2>1, <2>2 DEF TypeOK
    <3> QED
      BY <1>0, <1>1, <1>2, <1>4, <2>2, <3>1 DEF ReserveNonce
  <2>3. CASE /\ tx.nonce > nonces[s] /\ nonces' = [nonces EXCEPT ![s] = tx.nonce]
             /\ Goto(p, "insert") /\ UNCHANGED job
    BY <1>4, <2>1, <2>3, OneReserves DEF ReserveNonce, Goto
  <2>4. CASE UNCHANGED nonces /\ Return(p)
    BY <1>0, <1>1, <1>2, <1>4, <2>4 DEF ReserveNonce
  <2> QED
    BY <1>4, <2>2, <2>3, <2>4 DEF ReserveNonce
<1>5. ASSUME NEW p \in Process, NEW w \in WalletId, NEW a \in Amounts, CheckMint(p, w, a)
      PROVE  NoncesTaken'
  <2>1. /\ \A q \in Process \ {p} : pc'[q] = pc[q] /\ job'[q] = job[q]
        /\ pc'[p] = "insert" /\ job'[p].tx = MintTx(w, a) /\ job'[p].rows = job[p].rows
    BY <1>5 DEF CheckMint, Goto, TypeOK, Job
  <2> QED
    BY <1>0, <1>1, <1>5, <2>1 DEF CheckMint, MintTx, Mint, Ecdsa
<1>6. ASSUME NEW p \in Process, InsertPending(p) PROVE NoncesTaken'
  <2> DEFINE tx == job[p].tx
             new == [id |-> lastRow', tx |-> tx]
  <2>1. tx \in Tx /\ p \in At("insert") /\ Return(p) /\ UNCHANGED <<blocks, nonces>> /\ InsertRow(tx)
    BY <1>6, JobType DEF InsertPending, At
  <2>2. Rows' \subseteq Rows \cup {new}
    BY <1>0, <1>2, <2>1, RowsAppended
  <2>3. new.tx = tx
    OBVIOUS
  <2> HIDE DEF new
  <2>4. Recorded(new.tx) /\ \A x \in Rows : ~SameNonce(x.tx, new.tx)
    BY <2>1, <2>3 DEF NoncesTaken
  <2>5. \A q \in Process : pc'[q] = "insert" => ~SameNonce(job[q].tx, new.tx)
    BY <1>2, <2>1, <2>3 DEF NoncesTaken, At
  <2>6. \A q \in Process : pc'[q] \in {"reserve", "insert"} => pc'[q] = pc[q] /\ job'[q] = job[q]
    BY <1>2, <2>1
  <2> QED
    BY <2>1, <2>2, <2>4, <2>5, <2>6, OneInserts
<1>7. ASSUME NEW p \in Process, SubmitLegacy(p) PROVE NoncesTaken'
  <2> DEFINE new == [id |-> lastRow', tx |-> LegacyTx]
  <2>1. Rows' \subseteq Rows \cup {new}
    BY <1>0, <1>7, EmptyHands, RowsAppended DEF SubmitLegacy
  <2>2. new.tx.signature # Ecdsa
    BY DEF LegacyTx, Unsigned, Ecdsa
  <2> HIDE DEF new
  <2> QED
    BY <1>7, <2>1, <2>2, OneInserts DEF SubmitLegacy, Recorded, SameNonce
<1>8. ASSUME NEW p \in Process, SelectPending(p) \/ ReadLast(p) \/ CountBlocks(p) \/ DeletePending(p)
      PROVE  NoncesTaken'
  <2>1. /\ \A q \in Process \ {p} : pc'[q] = pc[q] /\ job'[q] = job[q]
        /\ pc'[p] \in {"select", "delete", "count", "append"}
        /\ job'[p].rows \in {job[p].rows, mempool}
        /\ UNCHANGED <<blocks, nonces>>
        /\ mempool' = mempool \/ mempool' = <<>>
    <3> USE DEF Goto, TypeOK, Job
    <3>1. CASE SelectPending(p)
      BY <3>1 DEF SelectPending
    <3>2. CASE ReadLast(p)
      BY <3>2 DEF ReadLast
    <3>3. CASE CountBlocks(p)
      BY <3>3 DEF CountBlocks
    <3>4. CASE DeletePending(p)
      BY <3>4 DEF DeletePending
    <3> QED
      BY <1>8, <3>1, <3>2, <3>3, <3>4
  <2> QED
    BY <1>0, <1>1, <2>1
<1>9. ASSUME NEW p \in Process, AppendBlock(p) PROVE NoncesTaken'
  <2>1. Rows' \subseteq Rows
    BY <1>9, RowsWritten
  <2>2. /\ \A q \in Process \ {p} : pc'[q] = pc[q] /\ job'[q] = job[q]
        /\ pc'[p] \in {"idle", "deltas"}
        /\ nonces' = nonces
    BY <1>2, <1>9 DEF AppendBlock, Goto, TypeOK
  <2>3. \A q \in Process : pc'[q] = "reserve" => job'[q].tx.sender_wallet_id \in WalletId
    BY <2>2 DEF NoncesTaken, At
  <2> QED
    BY <1>0, <2>1, <2>2, <2>3, NobodyReserves
<1>10. ASSUME NEW p \in Process, ApplyDelta(p) PROVE NoncesTaken'
  <2>1. /\ \A q \in Process \ {p} : pc'[q] = pc[q] /\ job'[q] = job[q]
        /\ pc'[p] \in {"idle", "deltas"}
        /\ job'[p].rows \in {job[p].rows, <<>>}
    <3>1. CASE Return(p)
      BY <1>0, <1>2, <3>1
    <3>2. CASE job' = [job EXCEPT ![p].done = @ + 1] /\ UNCHANGED pc
      <4>1. pc[p] = "deltas"
        BY <1>10 DEF ApplyDelta
      <4> QED
        BY <3>2, <4>1 DEF TypeOK, Job
    <3> QED
      BY <1>10, <3>1, <3>2 DEF ApplyDelta
  <2> QED
    BY <1>0, <1>1, <1>10, <2>1 DEF ApplyDelta
<1>11. ASSUME NEW p \in Process, AbortDeltas(p) \/ Crash(p) PROVE NoncesTaken'
  BY <1>0, <1>1, <1>2, <1>11 DEF AbortDeltas, Crash
<1>12. ASSUME NEW p \in Process, UNCHANGED <<nonces, mempool, blocks, pc, job>> PROVE NoncesTaken'
  BY <1>0, <1>1, <1>12 DEF NoncesTaken, At
<1>13. CASE UNCHANGED vars
  BY <1>13 DEF vars, NoncesTaken, NonceAdmittedOnce, Rows, Flushed, Confirmed, At, Recorded
<1> HIDE DEF Quiet
<1> QED
  BY <1>3, <1>4, <1>5, <1>6, <1>7, <1>8, <1>9, <1>10, <1>11, <1>12, <1>13
  DEF Next, CreateWallet, SetFrozen

\* Two requests with the same nonce are never both admitted, whatever happens
\* between the reservation of one and its insertion, in whichever process.
THEOREM NoncesProtect == Spec => []NonceAdmittedOnce
<1>1. NoncesTaken => NonceAdmittedOnce
  BY DEF NoncesTaken
<1> QED
  BY <1>1, InitNonces, NextNonces, PgTypeCorrect, PTL DEF Spec

-----------------------------------------------------------------------------
(* One process *)

\* The node that README.md starts: one process, which runs one handler at a
\* time.
OneProcess == \A p, q \in Process : p = q

\* The previous block that a lone miner read is still the last one when it
\* counts the blocks and when it appends.
AtTheEnd ==
  /\ \A p \in Mining : job[p].previous = Len(blocks)
  /\ \A p \in At("append") : job[p].index = Len(blocks) + 1
  /\ LinksHold

\* Rows with ids of their own, none of them in the chain.
Fresh(rows) ==
  /\ \A i \in DOMAIN rows : rows[i].id \in 1..lastRow
  /\ \A i, k \in DOMAIN rows : rows[i].id = rows[k].id => i = k
  /\ \A i \in DOMAIN rows, b \in DOMAIN blocks :
       \A k \in DOMAIN blocks[b].rows : rows[i].id # blocks[b].rows[k].id

\* A row is either pending or with the miner or in the chain: what a lone miner
\* deletes is what it selected, and nothing is inserted until it has appended.
RowsApart ==
  /\ Fresh(mempool)
  /\ \A p \in Process : pc[p] \in {"idle", "reserve", "insert", "select"} => job[p].rows = <<>>
  /\ \A p \in At("delete") : job[p].rows = mempool
  /\ \A p \in At("count") \cup At("append") : mempool = <<>> /\ Fresh(job[p].rows)
  /\ \A b \in DOMAIN blocks : \A i \in DOMAIN blocks[b].rows : blocks[b].rows[i].id \in 1..lastRow
  /\ ConfirmedOnce

LEMMA InitAlone == Init => AtTheEnd /\ RowsApart
<1> SUFFICES ASSUME Init PROVE AtTheEnd /\ RowsApart
  OBVIOUS
<1>1. blocks = <<Genesis>> /\ mempool = <<>> /\ DOMAIN blocks = {1}
  BY DEF Init
<1>2. blocks[1].rows = <<>> /\ blocks[1].previous = 0
  BY <1>1 DEF Genesis
<1>3. \A p \in Process : pc[p] = "idle" /\ job[p].rows = <<>>
  BY DEF Init, NoJob
<1>4. AtTheEnd
  BY <1>1, <1>2, <1>3 DEF AtTheEnd, LinksHold, Mining, At
<1>5. RowsApart
  BY <1>1, <1>2, <1>3 DEF RowsApart, Fresh, ConfirmedOnce, At
<1> QED
  BY <1>4, <1>5

\* A step of p that changes no table of rows or blocks, and after which p holds
\* what it should.
LEMMA HandsOnly ==
  ASSUME OneProcess, AtTheEnd, RowsApart, NEW p \in Process,
         UNCHANGED <<mempool, lastRow, blocks>>,
         pc'[p] \in {"idle", "reserve", "insert", "select"} => job'[p].rows = <<>>,
         pc'[p] = "delete" => job'[p].rows = mempool,
         pc'[p] \in {"count", "append"} => mempool = <<>> /\ Fresh(job'[p].rows),
         pc'[p] \in {"select", "delete", "count", "append"} => job'[p].previous = Len(blocks),
         pc'[p] = "append" => job'[p].index = Len(blocks) + 1
  PROVE  AtTheEnd' /\ RowsApart'
<1>1. \A q \in Process : q = p
  BY DEF OneProcess
<1>2. AtTheEnd'
  BY <1>1 DEF AtTheEnd, LinksHold, Mining, At
<1>3. RowsApart'
  BY <1>1 DEF RowsApart, Fresh, ConfirmedOnce, At
<1> QED
  BY <1>2, <1>3

\* A row is inserted while nobody mines.
LEMMA RowInserted ==
  ASSUME OneProcess, TypeOK, AtTheEnd, RowsApart, NEW p \in Process, NEW tx \in Tx, InsertRow(tx),
         pc'[p] = "idle", job'[p].rows = <<>>, UNCHANGED blocks
  PROVE  AtTheEnd' /\ RowsApart'
<1> DEFINE new == [id |-> lastRow', tx |-> tx]
<1>1. \A q \in Process : q = p
  BY DEF OneProcess
<1>2. AtTheEnd'
  BY <1>1 DEF AtTheEnd, LinksHold, Mining, At
<1>3. /\ lastRow \in Nat /\ lastRow' = lastRow + 1 /\ mempool \in Seq(Row)
      /\ new \in Row /\ new.id = lastRow' /\ mempool' = Append(mempool, new)
  BY DEF TypeOK, InsertRow, Row
<1> HIDE DEF new
<1>4. /\ DOMAIN mempool = 1..Len(mempool) /\ Len(mempool) \in Nat
      /\ DOMAIN mempool' = 1..(Len(mempool) + 1)
      /\ mempool'[Len(mempool) + 1] = new
      /\ \A i \in 1..Len(mempool) : mempool'[i] = mempool[i]
  BY <1>3, AppendProperties, LenProperties
<1>5. \A i \in DOMAIN mempool' : \/ i \in DOMAIN mempool /\ mempool'[i] = mempool[i]
                                 \/ i = Len(mempool) + 1 /\ mempool'[i].id = lastRow + 1
  BY <1>3, <1>4
<1>6. \A i \in DOMAIN mempool : mempool[i].id \in 1..lastRow
  BY DEF RowsApart, Fresh
<1>7. \A b \in DOMAIN blocks : \A k \in DOMAIN blocks[b].rows : blocks[b].rows[k].id \in 1..lastRow
  BY DEF RowsApart
<1>8. Fresh(mempool)'
  <2>1. \A i \in DOMAIN mempool' : mempool'[i].id \in 1..lastRow'
    BY <1>3, <1>5, <1>6
  <2>2. \A i, k \in DOMAIN mempool' : mempool'[i].id = mempool'[k].id => i = k
    BY <1>3, <1>5, <1>6 DEF RowsApart, Fresh
  <2>3. ASSUME NEW i \in DOMAIN mempool', NEW b \in DOMAIN blocks, NEW k \in DOMAIN blocks[b].rows
        PROVE  mempool'[i].id # blocks[b].rows[k].id
    BY <1>3, <1>5, <1>6, <1>7 DEF RowsApart, Fresh
  <2> QED
    BY <2>1, <2>2, <2>3 DEF Fresh
<1>9. \A b \in DOMAIN blocks' : \A i \in DOMAIN blocks'[b].rows : blocks'[b].rows[i].id \in 1..lastRow'
  BY <1>3, <1>7
<1>10. RowsApart'
  BY <1>1, <1>8, <1>9 DEF RowsApart, ConfirmedOnce, At
<1> QED
  BY <1>2, <1>10

\* The new block goes to the end and takes the rows out of the miner's hands.
LEMMA BlockAppended ==
  ASSUME OneProcess, TypeOK, AtTheEnd, RowsApart, NEW p \in Process, AppendBlock(p)
  PROVE  /\ AtTheEnd' /\ RowsApart'
         /\ \A b \in DOMAIN blocks : b \in DOMAIN blocks' /\ blocks'[b] = blocks[b]
         /\ Len(blocks) + 1 \in DOMAIN blocks'
         /\ blocks'[Len(blocks) + 1].rows = job[p].rows
<1> DEFINE new == [previous |-> job[p].previous, rows |-> job[p].rows]
           n == Len(blocks)
<1>1. \A q \in Process : q = p
  BY DEF OneProcess
<1>2. /\ pc[p] = "append" /\ job[p].index = n + 1 /\ job[p].previous = n
      /\ mempool = <<>> /\ Fresh(job[p].rows)
  BY DEF AppendBlock, AtTheEnd, RowsApart, Mining, At
<1>3. n \in Nat /\ DOMAIN blocks = 1..n /\ blocks \in Seq(Block) /\ new \in Block
  BY BlockType, JobType DEF TypeOK, Block
<1>4. blocks' = Append(blocks, new) /\ UNCHANGED <<mempool, lastRow>>
  BY <1>2, <1>3 DEF AppendBlock
<1>5. \/ pc'[p] = "idle" /\ job'[p].rows = <<>>
      \/ pc'[p] = "deltas"
  BY <1>2, <1>3 DEF AppendBlock, Return, Goto, NoJob, TypeOK
<1>6. new.rows = job[p].rows /\ new.previous = n
  BY <1>2
<1> HIDE DEF new
<1>7. /\ DOMAIN blocks' = 1..(n + 1) /\ blocks'[n + 1] = new
      /\ \A b \in 1..n : blocks'[b] = blocks[b]
  BY <1>3, <1>4, AppendProperties, LenProperties
<1>8. AtTheEnd'
  <2>1. LinksHold'
    BY <1>3, <1>6, <1>7 DEF AtTheEnd, LinksHold
  <2> QED
    BY <1>1, <1>5, <2>1 DEF AtTheEnd, Mining, At
<1>9. \A b \in DOMAIN blocks' : \/ b \in DOMAIN blocks /\ blocks'[b] = blocks[b]
                                \/ b = n + 1 /\ blocks'[b].rows = job[p].rows
  BY <1>3, <1>6, <1>7
<1>10. RowsApart'
  <2>1. \A b \in DOMAIN blocks' : \A i \in DOMAIN blocks'[b].rows : blocks'[b].rows[i].id \in 1..lastRow'
    BY <1>2, <1>4, <1>9 DEF RowsApart, Fresh
  <2>2. ConfirmedOnce'
    <3> SUFFICES ASSUME NEW b \in DOMAIN blocks', NEW c \in DOMAIN blocks',
                        NEW i \in DOMAIN blocks'[b].rows, NEW k \in DOMAIN blocks'[c].rows,
                        blocks'[b].rows[i].id = blocks'[c].rows[k].id
                 PROVE  b = c /\ i = k
      BY DEF ConfirmedOnce
    <3>1. CASE b \in DOMAIN blocks /\ c \in DOMAIN blocks
      BY <1>3, <1>7, <3>1 DEF RowsApart, ConfirmedOnce
    <3>2. CASE b \notin DOMAIN blocks /\ c \notin DOMAIN blocks
      BY <1>2, <1>9, <3>2 DEF Fresh
    <3>3. CASE b \in DOMAIN blocks /\ c \notin DOMAIN blocks
      BY <1>2, <1>3, <1>7, <1>9, <3>3 DEF Fresh
    <3>4. CASE b \notin DOMAIN blocks /\ c \in DOMAIN blocks
      BY <1>2, <1>3, <1>7, <1>9, <3>4 DEF Fresh
    <3> QED
      BY <3>1, <3>2, <3>3, <3>4
  <2>3. Fresh(mempool)'
    BY <1>2, <1>4 DEF Fresh
  <2> QED
    BY <1>1, <1>5, <2>1, <2>2, <2>3 DEF RowsApart, At
<1> QED
  BY <1>3, <1>6, <1>7, <1>8, <1>10

LEMMA NextAlone == OneProcess /\ TypeOK /\ AtTheEnd /\ RowsApart /\ [Next]_vars => AtTheEnd' /\ RowsApart'
<1> SUFFICES ASSUME OneProcess, TypeOK, AtTheEnd, RowsApart, [Next]_vars PROVE AtTheEnd' /\ RowsApart'
  OBVIOUS
<1>1. \A p, q \in Process : p = q
  BY DEF OneProcess
<1>2. ASSUME NEW p \in Process, Return(p), UNCHANGED <<mempool, lastRow, blocks>>
      PROVE  AtTheEnd' /\ RowsApart'
  <2>1. pc'[p] = "idle" /\ job'[p].rows = <<>>
    BY <1>2 DEF Return, Goto, NoJob, TypeOK
  <2> QED
    BY <1>2, <2>1, HandsOnly
<1>3. ASSUME NEW p \in Process, NEW tx, job' = [job EXCEPT ![p].tx = tx], pc[p] = "idle",
             Goto(p, "reserve") \/ Goto(p, "insert"), UNCHANGED <<mempool, lastRow, blocks>>
      PROVE  AtTheEnd' /\ RowsApart'
  <2>1. pc'[p] \in {"reserve", "insert"} /\ job'[p].rows = <<>>
    BY <1>3 DEF Goto, RowsApart, TypeOK, Job
  <2> QED
    BY <1>3, <2>1, HandsOnly
<1>4. ASSUME NEW p \in Process, ReserveNonce(p) PROVE AtTheEnd' /\ RowsApart'
  <2>1. UNCHANGED <<mempool, lastRow, blocks>> /\ pc[p] = "reserve"
    BY <1>4 DEF ReserveNonce
  <2>2. CASE Goto(p, "insert") /\ UNCHANGED job
    <3>1. pc'[p] = "insert" /\ job'[p].rows = <<>>
      BY <2>1, <2>2 DEF Goto, RowsApart, TypeOK
    <3> QED
      BY <2>1, <3>1, HandsOnly
  <2> QED
    BY <1>2, <1>4, <2>1, <2>2 DEF ReserveNonce
<1>5. ASSUME NEW p \in Process, InsertPending(p) PROVE AtTheEnd' /\ RowsApart'
  <2>1. job[p].tx \in Tx /\ InsertRow(job[p].tx) /\ UNCHANGED blocks /\ Return(p)
    BY <1>5, JobType DEF InsertPending
  <2>2. pc'[p] = "idle" /\ job'[p].rows = <<>>
    BY <2>1 DEF Return, Goto, NoJob, TypeOK
  <2> QED
    BY <2>1, <2>2, RowInserted
<1>6. ASSUME NEW p \in Process, SubmitLegacy(p) PROVE AtTheEnd' /\ RowsApart'
  <2>1. InsertRow(LegacyTx) /\ UNCHANGED <<blocks, pc, job>> /\ pc'[p] = "idle" /\ job'[p].rows = <<>>
    BY <1>6 DEF SubmitLegacy, RowsApart
  <2> QED
    BY <2>1, RowInserted, EmptyHands
<1>7. ASSUME NEW p \in Process, ReadLast(p) PROVE AtTheEnd' /\ RowsApart'
  <2>1. pc'[p] = "select" /\ job'[p].rows = <<>> /\ job'[p].previous = Len(blocks)
    BY <1>7 DEF ReadLast, Goto, RowsApart, TypeOK, Job
  <2> QED
    BY <1>7, <2>1, HandsOnly DEF ReadLast
<1>8. ASSUME NEW p \in Process, SelectPending(p) PROVE AtTheEnd' /\ RowsApart'
  <2>1. pc'[p] = "delete" /\ job'[p].rows = mempool /\ job'[p].previous = job[p].previous
    BY <1>8 DEF SelectPending, Goto, TypeOK, Job
  <2>2. job[p].previous = Len(blocks)
    BY <1>8 DEF SelectPending, AtTheEnd, Mining, At
  <2> QED
    BY <1>8, <2>1, <2>2, HandsOnly DEF SelectPending
<1>9. ASSUME NEW p \in Process, DeletePending(p) PROVE AtTheEnd' /\ RowsApart'
  <2>1. pc'[p] = "count" /\ mempool' = <<>> /\ UNCHANGED <<job, blocks, lastRow>>
    BY <1>9 DEF DeletePending, Goto, TypeOK
  <2>2. job[p].previous = Len(blocks) /\ job[p].rows = mempool /\ Fresh(mempool)
    BY <1>9 DEF DeletePending, AtTheEnd, RowsApart, Mining, At
  <2>3. AtTheEnd'
    BY <1>1, <2>1, <2>2 DEF AtTheEnd, LinksHold, Mining, At
  <2>4. Fresh(mempool)' /\ Fresh(job[p].rows)'
    BY <2>1, <2>2 DEF Fresh
  <2>5. RowsApart'
    BY <1>1, <2>1, <2>2, <2>4 DEF RowsApart, ConfirmedOnce, At
  <2> QED
    BY <2>3, <2>5
<1>10. ASSUME NEW p \in Process, CountBlocks(p) PROVE AtTheEnd' /\ RowsApart'
  <2>1. /\ pc'[p] = "append" /\ job'[p].rows = job[p].rows /\ job'[p].previous = job[p].previous
        /\ job'[p].index = Len(blocks) + 1
    BY <1>10 DEF CountBlocks, Goto, TypeOK, Job
  <2>2. job[p].previous = Len(blocks) /\ mempool = <<>> /\ Fresh(job[p].rows)
    BY <1>10 DEF CountBlocks, AtTheEnd, RowsApart, Mining, At
  <2> QED
    BY <1>10, <2>1, <2>2, HandsOnly DEF CountBlocks
<1>11. ASSUME NEW p \in Process, ApplyDelta(p) PROVE AtTheEnd' /\ RowsApart'
  <2>1. CASE job' = [job EXCEPT ![p].done = @ + 1] /\ UNCHANGED pc
    <3>1. pc'[p] = "deltas"
      BY <1>11, <2>1 DEF ApplyDelta
    <3> QED
      BY <1>11, <3>1, HandsOnly DEF ApplyDelta
  <2> QED
    BY <1>2, <1>11, <2>1 DEF ApplyDelta
<1>12. CASE UNCHANGED <<mempool, lastRow, blocks, pc, job>>
  BY <1>12 DEF AtTheEnd, RowsApart, LinksHold, Fresh, ConfirmedOnce, Mining, At
<1> QED
  BY <1>2, <1>3, <1>4, <1>5, <1>6, <1>7, <1>8, <1>9, <1>10, <1>11, <1>12, BlockAppended
  DEF Next, CreateWallet, SetFrozen, CheckTransfer, CheckMint, AbortDeltas, Crash, vars

\* With one process the chain is linked: each block names the one before it.
THEOREM LoneMinerLinks == ASSUME OneProcess PROVE Spec => []LinksHold
<1>1. AtTheEnd => LinksHold
  BY DEF AtTheEnd
<1>2. TypeOK /\ AtTheEnd /\ RowsApart /\ [Next]_vars => AtTheEnd' /\ RowsApart'
  BY NextAlone
<1> QED
  BY <1>1, <1>2, InitAlone, PgTypeCorrect, PTL DEF Spec

\* With one process no row reaches the chain twice, wherever it dies.
THEOREM LoneMinerConfirmsOnce == ASSUME OneProcess PROVE Spec => []ConfirmedOnce
<1>1. RowsApart => ConfirmedOnce
  BY DEF RowsApart
<1>2. TypeOK /\ AtTheEnd /\ RowsApart /\ [Next]_vars => AtTheEnd' /\ RowsApart'
  BY NextAlone
<1> QED
  BY <1>1, <1>2, InitAlone, PgTypeCorrect, PTL DEF Spec

\* What a lone process that does not die lets go of is in the mempool or in the
\* chain.
LEMMA RowsStay ==
  ASSUME OneProcess, ~MayCrash, TypeOK, AtTheEnd, RowsApart, [Next]_vars
  PROVE  /\ Rows \subseteq Rows'
         /\ \/ lastRow' = lastRow
            \/ lastRow' = lastRow + 1 /\ \E x \in Rows' : x.id = lastRow'
<1> DEFINE Stay == Rows \subseteq Rows' /\ lastRow' = lastRow
<1>1. RowsOf(<<>>) = {}
  BY DEF RowsOf
<1>2. ASSUME NEW p \in Process PROVE \A q \in Process : q = p
  BY DEF OneProcess
<1>3. ASSUME NEW p \in Process, UNCHANGED <<mempool, lastRow, blocks>>,
             \/ job'[p].rows = job[p].rows
             \/ RowsOf(job[p].rows) \subseteq Confirmed \cup RowsOf(mempool)
      PROVE  Stay
  <2>1. Confirmed' = Confirmed
    BY <1>3 DEF Confirmed
  <2>2. Flushed = RowsOf(job[p].rows) /\ Flushed' = RowsOf(job'[p].rows)
    BY <1>2 DEF Flushed
  <2> QED
    BY <1>3, <2>1, <2>2 DEF Rows
<1>4. ASSUME NEW p \in Process, pc[p] = "deltas"
      PROVE  RowsOf(job[p].rows) \subseteq Confirmed
  BY <1>4 DEF TypeOK, Confirmed
<1>5. ASSUME NEW p \in Process, pc[p] \in {"idle", "reserve", "insert", "select"}
      PROVE  RowsOf(job[p].rows) = {}
  BY <1>1, <1>5 DEF RowsApart
<1>6. ASSUME NEW p \in Process, NEW tx \in Tx, InsertRow(tx), UNCHANGED blocks,
             RowsOf(job[p].rows) = {}
      PROVE  /\ Rows \subseteq Rows'
             /\ lastRow' = lastRow + 1 /\ \E x \in Rows' : x.id = lastRow'
  <2> DEFINE new == [id |-> lastRow', tx |-> tx]
  <2>1. /\ lastRow' = lastRow + 1 /\ mempool' = Append(mempool, new)
        /\ mempool \in Seq(Row) /\ new \in Row /\ new.id = lastRow'
    BY <1>6 DEF InsertRow, TypeOK, Row
  <2> HIDE DEF new
  <2>2. RowsOf(mempool') = RowsOf(mempool) \cup {new}
    BY <2>1, AppendProperties, LenProperties DEF RowsOf
  <2>3. Flushed = {} /\ Confirmed' = Confirmed
    BY <1>2, <1>6 DEF Flushed, Confirmed
  <2> QED
    BY <2>1, <2>2, <2>3 DEF Rows
<1>7. ASSUME NEW p \in Process, InsertPending(p) \/ SubmitLegacy(p)
      PROVE  /\ Rows \subseteq Rows'
             /\ lastRow' = lastRow + 1 /\ \E x \in Rows' : x.id = lastRow'
  <2>1. RowsOf(job[p].rows) = {}
    BY <1>5, <1>7 DEF InsertPending, SubmitLegacy
  <2> QED
    BY <1>6, <1>7, <2>1, JobType, EmptyHands DEF InsertPending, SubmitLegacy
<1>8. ASSUME NEW p \in Process, ReserveNonce(p) PROVE Stay
  BY <1>3, <1>5, <1>8 DEF ReserveNonce
<1>9. ASSUME NEW p \in Process, DeletePending(p) PROVE Stay
  <2>1. /\ job[p].rows = mempool /\ mempool' = <<>>
        /\ UNCHANGED <<job, blocks, lastRow>>
    BY <1>9 DEF DeletePending, RowsApart, At
  <2>2. Flushed = RowsOf(mempool) /\ Flushed' = Flushed /\ Confirmed' = Confirmed
    BY <1>2, <2>1 DEF Flushed, Confirmed
  <2> QED
    BY <2>1, <2>2 DEF Rows
<1>10. ASSUME NEW p \in Process, CountBlocks(p) PROVE Stay
  <2>1. job'[p].rows = job[p].rows
    BY <1>10 DEF CountBlocks, TypeOK, Job
  <2> QED
    BY <1>3, <1>10, <2>1 DEF CountBlocks
<1>11. ASSUME NEW p \in Process, AppendBlock(p) PROVE Stay
  <2>1. /\ \A b \in DOMAIN blocks : b \in DOMAIN blocks' /\ blocks'[b] = blocks[b]
        /\ Len(blocks) + 1 \in DOMAIN blocks'
        /\ blocks'[Len(blocks) + 1].rows = job[p].rows
    BY <1>11, BlockAppended
  <2>2. Confirmed \subseteq Confirmed' /\ RowsOf(job[p].rows) \subseteq Confirmed'
    BY <2>1 DEF Confirmed
  <2>3. Flushed = RowsOf(job[p].rows)
    BY <1>2 DEF Flushed
  <2> QED
    BY <1>11, <2>2, <2>3 DEF Rows, AppendBlock
<1>12. ASSUME NEW p \in Process, ApplyDelta(p) \/ AbortDeltas(p) PROVE Stay
  BY <1>3, <1>4, <1>12 DEF ApplyDelta, AbortDeltas
<1>13. ASSUME NEW p \in Process, pc[p] \in {"idle", "select"}, UNCHANGED <<mempool, lastRow, blocks>>
       PROVE  Stay
  BY <1>3, <1>5, <1>13
<1>14. CASE UNCHANGED vars
  BY <1>14 DEF vars, Rows, Flushed, Confirmed
<1> HIDE DEF Stay
<1>15. ASSUME Next PROVE Stay \/ \E p \in Process : InsertPending(p) \/ SubmitLegacy(p)
  BY <1>8, <1>9, <1>10, <1>11, <1>12, <1>13, <1>15
  DEF Next, CreateWallet, SetFrozen, CheckTransfer, CheckMint, ReadLast, SelectPending, Crash
<1> QED
  BY <1>7, <1>14, <1>15 DEF Stay

\* A lone process that does not die loses no transaction that was admitted.
THEOREM LoneMinerLosesNothing ==
  ASSUME OneProcess, ~MayCrash
  PROVE  Spec => []NothingLost
<1>1. Init => NothingLost
  <2>1. ASSUME Init PROVE lastRow = 0
    BY <2>1 DEF Init
  <2> QED
    BY <2>1 DEF NothingLost
<1>2. /\ TypeOK /\ AtTheEnd /\ RowsApart /\ [Next]_vars => AtTheEnd' /\ RowsApart'
  BY NextAlone
<1>3. TypeOK /\ AtTheEnd /\ RowsApart /\ NothingLost /\ [Next]_vars => NothingLost'
  <2> SUFFICES ASSUME TypeOK, AtTheEnd, RowsApart, NothingLost, [Next]_vars,
                      NEW i \in 1..lastRow'
               PROVE  \E row \in Rows' : row.id = i
    BY DEF NothingLost
  <2>1. /\ Rows \subseteq Rows'
        /\ \/ lastRow' = lastRow
           \/ lastRow' = lastRow + 1 /\ \E x \in Rows' : x.id = lastRow'
    BY RowsStay
  <2>2. lastRow \in Nat
    BY DEF TypeOK
  <2>3. \A k \in 1..lastRow : \E row \in Rows : row.id = k
    BY DEF NothingLost
  <2>4. i \in 1..lastRow \/ (i = lastRow' /\ lastRow' = lastRow + 1)
    BY <2>1, <2>2
  <2> QED
    BY <2>1, <2>3, <2>4
<1> QED
  BY <1>1, <1>2, <1>3, InitAlone, PgTypeCorrect, PTL DEF Spec

-----------------------------------------------------------------------------
(* One process behaves as the node in memory *)

\* The transactions of rows.
LEMMA TxsProperties ==
  /\ Txs(<<>>) = <<>>
  /\ \A rows \in Seq(Row) : /\ Txs(rows) \in Seq(Tx) /\ Len(Txs(rows)) = Len(rows)
                            /\ \A i \in 1..Len(rows) : Txs(rows)[i] = rows[i].tx
  /\ \A rows \in Seq(Row), x \in Row : Txs(Append(rows, x)) = Append(Txs(rows), x.tx)
<1>1. Txs(<<>>) = <<>>
  BY DEF Txs
<1>2. ASSUME NEW rows \in Seq(Row)
      PROVE  /\ Txs(rows) \in Seq(Tx) /\ Len(Txs(rows)) = Len(rows)
             /\ \A i \in 1..Len(rows) : Txs(rows)[i] = rows[i].tx
  <2>1. Len(rows) \in Nat /\ DOMAIN rows = 1..Len(rows)
    BY LenProperties
  <2>2. ASSUME NEW i \in 1..Len(rows) PROVE rows[i].tx \in Tx
    <3>1. rows[i] \in Row
      BY ElementOfSeq
    <3> QED
      BY <3>1 DEF Row
  <2>3. Txs(rows) = [i \in 1..Len(rows) |-> rows[i].tx]
    BY <2>1 DEF Txs
  <2>4. Txs(rows) \in [1..Len(rows) -> Tx]
    BY <2>2, <2>3
  <2>5. Txs(rows) \in Seq(Tx)
    BY <2>1, <2>4, SeqDef
  <2>6. Len(Txs(rows)) = Len(rows)
    BY <2>1, <2>4, <2>5, LenProperties
  <2> QED
    BY <2>3, <2>5, <2>6
<1>3. ASSUME NEW rows \in Seq(Row), NEW x \in Row
      PROVE  Txs(Append(rows, x)) = Append(Txs(rows), x.tx)
  <2>1. Append(rows, x) \in Seq(Row) /\ x.tx \in Tx /\ Len(rows) \in Nat
    BY AppendProperties, LenProperties DEF Row
  <2> DEFINE long == Append(rows, x)
             short == Txs(rows)
  <2>2. /\ Len(long) = Len(rows) + 1
        /\ \A i \in 1..Len(long) : long[i] = IF i <= Len(rows) THEN rows[i] ELSE x
    BY AppendProperties, LenProperties
  <2>3. /\ Append(short, x.tx) \in Seq(Tx) /\ Len(Append(short, x.tx)) = Len(rows) + 1
        /\ \A i \in 1..(Len(rows) + 1) :
             Append(short, x.tx)[i] = IF i <= Len(rows) THEN short[i] ELSE x.tx
    <3>1. short \in Seq(Tx) /\ Len(short) = Len(rows)
      BY <1>2
    <3> HIDE DEF short
    <3> QED
      BY <2>1, <3>1, AppendProperties
  <2>4. /\ Txs(long) \in Seq(Tx) /\ Len(Txs(long)) = Len(rows) + 1
        /\ \A i \in 1..(Len(rows) + 1) : Txs(long)[i] = IF i <= Len(rows) THEN short[i] ELSE x.tx
    <3>1. /\ Txs(long) \in Seq(Tx) /\ Len(Txs(long)) = Len(long)
          /\ \A i \in 1..Len(long) : Txs(long)[i] = long[i].tx
      BY <1>2, <2>1
    <3>2. \A i \in 1..Len(rows) : short[i] = rows[i].tx
      BY <1>2
    <3> HIDE DEF long, short
    <3> QED
      BY <2>1, <2>2, <3>1, <3>2
  <2> HIDE DEF long, short
  <2>5. Txs(long) = Append(short, x.tx)
    BY <2>1, <2>3, <2>4, SeqEqual
  <2> QED
    BY <2>5 DEF long, short
<1> QED
  BY <1>1, <1>2, <1>3

\* What counts as pending is decided by what the one process does next.
PendingFollows ==
  \A p \in Process :
    /\ pc[p] \in {"count", "append"} /\ mempool = <<>> => Pending = Txs(job[p].rows)
    /\ pc[p] = "insert" => Pending = Append(Txs(mempool), job[p].tx)
    /\ pc[p] \notin {"count", "append", "insert"} => Pending = Txs(mempool)

LEMMA PendingIs == OneProcess /\ TypeOK => PendingFollows
<1> SUFFICES ASSUME OneProcess, TypeOK, NEW p \in Process
             PROVE  /\ pc[p] \in {"count", "append"} /\ mempool = <<>> => Pending = Txs(job[p].rows)
                    /\ pc[p] = "insert" => Pending = Append(Txs(mempool), job[p].tx)
                    /\ pc[p] \notin {"count", "append", "insert"} => Pending = Txs(mempool)
  BY DEF PendingFollows
<1>1. \A q \in Process : q = p
  BY DEF OneProcess
<1>2. \A l : At(l) = IF pc[p] = l THEN {p} ELSE {}
  BY <1>1 DEF At
<1>3. (CHOOSE q \in {p} : TRUE) = p
  OBVIOUS
<1>4. mempool \in Seq(Row) /\ job[p].rows \in Seq(Row) /\ job[p].tx \in Tx
  BY JobType DEF TypeOK
<1>5. \A rows \in Seq(Row) : Txs(rows) \in Seq(Tx) /\ Txs(rows) \o <<>> = Txs(rows)
  BY TxsProperties, ConcatEmptySeq
<1>6. <<>> \o mempool = mempool /\ job[p].rows \o <<>> = job[p].rows
  BY <1>4, ConcatEmptySeq
<1>7. CASE pc[p] \in {"count", "append"}
  <2>1. At("count") \cup At("append") = {p} /\ At("insert") = {}
    BY <1>2, <1>7
  <2>2. RowsBeingMined = job[p].rows /\ BeingInserted = <<>>
    BY <1>3, <2>1 DEF RowsBeingMined, BeingInserted
  <2> QED
    BY <1>4, <1>5, <1>6, <1>7, <2>2 DEF Pending
<1>8. CASE pc[p] = "insert"
  <2>1. At("count") \cup At("append") = {} /\ At("insert") = {p}
    BY <1>2, <1>8
  <2>2. RowsBeingMined = <<>> /\ BeingInserted = << job[p].tx >>
    BY <1>3, <2>1 DEF RowsBeingMined, BeingInserted
  <2>3. Txs(mempool) \o << job[p].tx >> = Append(Txs(mempool), job[p].tx)
    BY <1>4, <1>5
  <2> QED
    BY <1>6, <1>8, <2>2, <2>3 DEF Pending
<1>9. CASE pc[p] \notin {"count", "append", "insert"}
  <2>1. At("count") \cup At("append") = {} /\ At("insert") = {}
    BY <1>2, <1>9
  <2>2. RowsBeingMined = <<>> /\ BeingInserted = <<>>
    BY <2>1 DEF RowsBeingMined, BeingInserted
  <2> QED
    BY <1>4, <1>5, <1>6, <1>9, <2>2 DEF Pending
<1> QED
  BY <1>7, <1>8, <1>9

\* What the chain of the node in memory corresponds to.
LEMMA ChainIs ==
  TypeOK => /\ Chain \in Seq(Seq(Tx)) /\ Len(Chain) = Len(blocks)
            /\ DOMAIN Chain = DOMAIN blocks
            /\ \A b \in DOMAIN blocks : Chain[b] = Txs(blocks[b].rows)
<1> SUFFICES ASSUME TypeOK
             PROVE  /\ Chain \in Seq(Seq(Tx)) /\ Len(Chain) = Len(blocks)
                    /\ DOMAIN Chain = DOMAIN blocks
                    /\ \A b \in DOMAIN blocks : Chain[b] = Txs(blocks[b].rows)
  OBVIOUS
<1>1. Len(blocks) \in Nat /\ DOMAIN blocks = 1..Len(blocks)
  BY BlockType
<1>2. Chain = [b \in 1..Len(blocks) |-> Txs(blocks[b].rows)]
  BY <1>1 DEF Chain
<1>3. \A b \in 1..Len(blocks) : Txs(blocks[b].rows) \in Seq(Tx)
  BY <1>1, BlockType, TxsProperties
<1>4. Chain \in [1..Len(blocks) -> Seq(Tx)]
  BY <1>2, <1>3
<1>5. Chain \in Seq(Seq(Tx))
  BY <1>1, <1>4, SeqDef
<1> QED
  BY <1>1, <1>2, <1>4, <1>5, LenProperties

\* A transfer that passes the checks of build_transaction.
Payable(tx) ==
  \E s, r \in WalletId, a \in Amounts, n \in 1..MaxNonce : \E net \in Quotes(s, r, a) :
    /\ tx = SignedTx(s, r, a, net, n)
    /\ s # r /\ s \in wallets /\ r \in wallets
    /\ ~frozen[s] /\ ~frozen[r]
    /\ balance[s] >= a

\* What a handler has found out stays true until the lone process acts on it:
\* the transfer is still payable when its nonce is reserved, there is still
\* room for it and for the block, and the block it applies is the last one.
FindingsHold ==
  /\ Len(mempool) <= lastRow
  /\ \A p \in At("reserve") : Payable(job[p].tx) /\ lastRow < MaxAdmitted
  /\ \A p \in Mining : Len(blocks) < MaxBlocks
  /\ \A p \in At("deltas") : job[p].index = Len(blocks)

LEMMA RoomLeft ==
  ASSUME OneProcess, TypeOK, FindingsHold, NEW p \in Process, pc[p] = "idle"
  PROVE  /\ Room => lastRow < MaxAdmitted /\ Len(mempool) < MaxAdmitted
         /\ Len(blocks) + Cardinality(Mining) < MaxBlocks => Len(blocks) < MaxBlocks
<1>1. Submitting = {} /\ Mining = {}
  BY DEF OneProcess, Submitting, Mining, At
<1>2. Cardinality(Submitting) = 0 /\ Cardinality(Mining) = 0
  BY <1>1, FS_EmptySet
<1>3. lastRow \in Nat /\ Len(mempool) \in Nat /\ Len(blocks) \in Nat /\ Len(mempool) <= lastRow
  BY BlockType, LenProperties DEF TypeOK, FindingsHold
<1> QED
  BY <1>2, <1>3, PgAssumption DEF Room

LEMMA InitFindings == Init => FindingsHold
<1> SUFFICES ASSUME Init PROVE FindingsHold
  OBVIOUS
<1>1. \A p \in Process : pc[p] = "idle"
  BY DEF Init
<1>2. Len(mempool) <= lastRow
  BY DEF Init
<1> QED
  BY <1>1, <1>2 DEF FindingsHold, Mining, At

LEMMA NextFindings ==
  OneProcess /\ TypeOK /\ AtTheEnd /\ RowsApart /\ FindingsHold /\ [Next]_vars => FindingsHold'
<1> SUFFICES ASSUME OneProcess, TypeOK, AtTheEnd, RowsApart, FindingsHold, [Next]_vars
             PROVE  FindingsHold'
  OBVIOUS
<1>1. \A p, q \in Process : p = q
  BY DEF OneProcess
<1>2. Len(mempool) \in Nat /\ Len(blocks) \in Nat /\ lastRow \in Nat /\ Len(mempool) <= lastRow
  BY BlockType, LenProperties DEF TypeOK, FindingsHold
<1>3. ASSUME NEW p \in Process, pc'[p] \in {"idle", "insert"}, UNCHANGED <<mempool, lastRow>>
      PROVE  FindingsHold'
  BY <1>1, <1>2, <1>3 DEF FindingsHold, Mining, At
<1>4. ASSUME NEW p \in Process, Return(p), UNCHANGED <<mempool, lastRow>> PROVE FindingsHold'
  <2>1. pc'[p] = "idle"
    BY <1>4 DEF Return, Goto, TypeOK
  <2> QED
    BY <1>3, <1>4, <2>1
<1>5. ASSUME NEW p \in Process, UNCHANGED <<mempool, lastRow, blocks>>,
             pc'[p] \in {"select", "delete", "count", "append"}, Len(blocks) < MaxBlocks
      PROVE  FindingsHold'
  BY <1>1, <1>2, <1>5 DEF FindingsHold, Mining, At
<1>6. ASSUME NEW p \in Process, NEW w \in WalletId, CreateWallet(p, w) PROVE FindingsHold'
  BY <1>3, <1>6 DEF CreateWallet
<1>7. ASSUME NEW p \in Process, NEW w \in WalletId, NEW flag \in BOOLEAN, SetFrozen(p, w, flag)
      PROVE  FindingsHold'
  BY <1>3, <1>7 DEF SetFrozen
<1>8. ASSUME NEW p \in Process, NEW s \in WalletId, NEW r \in WalletId, NEW a \in Amounts,
             NEW n \in 1..MaxNonce, NEW net \in Quotes(s, r, a), CheckTransfer(p, s, r, a, net, n)
      PROVE  FindingsHold'
  <2>1. pc'[p] = "reserve" /\ job'[p].tx = SignedTx(s, r, a, net, n)
    BY <1>8 DEF CheckTransfer, Goto, TypeOK, Job
  <2>2. lastRow < MaxAdmitted
    BY <1>8, RoomLeft DEF CheckTransfer
  <2>3. Payable(SignedTx(s, r, a, net, n))'
    BY <1>8 DEF CheckTransfer, Payable
  <2>4. Payable(job[p].tx)'
    BY <2>1, <2>3 DEF Payable
  <2> QED
    BY <1>1, <1>2, <1>8, <2>1, <2>2, <2>4 DEF CheckTransfer, FindingsHold, Mining, At
<1>9. ASSUME NEW p \in Process, ReserveNonce(p) PROVE FindingsHold'
  <2>1. pc'[p] \in {"idle", "insert"} /\ UNCHANGED <<mempool, lastRow>>
    BY <1>9 DEF ReserveNonce, Return, Goto, TypeOK
  <2> QED
    BY <1>3, <2>1
<1>10. ASSUME NEW p \in Process, NEW w \in WalletId, NEW a \in Amounts, CheckMint(p, w, a)
       PROVE  FindingsHold'
  <2>1. pc'[p] = "insert" /\ UNCHANGED <<mempool, lastRow>>
    BY <1>10 DEF CheckMint, Goto, TypeOK
  <2> QED
    BY <1>3, <2>1
<1>11. ASSUME NEW p \in Process, InsertPending(p) \/ SubmitLegacy(p) PROVE FindingsHold'
  <2>1. pc'[p] = "idle"
    BY <1>11 DEF InsertPending, SubmitLegacy, Return, Goto, TypeOK
  <2>2. PICK tx \in Tx : InsertRow(tx)
    BY <1>11, JobType, EmptyHands DEF InsertPending, SubmitLegacy
  <2>3. Len(mempool') = Len(mempool) + 1 /\ lastRow' = lastRow + 1
    <3>1. [id |-> lastRow', tx |-> tx] \in Row
      BY <1>2, <2>2 DEF InsertRow, Row
    <3> QED
      BY <2>2, <3>1, AppendProperties DEF InsertRow, TypeOK
  <2> QED
    BY <1>1, <1>2, <2>1, <2>3 DEF FindingsHold, Mining, At
<1>12. ASSUME NEW p \in Process, ReadLast(p) PROVE FindingsHold'
  <2>1. pc'[p] = "select" /\ Len(blocks) < MaxBlocks /\ UNCHANGED <<mempool, lastRow, blocks>>
    BY <1>12, RoomLeft DEF ReadLast, Goto, TypeOK
  <2> QED
    BY <1>5, <2>1
<1>13. ASSUME NEW p \in Process, SelectPending(p) \/ CountBlocks(p) PROVE FindingsHold'
  <2>1. pc'[p] \in {"delete", "append"} /\ UNCHANGED <<mempool, lastRow, blocks>>
    BY <1>13 DEF SelectPending, CountBlocks, Goto, TypeOK
  <2>2. Len(blocks) < MaxBlocks
    BY <1>13 DEF SelectPending, CountBlocks, FindingsHold, Mining, At
  <2> QED
    BY <1>5, <2>1, <2>2
<1>14. ASSUME NEW p \in Process, DeletePending(p) PROVE FindingsHold'
  <2>1. pc'[p] = "count" /\ mempool' = <<>> /\ UNCHANGED <<lastRow, blocks>>
    BY <1>14 DEF DeletePending, Goto, TypeOK
  <2>2. Len(blocks) < MaxBlocks
    BY <1>14 DEF DeletePending, FindingsHold, Mining, At
  <2> QED
    BY <1>1, <1>2, <2>1, <2>2 DEF FindingsHold, Mining, At
<1>15. ASSUME NEW p \in Process, AppendBlock(p) PROVE FindingsHold'
  <2>1. CASE Return(p)
    BY <1>4, <1>15, <2>1 DEF AppendBlock
  <2>2. CASE Goto(p, "deltas") /\ UNCHANGED job
    <3>1. pc'[p] = "deltas" /\ job'[p].index = Len(blocks) + 1 /\ UNCHANGED <<mempool, lastRow>>
      BY <1>15, <2>2 DEF AppendBlock, Goto, AtTheEnd, At, TypeOK
    <3>2. Len(blocks') = Len(blocks) + 1
      <4>1. Len(blocks) + 1 \notin DOMAIN blocks
        BY <1>2, BlockType
      <4>2. blocks' = Append(blocks, [previous |-> job[p].previous, rows |-> job[p].rows])
        BY <1>15, <2>2, <3>1, <4>1 DEF AppendBlock
      <4>3. [previous |-> job[p].previous, rows |-> job[p].rows] \in Block
        BY JobType DEF Block
      <4> QED
        BY <4>2, <4>3, AppendProperties DEF TypeOK
    <3> QED
      BY <1>1, <1>2, <3>1, <3>2 DEF FindingsHold, Mining, At
  <2> QED
    BY <1>15, <2>1, <2>2 DEF AppendBlock
<1>16. ASSUME NEW p \in Process, ApplyDelta(p) PROVE FindingsHold'
  <2>1. CASE job' = [job EXCEPT ![p].done = @ + 1] /\ UNCHANGED pc
    <3>1. pc'[p] = "deltas" /\ job'[p].index = job[p].index /\ job[p].index = Len(blocks)
      BY <1>16, <2>1 DEF ApplyDelta, FindingsHold, At, TypeOK, Job
    <3> QED
      BY <1>1, <1>2, <1>16, <3>1 DEF ApplyDelta, FindingsHold, Mining, At
  <2> QED
    BY <1>4, <1>16, <2>1 DEF ApplyDelta
<1>17. ASSUME NEW p \in Process, AbortDeltas(p) \/ Crash(p) PROVE FindingsHold'
  BY <1>4, <1>17 DEF AbortDeltas, Crash
<1>18. CASE UNCHANGED vars
  BY <1>18 DEF vars, FindingsHold, Payable, Mining, At
<1> QED
  BY <1>6, <1>7, <1>8, <1>9, <1>10, <1>11, <1>12, <1>13, <1>14, <1>15, <1>16, <1>17, <1>18 DEF Next

\* The state of the node in memory that a state corresponds to, before and
\* after a step.
LEMMA MappedState ==
  ASSUME OneProcess, TypeOK, NEW p \in Process
  PROVE  /\ Applying <=> pc[p] = "deltas"
         /\ pc[p] \in {"count", "append"} /\ mempool = <<>> => Pending = Txs(job[p].rows)
         /\ pc[p] = "insert" => Pending = Append(Txs(mempool), job[p].tx)
         /\ pc[p] \notin {"count", "append", "insert"} => Pending = Txs(mempool)
         /\ Len(Txs(mempool)) = Len(mempool) /\ Txs(mempool) \in Seq(Tx)
<1>1. Applying <=> pc[p] = "deltas"
  BY DEF OneProcess, Applying, At
<1> QED
  BY <1>1, PendingIs, TxsProperties DEF TypeOK, PendingFollows

LEMMA MappedStateAfter ==
  ASSUME OneProcess, TypeOK', NEW p \in Process
  PROVE  /\ (Applying <=> pc[p] = "deltas")'
         /\ pc'[p] \in {"count", "append"} /\ mempool' = <<>> => Pending' = Txs(job'[p].rows)
         /\ pc'[p] = "insert" => Pending' = Append(Txs(mempool'), job'[p].tx)
         /\ pc'[p] \notin {"count", "append", "insert"} => Pending' = Txs(mempool')
<1>1. OneProcess' /\ TypeOK' => PendingFollows'
  BY PendingIs, PTL
<1>2. (Applying <=> pc[p] = "deltas")'
  BY DEF OneProcess, Applying, At
<1> QED
  BY <1>1, <1>2 DEF OneProcess, PendingFollows

LEMMA InitMaps == OneProcess /\ Init => InMemory!Init
<1> SUFFICES ASSUME OneProcess, Init PROVE InMemory!Init
  OBVIOUS
<1>1. \A p \in Process : pc[p] = "idle"
  BY DEF Init
<1>2. \A l : l # "idle" => At(l) = {}
  BY <1>1 DEF At
<1>3. RowsBeingMined = <<>> /\ BeingInserted = <<>> /\ ~Applying
  BY <1>2 DEF RowsBeingMined, BeingInserted, Applying
<1>4. Pending = <<>>
  BY <1>3, TxsProperties, EmptySeq, ConcatEmptySeq DEF Pending, Init
<1>5. Chain = << <<>> >>
  <2>1. blocks = << Genesis >> /\ DOMAIN blocks = {1}
    BY DEF Init
  <2>2. Chain = [b \in {1} |-> <<>>]
    BY <2>1, TxsProperties DEF Chain, Genesis
  <2> QED
    BY <2>2
<1> QED
  BY <1>3, <1>4, <1>5 DEF Init, InMemory!Init

\* The chain of the node in memory before and after a step that writes no
\* block, and a step that does.
LEMMA SameChain == UNCHANGED blocks => UNCHANGED Chain
BY DEF Chain

LEMMA LongerChain ==
  ASSUME TypeOK, NEW new \in Block, blocks' = Append(blocks, new)
  PROVE  Chain' = Append(Chain, Txs(new.rows))
<1> DEFINE n == Len(blocks)
<1>1. n \in Nat /\ DOMAIN blocks = 1..n /\ blocks \in Seq(Block)
  BY BlockType DEF TypeOK
<1>2. /\ DOMAIN blocks' = 1..(n + 1) /\ blocks'[n + 1] = new
      /\ \A b \in 1..n : blocks'[b] = blocks[b]
  BY <1>1, AppendProperties, LenProperties
<1>3. Chain' = [b \in 1..(n + 1) |-> Txs(blocks'[b].rows)]
  BY <1>2 DEF Chain
<1>4. Txs(new.rows) \in Seq(Tx)
  BY TxsProperties DEF Block
<1>5. Chain \in Seq(Seq(Tx)) /\ Len(Chain) = n /\ \A b \in 1..n : Chain[b] = Txs(blocks[b].rows)
  BY <1>1, ChainIs
<1> DEFINE rows == Txs(new.rows)
           longer == Append(Chain, rows)
<1>6. /\ longer \in Seq(Seq(Tx)) /\ Len(longer) = n + 1
      /\ \A b \in 1..(n + 1) : longer[b] = IF b <= n THEN Chain[b] ELSE rows
  <2>1. rows \in Seq(Tx)
    BY <1>4
  <2> HIDE DEF rows
  <2> QED
    BY <1>1, <1>5, <2>1, AppendProperties
<1>7. longer = [b \in 1..(n + 1) |-> longer[b]]
  BY <1>1, <1>6, LenProperties
<1>8. \A b \in 1..(n + 1) : longer[b] = Txs(blocks'[b].rows)
  BY <1>1, <1>2, <1>5, <1>6
<1> HIDE DEF longer
<1>9. Chain' = longer
  BY <1>3, <1>7, <1>8
<1> QED
  BY <1>9 DEF longer

\* The operators of Transactions as the instance sees them.
LEMMA SameTransactions ==
  /\ InMemory!LegacyTx = LegacyTx
  /\ \A w, a : InMemory!MintTx(w, a) = MintTx(w, a)
  /\ \A s, r, a, net, n : InMemory!SignedTx(s, r, a, net, n) = SignedTx(s, r, a, net, n)
  /\ \A s, r, a : InMemory!Quotes(s, r, a) = Quotes(s, r, a)
  /\ \A tx : InMemory!CanApply(tx) <=> CanApply(tx)
  /\ \A tx : InMemory!AfterDelta(tx) = AfterDelta(tx)
<1>1. /\ InMemory!LegacyTx = LegacyTx
      /\ \A w, a : InMemory!MintTx(w, a) = MintTx(w, a)
      /\ \A s, r, a, net, n : InMemory!SignedTx(s, r, a, net, n) = SignedTx(s, r, a, net, n)
  BY DEF LegacyTx, InMemory!LegacyTx, MintTx, InMemory!MintTx, SignedTx, InMemory!SignedTx,
         None, InMemory!None, Unsigned, InMemory!Unsigned, Mint, InMemory!Mint, Ecdsa, InMemory!Ecdsa
<1>2. \A a, rate : InMemory!Converted(a, rate) = Converted(a, rate)
  BY DEF Converted, InMemory!Converted
<1>3. \A s, r, a : InMemory!Quotes(s, r, a) = Quotes(s, r, a)
  BY <1>2 DEF Quotes, InMemory!Quotes, None, InMemory!None
<1>4. \A tx : InMemory!CanApply(tx) <=> CanApply(tx)
  BY DEF CanApply, InMemory!CanApply, CanTransfer, InMemory!CanTransfer, CanCredit,
         InMemory!CanCredit, IsCoinbase, InMemory!IsCoinbase, IsTransfer, InMemory!IsTransfer,
         Mint, InMemory!Mint
<1>5. \A tx : InMemory!AfterDelta(tx) = AfterDelta(tx)
  BY DEF AfterDelta, InMemory!AfterDelta, CreditAmount, InMemory!CreditAmount, None,
         InMemory!None, IsCoinbase, InMemory!IsCoinbase, IsTransfer, InMemory!IsTransfer,
         Mint, InMemory!Mint
<1> QED
  BY <1>1, <1>3, <1>4, <1>5

\* Every step of the lone process is a step of the node in memory or changes
\* nothing of it.
LEMMA NextMaps ==
  OneProcess /\ ~MayCrash /\ TypeOK /\ TypeOK' /\ AtTheEnd /\ RowsApart /\ FindingsHold /\ [Next]_vars
    => [InMemory!Next]_(InMemory!vars)
<1> SUFFICES ASSUME OneProcess, ~MayCrash, TypeOK, TypeOK', AtTheEnd, RowsApart, FindingsHold,
                    [Next]_vars
             PROVE  [InMemory!Next]_(InMemory!vars)
  OBVIOUS
<1> DEFINE Same == UNCHANGED <<wallets, balance, frozen, nonces, blocks, applied>>
<1>1. ASSUME NEW p \in Process, Same, Pending' = Pending, pc[p] # "deltas", pc'[p] # "deltas"
      PROVE  UNCHANGED InMemory!vars
  BY <1>1, MappedState, MappedStateAfter, SameChain DEF InMemory!vars, Applying
<1>2. ASSUME NEW p \in Process, Same, mempool' = mempool,
             pc[p] \notin {"count", "append", "insert", "deltas"},
             pc'[p] \notin {"count", "append", "insert", "deltas"}
      PROVE  UNCHANGED InMemory!vars
  BY <1>1, <1>2, MappedState, MappedStateAfter
<1>3. ASSUME NEW p \in Process, Goto(p, "idle") PROVE pc'[p] = "idle"
  BY <1>3 DEF Goto, TypeOK
<1>4. ASSUME NEW p \in Process, NEW w \in WalletId, CreateWallet(p, w)
      PROVE  InMemory!CreateWallet(w)
  <2>1. Pending' = Pending /\ ~Applying /\ ~Applying' /\ UNCHANGED Chain
    BY <1>4, MappedState, MappedStateAfter, SameChain DEF CreateWallet
  <2> QED
    BY <1>4, <2>1 DEF CreateWallet, InMemory!CreateWallet, Applying
<1>5. ASSUME NEW p \in Process, NEW w \in WalletId, NEW flag \in BOOLEAN, SetFrozen(p, w, flag)
      PROVE  InMemory!SetFrozen(w, flag)
  <2>1. Pending' = Pending /\ ~Applying /\ ~Applying' /\ UNCHANGED Chain
    BY <1>5, MappedState, MappedStateAfter, SameChain DEF SetFrozen
  <2> QED
    BY <1>5, <2>1 DEF SetFrozen, InMemory!SetFrozen, Applying
<1>6. ASSUME NEW p \in Process, NEW s \in WalletId, NEW r \in WalletId, NEW a \in Amounts,
             NEW n \in 1..MaxNonce, NEW net \in Quotes(s, r, a), CheckTransfer(p, s, r, a, net, n)
      PROVE  UNCHANGED InMemory!vars
  <2>1. pc'[p] = "reserve" /\ pc[p] = "idle" /\ mempool' = mempool /\ Same
    BY <1>6 DEF CheckTransfer, Goto, TypeOK
  <2> QED
    BY <1>2, <2>1
<1>7. ASSUME NEW p \in Process, ReserveNonce(p)
      PROVE  \/ UNCHANGED InMemory!vars
             \/ \E s, r \in WalletId, a \in Amounts, n \in 1..MaxNonce :
                  \E net \in Quotes(s, r, a) : InMemory!SubmitSigned(s, r, a, net, n)
  <2>1. /\ pc[p] = "reserve" /\ lastRow < MaxAdmitted /\ Payable(job[p].tx)
        /\ UNCHANGED <<wallets, balance, frozen, mempool, lastRow, blocks, applied>>
    BY <1>7 DEF ReserveNonce, FindingsHold, At
  <2>2. PICK s \in WalletId, r \in WalletId, a \in Amounts, n \in 1..MaxNonce :
          \E net \in Quotes(s, r, a) :
            /\ job[p].tx = SignedTx(s, r, a, net, n)
            /\ s # r /\ s \in wallets /\ r \in wallets
            /\ ~frozen[s] /\ ~frozen[r]
            /\ balance[s] >= a
    BY <2>1 DEF Payable
  <2>3. PICK net \in Quotes(s, r, a) :
            /\ job[p].tx = SignedTx(s, r, a, net, n)
            /\ s # r /\ s \in wallets /\ r \in wallets
            /\ ~frozen[s] /\ ~frozen[r]
            /\ balance[s] >= a
    BY <2>2
  <2>4. job[p].tx.sender_wallet_id = s /\ job[p].tx.receiver_wallet_id = r /\ job[p].tx.nonce = n
    BY <2>3 DEF SignedTx
  <2>5. Pending = Txs(mempool) /\ ~Applying /\ Len(Txs(mempool)) < MaxAdmitted
    <3>1. Len(mempool) \in Nat /\ lastRow \in Nat /\ Len(mempool) <= lastRow
      BY LenProperties DEF TypeOK, FindingsHold
    <3> QED
      BY <2>1, <3>1, MappedState, PgAssumption
  <2>6. CASE n <= nonces[s] /\ Return(p) /\ UNCHANGED nonces
    <3>1. pc'[p] = "idle"
      BY <2>6, <1>3 DEF Return
    <3> QED
      BY <1>2, <2>1, <2>6, <3>1
  <2>7. CASE /\ n > nonces[s] /\ nonces' = [nonces EXCEPT ![s] = n]
             /\ OwnerOf[s] = OwnerOf[r] /\ Return(p)
    <3>1. pc'[p] = "idle"
      BY <2>7, <1>3 DEF Return
    <3>2. Pending' = Pending /\ ~Applying' /\ UNCHANGED Chain
      BY <2>1, <2>5, <3>1, MappedStateAfter, SameChain
    <3>3. InMemory!SubmitSigned(s, r, a, net, n)
      BY <2>1, <2>3, <2>5, <2>7, <3>2, SameTransactions
      DEF InMemory!SubmitSigned, InMemory!BuildTransaction, InMemory!AddToMempool, SignedTx,
          Applying
    <3> QED
      BY <3>3
  <2>8. CASE /\ n > nonces[s] /\ nonces' = [nonces EXCEPT ![s] = n]
             /\ OwnerOf[s] # OwnerOf[r] /\ Goto(p, "insert") /\ UNCHANGED job
    <3>1. pc'[p] = "insert"
      BY <2>8 DEF Goto, TypeOK
    <3>2. Pending' = Append(Pending, SignedTx(s, r, a, net, n)) /\ ~Applying' /\ UNCHANGED Chain
      BY <2>1, <2>3, <2>5, <2>8, <3>1, MappedStateAfter, SameChain
    <3>3. InMemory!SubmitSigned(s, r, a, net, n)
      BY <2>1, <2>3, <2>5, <2>8, <3>2, SameTransactions
      DEF InMemory!SubmitSigned, InMemory!BuildTransaction, InMemory!AddToMempool, SignedTx,
          Applying
    <3> QED
      BY <3>3
  <2> QED
    BY <1>7, <2>4, <2>6, <2>7, <2>8 DEF ReserveNonce
<1>8. ASSUME NEW p \in Process, NEW w \in WalletId, NEW a \in Amounts, CheckMint(p, w, a)
      PROVE  InMemory!AdminMint(w, a)
  <2>1. pc[p] = "idle" /\ pc'[p] = "insert" /\ job'[p].tx = MintTx(w, a) /\ mempool' = mempool /\ Same
    BY <1>8 DEF CheckMint, Goto, TypeOK, Job
  <2>2. Pending = Txs(mempool) /\ Len(Pending) < MaxAdmitted
    BY <1>8, <2>1, RoomLeft, MappedState DEF CheckMint
  <2>3. Pending' = Append(Pending, MintTx(w, a)) /\ ~Applying /\ ~Applying' /\ UNCHANGED Chain
    BY <2>1, <2>2, MappedState, MappedStateAfter, SameChain
  <2> QED
    BY <1>8, <2>2, <2>3, SameTransactions DEF CheckMint, InMemory!AdminMint, Applying
<1>9. ASSUME NEW tx \in Tx, InsertRow(tx) PROVE Txs(mempool') = Append(Txs(mempool), tx)
  <2>1. mempool \in Seq(Row) /\ [id |-> lastRow', tx |-> tx] \in Row
    BY <1>9 DEF TypeOK, InsertRow, Row
  <2> QED
    BY <1>9, <2>1, TxsProperties DEF InsertRow
<1>10. ASSUME NEW p \in Process, InsertPending(p) PROVE UNCHANGED InMemory!vars
  <2>1. pc[p] = "insert" /\ pc'[p] = "idle" /\ Same
    BY <1>3, <1>10 DEF InsertPending, Return
  <2>2. Pending' = Pending
    BY <1>9, <1>10, <2>1, JobType, MappedState, MappedStateAfter DEF InsertPending
  <2> QED
    BY <1>1, <2>1, <2>2
<1>11. ASSUME NEW p \in Process, SubmitLegacy(p) PROVE InMemory!SubmitLegacy
  <2>1. pc[p] = "idle" /\ pc'[p] = "idle" /\ Same
    BY <1>11 DEF SubmitLegacy
  <2>2. Pending = Txs(mempool) /\ Len(Pending) < MaxAdmitted
    BY <1>11, <2>1, RoomLeft, MappedState DEF SubmitLegacy
  <2>3. Pending' = Append(Pending, LegacyTx) /\ ~Applying /\ ~Applying' /\ UNCHANGED Chain
    BY <1>9, <1>11, <2>1, <2>2, EmptyHands, MappedState, MappedStateAfter, SameChain DEF SubmitLegacy
  <2> QED
    BY <2>1, <2>2, <2>3, SameTransactions DEF InMemory!SubmitLegacy, Applying
<1>12. ASSUME NEW p \in Process, ReadLast(p) \/ SelectPending(p) PROVE UNCHANGED InMemory!vars
  <2>1. /\ pc[p] \in {"idle", "select"} /\ pc'[p] \in {"select", "delete"}
        /\ mempool' = mempool /\ Same
    BY <1>12 DEF ReadLast, SelectPending, Goto, TypeOK
  <2> QED
    BY <1>2, <2>1
<1>13. ASSUME NEW p \in Process, DeletePending(p) PROVE UNCHANGED InMemory!vars
  <2>1. /\ pc[p] = "delete" /\ pc'[p] = "count" /\ mempool' = <<>> /\ UNCHANGED job /\ Same
        /\ job[p].rows = mempool
    BY <1>13 DEF DeletePending, Goto, RowsApart, At, TypeOK
  <2>2. Pending' = Pending
    BY <2>1, MappedState, MappedStateAfter
  <2> QED
    BY <1>1, <2>1, <2>2
<1>14. ASSUME NEW p \in Process, CountBlocks(p) PROVE UNCHANGED InMemory!vars
  <2>1. /\ pc[p] = "count" /\ pc'[p] = "append" /\ mempool' = mempool /\ mempool = <<>> /\ Same
        /\ job'[p].rows = job[p].rows
    BY <1>14 DEF CountBlocks, Goto, RowsApart, At, TypeOK, Job
  <2>2. Pending' = Pending
    BY <2>1, MappedState, MappedStateAfter
  <2> QED
    BY <1>1, <2>1, <2>2
<1>15. ASSUME NEW p \in Process, AppendBlock(p) PROVE InMemory!Mine
  <2> DEFINE new == [previous |-> job[p].previous, rows |-> job[p].rows]
  <2>1. /\ pc[p] = "append" /\ mempool = <<>> /\ mempool' = <<>> /\ Len(blocks) < MaxBlocks
        /\ UNCHANGED <<wallets, balance, frozen, nonces>>
    BY <1>15 DEF AppendBlock, RowsApart, FindingsHold, Mining, At
  <2>2. job[p].index \notin DOMAIN blocks
    <3>1. job[p].index = Len(blocks) + 1
      BY <2>1 DEF AtTheEnd, At
    <3> QED
      BY <3>1, BlockType
  <2>3. /\ blocks' = Append(blocks, new) /\ applied' = Append(applied, 0)
        /\ IF job[p].rows = <<>> THEN Return(p) ELSE Goto(p, "deltas") /\ UNCHANGED job
    BY <1>15, <2>2 DEF AppendBlock
  <2>4. new \in Block /\ new.rows = job[p].rows /\ job[p].rows \in Seq(Row)
    BY JobType DEF Block
  <2>5. Pending = Txs(job[p].rows) /\ ~Applying /\ Len(Chain) < MaxBlocks
    BY <2>1, MappedState, ChainIs
  <2> HIDE DEF new
  <2>6. Chain' = Append(Chain, Pending)
    BY <2>3, <2>4, <2>5, LongerChain
  <2>7. pc'[p] = IF job[p].rows = <<>> THEN "idle" ELSE "deltas"
    BY <1>3, <2>3 DEF Return, Goto, TypeOK
  <2>8. Pending' = <<>>
    BY <2>1, <2>7, MappedStateAfter, TxsProperties
  <2>9. Pending = <<>> <=> job[p].rows = <<>>
    <3>1. Len(Pending) = Len(job[p].rows)
      BY <2>4, <2>5, TxsProperties
    <3>2. Pending \in Seq(Tx)
      BY <2>4, <2>5, TxsProperties
    <3> QED
      BY <2>4, <3>1, <3>2, EmptySeq
  <2>10. Applying' <=> Pending # <<>>
    BY <2>7, <2>9, MappedStateAfter
  <2> QED
    BY <2>1, <2>3, <2>5, <2>6, <2>8, <2>10 DEF InMemory!Mine, Applying
<1>16. ASSUME NEW p \in Process, pc[p] = "deltas"
       PROVE  /\ InMemory!Reached = Reached(p) /\ InMemory!Height = job[p].index
              /\ Applying /\ job[p].done = applied[InMemory!Height]
              /\ Len(job[p].rows) = Len(Chain[InMemory!Height])
              /\ Pending = Txs(mempool)
              /\ Len(job[p].rows) \in Nat /\ job[p].done \in Nat /\ job[p].done < Len(job[p].rows)
  <2>1. /\ job[p].index \in DOMAIN blocks /\ job[p].rows = blocks[job[p].index].rows
        /\ job[p].done = applied[job[p].index] /\ job[p].done < Len(job[p].rows)
        /\ job[p].rows \in Seq(Row) /\ job[p].done \in Nat
    BY <1>16, JobType DEF TypeOK
  <2>2. job[p].index = Len(blocks)
    BY <1>16 DEF FindingsHold, At
  <2>3. InMemory!Height = job[p].index
    BY <2>2, ChainIs DEF InMemory!Height
  <2>4. Chain[job[p].index] = Txs(job[p].rows)
    BY <2>1, ChainIs
  <2>5. Len(job[p].rows) \in Nat /\ Len(Txs(job[p].rows)) = Len(job[p].rows)
    BY <2>1, TxsProperties, LenProperties
  <2>6. job[p].done + 1 \in 1..Len(job[p].rows)
    BY <2>1, <2>5
  <2>7. Txs(job[p].rows)[job[p].done + 1] = job[p].rows[job[p].done + 1].tx
    BY <2>1, <2>6, TxsProperties
  <2>8. InMemory!Reached = Reached(p)
    BY <2>1, <2>3, <2>4, <2>7 DEF InMemory!Reached, Reached
  <2> QED
    BY <1>16, <2>1, <2>3, <2>4, <2>5, <2>8, MappedState
<1>17. ASSUME NEW p \in Process, ApplyDelta(p) PROVE InMemory!ApplyDelta
  <2>1. /\ pc[p] = "deltas" /\ CanApply(Reached(p)) /\ balance' = AfterDelta(Reached(p))
        /\ applied' = [applied EXCEPT ![job[p].index] = @ + 1]
        /\ UNCHANGED <<wallets, frozen, nonces, mempool, blocks>>
    BY <1>17 DEF ApplyDelta
  <2>2. pc'[p] = IF job[p].done + 1 = Len(job[p].rows) THEN "idle" ELSE "deltas"
    BY <1>3, <1>17 DEF ApplyDelta, Return
  <2>3. Applying' <=> applied[InMemory!Height] + 1 < Len(Chain[InMemory!Height])
    BY <1>16, <2>1, <2>2, MappedStateAfter
  <2>4. Pending' = Pending /\ UNCHANGED Chain
    BY <1>16, <2>1, <2>2, MappedStateAfter, SameChain
  <2>5. Applying' = (applied[InMemory!Height] + 1 < Len(Chain[InMemory!Height]))
    BY <2>3 DEF Applying
  <2>6. /\ Applying
        /\ InMemory!CanApply(InMemory!Reached)
        /\ balance' = InMemory!AfterDelta(InMemory!Reached)
        /\ applied' = [applied EXCEPT ![InMemory!Height] = @ + 1]
    BY <1>16, <2>1, SameTransactions
  <2> QED
    BY <2>1, <2>4, <2>5, <2>6 DEF InMemory!ApplyDelta
<1>18. ASSUME NEW p \in Process, AbortDeltas(p) PROVE InMemory!AbortDeltas
  <2>1. /\ pc[p] = "deltas" /\ ~CanApply(Reached(p)) /\ pc'[p] = "idle"
        /\ UNCHANGED <<wallets, balance, frozen, nonces, mempool, blocks, applied>>
    BY <1>3, <1>18 DEF AbortDeltas, Return
  <2>2. Pending' = Pending /\ UNCHANGED Chain /\ ~Applying'
    BY <1>16, <2>1, MappedStateAfter, SameChain
  <2> QED
    BY <1>16, <2>1, <2>2, SameTransactions DEF InMemory!AbortDeltas, Applying
<1>19. CASE UNCHANGED vars
  <2>1. UNCHANGED <<Pending, Applying>>
    BY <1>19 DEF vars, Pending, RowsBeingMined, BeingInserted, Applying, At, Txs
  <2> QED
    BY <1>19, <2>1, SameChain DEF vars, InMemory!vars
<1> HIDE DEF Same
<1>20. ASSUME Next PROVE InMemory!Next \/ UNCHANGED InMemory!vars
  <2>1. PICK p \in Process :
          \/ \E w \in WalletId : CreateWallet(p, w)
          \/ \E w \in WalletId, flag \in BOOLEAN : SetFrozen(p, w, flag)
          \/ \E s, r \in WalletId, a \in Amounts, n \in 1..MaxNonce :
               \E net \in Quotes(s, r, a) : CheckTransfer(p, s, r, a, net, n)
          \/ ReserveNonce(p)
          \/ \E w \in WalletId, a \in Amounts : CheckMint(p, w, a)
          \/ InsertPending(p) \/ SubmitLegacy(p) \/ ReadLast(p) \/ SelectPending(p)
          \/ DeletePending(p) \/ CountBlocks(p) \/ AppendBlock(p) \/ ApplyDelta(p)
          \/ AbortDeltas(p) \/ Crash(p)
    BY <1>20 DEF Next
  <2>2. ~Crash(p)
    BY DEF Crash
  <2> QED
    BY <1>4, <1>5, <1>6, <1>7, <1>8, <1>10, <1>11, <1>12, <1>13, <1>14, <1>15, <1>17, <1>18,
       <2>1, <2>2, SameTransactions
    DEF InMemory!Next
<1> QED
  BY <1>19, <1>20

\* A single process that does not die behaves as the in-memory node does.
THEOREM LoneProcessIsInMemory ==
  ASSUME OneProcess, ~MayCrash
  PROVE  Spec => BehavesAsInMemory
<1>1. Init => InMemory!Init
  BY InitMaps
<1>2. TypeOK /\ AtTheEnd /\ RowsApart /\ [Next]_vars => AtTheEnd' /\ RowsApart'
  BY NextAlone
<1>3. TypeOK /\ AtTheEnd /\ RowsApart /\ FindingsHold /\ [Next]_vars => FindingsHold'
  BY NextFindings
<1>4. TypeOK /\ TypeOK' /\ AtTheEnd /\ RowsApart /\ FindingsHold /\ [Next]_vars
        => [InMemory!Next]_(InMemory!vars)
  BY NextMaps
<1> QED
  BY <1>1, <1>2, <1>3, <1>4, InitAlone, InitFindings, PgTypeCorrect, PTL
  DEF Spec, BehavesAsInMemory, InMemory!Spec

-----------------------------------------------------------------------------
(* What the balances add up to *)

\* Every transaction, in a handler, pending or confirmed, is addressed as the
\* handlers do it, and an id that names no wallet yet has no balance to lose
\* when the wallet is created.
AllAddressed ==
  /\ \A x \in Rows : Addressed(x.tx)
  /\ \A p \in Process : Addressed(job[p].tx)
  /\ \A w \in WalletId \ wallets : balance[w] = 0

LEMMA InitAddressed == Init => AllAddressed
<1> SUFFICES ASSUME Init PROVE AllAddressed
  OBVIOUS
<1>1. RowsOf(<<>>) = {}
  BY DEF RowsOf
<1>2. \A b \in DOMAIN blocks : blocks[b].rows = <<>>
  BY DEF Init, Genesis
<1>3. \A p \in Process : job[p].rows = <<>> /\ job[p].tx = LegacyTx
  BY DEF Init, NoJob
<1>4. Rows = {}
  BY <1>1, <1>2, <1>3 DEF Rows, Flushed, Confirmed, Init
<1>5. \A w \in WalletId : balance[w] = 0
  BY DEF Init
<1> QED
  BY <1>3, <1>4, <1>5, BuiltAddressed DEF AllAddressed

\* One pass of apply_block_deltas gives each wallet what the transaction is
\* worth to it, and nothing to an id that names none.
LEMMA DeltaWorth ==
  ASSUME TypeOK, AllAddressed, NEW p \in Process, ApplyDelta(p), NEW w \in WalletId
  PROVE  /\ balance'[w] = balance[w] + Worth(Reached(p), w)
         /\ w \notin wallets => balance'[w] = balance[w]
<1> DEFINE tx == Reached(p)
           s == tx.sender_wallet_id
           r == tx.receiver_wallet_id
           net == CreditAmount(tx)
           amount == tx.amount
<1>1. tx \in Tx /\ Addressed(tx) /\ net \in Nat /\ amount \in Nat
  <2>1. job[p].done + 1 \in DOMAIN job[p].rows
    BY JobType, LenProperties DEF ApplyDelta, TypeOK
  <2>2. job[p].rows[job[p].done + 1] \in Rows
    BY <2>1 DEF Rows, Flushed, RowsOf
  <2> QED
    BY <2>2, ReachedType, CreditType DEF ApplyDelta, AllAddressed, Reached
<1>2. CanApply(tx) /\ balance' = AfterDelta(tx) /\ balance \in [WalletId -> Int]
  BY DEF ApplyDelta, TypeOK
<1>3. CASE IsCoinbase(tx)
  <2>1. balance' = [balance EXCEPT ![r] = @ + amount] /\ r \in wallets
    BY <1>2, <1>3 DEF AfterDelta, CanApply, CanCredit
  <2>2. Worth(tx, w) = IF w = r THEN amount ELSE 0
    BY <1>1, <1>3, WorthIs
  <2> HIDE DEF r, amount, tx
  <2>3. balance'[w] = balance[w] + Worth(tx, w) /\ (w \notin wallets => balance'[w] = balance[w])
    BY <1>1, <1>2, <2>1, <2>2
  <2> QED
    BY <2>3 DEF tx
<1>4. CASE ~IsCoinbase(tx) /\ IsTransfer(tx)
  <2>1. balance' = [x \in WalletId |-> balance[x] - (IF x = s THEN amount ELSE 0)
                                               + (IF x = r THEN net ELSE 0)]
    BY <1>2, <1>4 DEF AfterDelta
  <2>2. Worth(tx, w) = (IF w = r THEN net ELSE 0) - (IF w = s THEN amount ELSE 0)
    BY <1>1, <1>4, WorthIs
  <2>3. s \in wallets /\ r \in wallets
    BY <1>2, <1>4 DEF CanApply, CanTransfer, CanCredit
  <2> HIDE DEF s, r, net, amount, tx
  <2>4. balance'[w] = balance[w] + Worth(tx, w) /\ (w \notin wallets => balance'[w] = balance[w])
    BY <1>1, <1>2, <2>1, <2>2, <2>3
  <2> QED
    BY <2>4 DEF tx
<1>5. CASE ~IsCoinbase(tx) /\ ~IsTransfer(tx)
  <2>1. balance' = balance /\ Worth(tx, w) = 0 /\ balance[w] \in Int
    BY <1>1, <1>2, <1>5, WorthIs DEF AfterDelta
  <2> QED
    BY <2>1
<1> QED
  BY <1>3, <1>4, <1>5

\* Every other step leaves the balances alone: a wallet that is created had none.
LEMMA BalancesStay ==
  ASSUME TypeOK, AllAddressed, [Next]_vars, \A p \in Process : ~ApplyDelta(p)
  PROVE  balance' = balance /\ wallets \subseteq wallets'
<1>1. ASSUME NEW p \in Process, NEW w \in WalletId, CreateWallet(p, w)
      PROVE  balance' = balance /\ wallets \subseteq wallets'
  <2>1. balance[w] = 0 /\ balance \in [WalletId -> Int] /\ balance' = [balance EXCEPT ![w] = 0]
    BY <1>1 DEF CreateWallet, AllAddressed, TypeOK
  <2> QED
    BY <1>1, <2>1 DEF CreateWallet
<1>2. ASSUME NEW p \in Process, ReserveNonce(p) \/ AppendBlock(p) PROVE UNCHANGED <<balance, wallets>>
  BY <1>2 DEF ReserveNonce, AppendBlock
<1>3. CASE UNCHANGED <<balance, wallets>>
  BY <1>3
<1>4. CASE Next
  BY <1>1, <1>2, <1>3, <1>4
  DEF Next, SetFrozen, CheckTransfer, CheckMint, InsertPending, SubmitLegacy, ReadLast,
      SelectPending, DeletePending, CountBlocks, AbortDeltas, Crash
<1> QED
  BY <1>3, <1>4 DEF vars

LEMMA NextAddressed == TypeOK /\ AllAddressed /\ [Next]_vars => AllAddressed'
<1> SUFFICES ASSUME TypeOK, AllAddressed, [Next]_vars PROVE AllAddressed'
  OBVIOUS
<1> DEFINE RowsFine == \A x \in Rows : Addressed(x.tx)
           JobsFine == \A p \in Process : Addressed(job[p].tx)
<1>1. NoJob.rows = <<>> /\ NoJob.tx = LegacyTx /\ \A q \in Process : job[q] \in Job
  BY DEF NoJob, TypeOK
<1>2. \A w \in WalletId \ wallets' : balance'[w] = 0
  <2>1. CASE \A p \in Process : ~ApplyDelta(p)
    BY <2>1, BalancesStay DEF AllAddressed
  <2>2. ASSUME NEW p \in Process, ApplyDelta(p) PROVE \A w \in WalletId \ wallets' : balance'[w] = 0
    BY <2>2, DeltaWorth DEF AllAddressed, ApplyDelta
  <2> QED
    BY <2>1, <2>2
<1>3. ASSUME Rows' \subseteq Rows, \A q \in Process : job'[q].tx = job[q].tx \/ Addressed(job'[q].tx)
      PROVE  AllAddressed'
  BY <1>2, <1>3 DEF AllAddressed
<1>4. ASSUME blocks' = blocks, mempool' = mempool \/ mempool' = <<>>, NEW p \in Process,
             \A q \in Process \ {p} : job'[q] = job[q],
             job'[p].rows \in {job[p].rows, <<>>, mempool},
             job'[p].tx = job[p].tx \/ Addressed(job'[p].tx)
      PROVE  AllAddressed'
  <2>1. Rows' \subseteq Rows
    BY <1>4, RowsMove
  <2> QED
    BY <1>3, <1>4, <2>1
<1>5. ASSUME NEW p \in Process, Return(p)
      PROVE  /\ \A q \in Process \ {p} : job'[q] = job[q]
             /\ job'[p] = NoJob /\ job'[p].rows = <<>> /\ Addressed(job'[p].tx)
  BY <1>1, <1>5, BuiltAddressed DEF Return, TypeOK
<1>6. ASSUME NEW tx \in Tx, Addressed(tx), InsertRow(tx), UNCHANGED blocks,
             \A q \in Process : job'[q] = job[q] \/ job'[q] = NoJob
      PROVE  AllAddressed'
  <2> DEFINE new == [id |-> lastRow', tx |-> tx]
  <2>1. \A q \in Process : job'[q].rows = job[q].rows \/ job'[q].rows = <<>>
    BY <1>1, <1>6
  <2>2. Rows' \subseteq Rows \cup {new} /\ new.tx = tx
    BY <1>6, <2>1, RowsAppended
  <2> HIDE DEF new
  <2>3. \A q \in Process : Addressed(job'[q].tx)
    BY <1>1, <1>6, BuiltAddressed DEF AllAddressed
  <2> QED
    BY <1>2, <1>6, <2>2, <2>3 DEF AllAddressed
<1>7. ASSUME NEW p \in Process, NEW s \in WalletId, NEW r \in WalletId, NEW a \in Amounts,
             NEW n \in 1..MaxNonce, NEW net \in Quotes(s, r, a), CheckTransfer(p, s, r, a, net, n)
      PROVE  AllAddressed'
  <2>1. net \in Nat /\ n \in Nat
    BY QuotesType, ConstantAssumption
  <2>2. Addressed(SignedTx(s, r, a, net, n))
    BY <2>1, BuiltAddressed
  <2>3. /\ \A q \in Process \ {p} : job'[q] = job[q]
        /\ job'[p].tx = SignedTx(s, r, a, net, n) /\ job'[p].rows = job[p].rows
        /\ UNCHANGED <<mempool, blocks>>
    BY <1>1, <1>7 DEF CheckTransfer, TypeOK, Job
  <2> QED
    BY <1>4, <2>2, <2>3
<1>8. ASSUME NEW p \in Process, NEW w \in WalletId, NEW a \in Amounts, CheckMint(p, w, a)
      PROVE  AllAddressed'
  <2>1. Addressed(MintTx(w, a))
    BY BuiltAddressed
  <2>2. /\ \A q \in Process \ {p} : job'[q] = job[q]
        /\ job'[p].tx = MintTx(w, a) /\ job'[p].rows = job[p].rows
        /\ UNCHANGED <<mempool, blocks>>
    BY <1>1, <1>8 DEF CheckMint, TypeOK, Job
  <2> QED
    BY <1>4, <2>1, <2>2
<1>9. ASSUME NEW p \in Process, InsertPending(p) PROVE AllAddressed'
  <2>1. job[p].tx \in Tx /\ Addressed(job[p].tx)
    BY JobType DEF AllAddressed
  <2>2. InsertRow(job[p].tx) /\ UNCHANGED blocks /\ \A q \in Process : job'[q] = job[q] \/ job'[q] = NoJob
    BY <1>5, <1>9 DEF InsertPending
  <2> QED
    BY <1>6, <2>1, <2>2
<1>10. ASSUME NEW p \in Process, SubmitLegacy(p) PROVE AllAddressed'
  BY <1>6, <1>10, BuiltAddressed, EmptyHands DEF SubmitLegacy
<1>11. ASSUME NEW p \in Process, ReserveNonce(p) \/ AbortDeltas(p) \/ Crash(p) PROVE AllAddressed'
  <2>1. UNCHANGED <<mempool, blocks>> /\ (Return(p) \/ UNCHANGED job)
    BY <1>11 DEF ReserveNonce, AbortDeltas, Crash
  <2> QED
    BY <1>4, <1>5, <2>1
<1>12. ASSUME NEW p \in Process, SelectPending(p) \/ ReadLast(p) \/ CountBlocks(p) \/ DeletePending(p)
       PROVE  AllAddressed'
  <2>1. /\ \A q \in Process \ {p} : job'[q] = job[q]
        /\ job'[p].rows \in {job[p].rows, mempool} /\ job'[p].tx = job[p].tx
        /\ blocks' = blocks
        /\ mempool' = mempool \/ mempool' = <<>>
    <3> USE <1>1 DEF TypeOK, Job
    <3>1. CASE SelectPending(p)
      BY <3>1 DEF SelectPending
    <3>2. CASE ReadLast(p)
      BY <3>2 DEF ReadLast
    <3>3. CASE CountBlocks(p)
      BY <3>3 DEF CountBlocks
    <3>4. CASE DeletePending(p)
      BY <3>4 DEF DeletePending
    <3> QED
      BY <1>12, <3>1, <3>2, <3>3, <3>4
  <2> QED
    BY <1>4, <2>1
<1>13. ASSUME NEW p \in Process, AppendBlock(p) PROVE AllAddressed'
  <2>1. Rows' \subseteq Rows
    BY <1>13, RowsWritten
  <2>2. Return(p) \/ UNCHANGED job
    BY <1>13 DEF AppendBlock
  <2>3. \A q \in Process : job'[q].tx = job[q].tx \/ Addressed(job'[q].tx)
    BY <1>5, <2>2
  <2> QED
    BY <1>3, <2>1, <2>3
<1>14. ASSUME NEW p \in Process, ApplyDelta(p) PROVE AllAddressed'
  <2>1. UNCHANGED <<mempool, blocks>>
    BY <1>14 DEF ApplyDelta
  <2>2. CASE Return(p)
    BY <1>4, <1>5, <2>1, <2>2
  <2>3. CASE job' = [job EXCEPT ![p].done = @ + 1]
    <3>1. /\ \A q \in Process \ {p} : job'[q] = job[q]
          /\ job'[p].rows = job[p].rows /\ job'[p].tx = job[p].tx
      BY <1>1, <2>3 DEF TypeOK, Job
    <3> QED
      BY <1>4, <2>1, <3>1
  <2> QED
    BY <1>14, <2>2, <2>3 DEF ApplyDelta
<1>15. CASE UNCHANGED <<mempool, blocks, job>>
  <2>1. Rows' = Rows
    BY <1>15 DEF Rows, Flushed, Confirmed
  <2> QED
    BY <1>3, <1>15, <2>1
<1> QED
  BY <1>7, <1>8, <1>9, <1>10, <1>11, <1>12, <1>13, <1>14, <1>15
  DEF Next, CreateWallet, SetFrozen, vars

\* The blocks and the numbers of their applied transactions, as Accounting
\* counts them.
LEMMA ChainAccountable == Inv => Accountable(Chain, applied)
<1> SUFFICES ASSUME Inv PROVE Accountable(Chain, applied)
  OBVIOUS
<1>1. TypeOK /\ MinersApart
  BY DEF Inv
<1>2. \A b \in DOMAIN blocks : blocks[b].rows \in Seq(Row) /\ Len(Txs(blocks[b].rows)) = Len(blocks[b].rows)
  BY <1>1, BlockType, TxsProperties
<1>3. Chain \in Seq(Seq(Tx)) /\ Len(Chain) = Len(blocks) /\ DOMAIN Chain = DOMAIN blocks
  BY <1>1, ChainIs
<1>4. applied \in Seq(Nat) /\ Len(applied) = Len(Chain)
  BY <1>1, <1>3 DEF TypeOK
<1>5. \A b \in DOMAIN Chain : applied[b] <= Len(Chain[b])
  BY <1>1, <1>2, <1>3, ChainIs DEF MinersApart
<1> QED
  BY <1>3, <1>4, <1>5 DEF Accountable

\* However the processes interleave and wherever they die, each balance is the
\* sum of what the applied transactions are worth to the wallet: no delta is
\* ever half done, done twice or done for a block that was not written.
THEOREM PgBalancesAddUp == Spec => []BalancesExplained
<1>1. Init => BalancesExplained
  <2> SUFFICES ASSUME Init, NEW w \in WalletId PROVE balance[w] = AppliedTotal(Chain, applied, w)
    BY DEF BalancesExplained
  <2>1. TypeOK
    BY InitInv DEF Inv
  <2>2. Len(blocks) = 1 /\ blocks[1].rows = <<>> /\ applied = <<0>> /\ balance[w] = 0
    BY DEF Init, Genesis
  <2>3. Chain \in Seq(Seq(Tx)) /\ Len(Chain) = 1 /\ Chain[1] = Txs(<<>>)
    BY <2>1, <2>2, ChainIs, BlockType
  <2>4. Len(Chain[1]) = 0
    BY <2>3, TxsProperties
  <2> QED
    BY <2>2, <2>3, <2>4, NothingApplied
<1>2. Inv /\ AllAddressed /\ BalancesExplained /\ [Next]_vars => BalancesExplained'
  <2> SUFFICES ASSUME Inv, AllAddressed, BalancesExplained, [Next]_vars, NEW w \in WalletId
               PROVE  balance'[w] = AppliedTotal(Chain', applied', w)
    BY DEF BalancesExplained
  <2>1. Accountable(Chain, applied) /\ TypeOK
    BY ChainAccountable DEF Inv
  <2>2. balance[w] = AppliedTotal(Chain, applied, w)
    BY DEF BalancesExplained
  <2>3. ASSUME NEW p \in Process, ApplyDelta(p)
        PROVE  balance'[w] = AppliedTotal(Chain', applied', w)
    <3> DEFINE k == job[p].index
    <3>1. /\ k \in DOMAIN Chain /\ Chain[k] = Txs(job[p].rows)
          /\ applied[k] = job[p].done /\ job[p].done < Len(job[p].rows)
      BY <2>1, <2>3, ChainIs DEF ApplyDelta, TypeOK
    <3>2. /\ job[p].rows \in Seq(Row) /\ job[p].done \in Nat
          /\ job[p].done + 1 \in 1..Len(job[p].rows)
      BY <2>1, <3>1, JobType, LenProperties
    <3>3. applied[k] < Len(Chain[k]) /\ Reached(p) = Chain[k][applied[k] + 1]
      BY <3>1, <3>2, TxsProperties DEF Reached
    <3>4. Chain' = Chain /\ applied' = [applied EXCEPT ![k] = @ + 1]
      BY <2>3, SameChain DEF ApplyDelta
    <3>5. balance'[w] = balance[w] + Worth(Reached(p), w)
      BY <2>1, <2>3, DeltaWorth
    <3> HIDE DEF k
    <3>6. AppliedTotal(Chain, [applied EXCEPT ![k] = @ + 1], w)
            = AppliedTotal(Chain, applied, w) + Worth(Chain[k][applied[k] + 1], w)
      <4>1. ASSUME NEW b \in DOMAIN Chain, applied[b] < Len(Chain[b])
            PROVE  AppliedTotal(Chain, [applied EXCEPT ![b] = @ + 1], w)
                     = AppliedTotal(Chain, applied, w) + Worth(Chain[b][applied[b] + 1], w)
        BY <2>1, <4>1, TransactionApplied
      <4> QED
        BY <3>1, <3>3, <4>1, Zenon
    <3> QED
      BY <2>2, <3>3, <3>4, <3>5, <3>6
  <2>4. CASE \A p \in Process : ~ApplyDelta(p)
    <3>1. balance' = balance
      BY <2>1, <2>4, BalancesStay
    <3>2. CASE UNCHANGED <<blocks, applied>>
      BY <2>2, <3>1, <3>2, SameChain
    <3>3. ASSUME NEW p \in Process, AppendBlock(p)
          PROVE  balance'[w] = AppliedTotal(Chain', applied', w)
      <4> DEFINE new == [previous |-> job[p].previous, rows |-> job[p].rows]
      <4>1. CASE blocks' = Append(blocks, new) /\ applied' = Append(applied, 0)
        <5>1. new \in Block /\ Txs(new.rows) \in Seq(Tx)
          BY <2>1, JobType, TxsProperties DEF Block
        <5> HIDE DEF new
        <5>2. Chain' = Append(Chain, Txs(new.rows))
          BY <2>1, <4>1, <5>1, LongerChain
        <5> QED
          BY <2>1, <2>2, <3>1, <4>1, <5>1, <5>2, BlockWritten
      <4> QED
        BY <3>2, <3>3, <4>1 DEF AppendBlock
    <3> QED
      BY <2>4, <3>2, <3>3
      DEF Next, CreateWallet, SetFrozen, CheckTransfer, ReserveNonce, CheckMint, InsertPending,
          SubmitLegacy, ReadLast, SelectPending, DeletePending, CountBlocks, AbortDeltas, Crash, vars
  <2> QED
    BY <2>3, <2>4
<1>3. Inv => TypeOK
  BY DEF Inv
<1> QED
  BY <1>1, <1>2, <1>3, InitInv, NextInv, InitAddressed, NextAddressed, PTL DEF Spec
=============================================================================
