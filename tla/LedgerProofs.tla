---------------------------- MODULE LedgerProofs ----------------------------
(***************************************************************************)
(* Theorems about Ledger for every set of wallets, users and currencies,   *)
(* every table of rates and every bound.                                   *)
(***************************************************************************)
EXTENDS LedgerAccounting, TransactionProofs

-----------------------------------------------------------------------------
(* What the operators of the model return *)

\* The transaction whose delta comes next is one of the last block.
LEMMA ReachedType ==
  ASSUME TypeOK, mining
  PROVE  /\ Height \in DOMAIN chain
         /\ chain[Height] \in Seq(Tx)
         /\ applied[Height] \in Nat
         /\ applied[Height] + 1 \in DOMAIN chain[Height]
         /\ Reached \in Tx
<1>1. Height \in 1..Len(chain) /\ DOMAIN chain = 1..Len(chain)
  BY LenProperties DEF TypeOK, Height
<1>2. chain[Height] \in Seq(Tx)
  BY <1>1, ElementOfSeq DEF TypeOK
<1>3. applied[Height] \in Nat
  BY <1>1, ElementOfSeq DEF TypeOK
<1>4. applied[Height] + 1 \in 1..Len(chain[Height])
  BY <1>2, <1>3, LenProperties DEF TypeOK
<1>5. DOMAIN chain[Height] = 1..Len(chain[Height])
  BY <1>2, LenProperties
<1>6. chain[Height][applied[Height] + 1] \in Tx
  BY <1>2, <1>4, ElementOfSeq
<1> QED
  BY <1>1, <1>2, <1>3, <1>4, <1>5, <1>6 DEF Reached

\* One pass of apply_block_deltas: only wallets that exist and are not frozen
\* move, and none of them ends below zero unless it was there already.
LEMMA DeltaEffect ==
  ASSUME TypeOK, ApplyDelta
  PROVE  /\ balance' \in [WalletId -> Int]
         /\ \A w \in WalletId :
              /\ w \notin wallets => balance'[w] = balance[w]
              /\ frozen[w] => balance'[w] = balance[w]
              /\ balance[w] >= 0 => balance'[w] >= 0
<1>1. Reached \in Tx
  BY ReachedType DEF ApplyDelta
<1>2. CreditAmount(Reached) \in Nat /\ Reached.amount \in Nat
  BY <1>1, CreditType
<1>3. CanApply(Reached) /\ balance' = AfterDelta(Reached)
  BY DEF ApplyDelta
<1>4. balance \in [WalletId -> Int]
  BY DEF TypeOK
<1> DEFINE s == Reached.sender_wallet_id
           r == Reached.receiver_wallet_id
           net == CreditAmount(Reached)
           amount == Reached.amount
<1>5. CASE IsCoinbase(Reached)
  <2>1. balance' = [balance EXCEPT ![r] = @ + amount]
    BY <1>3, <1>5 DEF AfterDelta
  <2>2. r \in wallets /\ r \in WalletId /\ ~frozen[r]
    BY <1>3, <1>5 DEF CanApply, CanCredit, TypeOK
  <2>3. amount \in Nat
    BY <1>2
  <2> HIDE DEF r, amount
  <2> QED
    BY <1>4, <2>1, <2>2, <2>3
<1>6. CASE ~IsCoinbase(Reached) /\ IsTransfer(Reached)
  <2>1. balance' = [w \in WalletId |-> balance[w] - (IF w = s THEN amount ELSE 0)
                                               + (IF w = r THEN net ELSE 0)]
    BY <1>3, <1>6 DEF AfterDelta
  <2>2. /\ balance[s] >= amount
        /\ s \in wallets /\ ~frozen[s]
        /\ r \in wallets /\ ~frozen[r]
    BY <1>3, <1>6 DEF CanApply, CanTransfer, CanCredit
  <2>3. s \in WalletId /\ r \in WalletId
    BY <2>2 DEF TypeOK
  <2>4. amount \in Nat /\ net \in Nat
    BY <1>2
  <2> HIDE DEF s, r, net, amount
  <2> QED
    BY <1>4, <2>1, <2>2, <2>3, <2>4
<1>7. CASE ~IsCoinbase(Reached) /\ ~IsTransfer(Reached)
  BY <1>3, <1>4, <1>7 DEF AfterDelta
<1> QED
  BY <1>5, <1>6, <1>7

-----------------------------------------------------------------------------
(* Type correctness *)

LEMMA InitTypeOK == Init => TypeOK
<1> SUFFICES ASSUME Init PROVE TypeOK
  OBVIOUS
<1> DEFINE empty == <<>>
<1>1. empty \in Seq(Tx) /\ Len(empty) = 0
  BY EmptySeq
<1>2. <<empty>> \in Seq(Seq(Tx)) /\ Len(<<empty>>) = 1 /\ <<empty>>[1] = empty
  BY <1>1
<1>3. <<0>> \in Seq(Nat) /\ Len(<<0>>) = 1 /\ <<0>>[1] = 0
  OBVIOUS
<1>4. chain = <<empty>> /\ mempool = empty /\ applied = <<0>>
  BY DEF Init
<1> HIDE DEF empty
<1>5. DOMAIN chain = 1..1
  BY <1>2, <1>4, LenProperties
<1>6. \A b \in DOMAIN chain : applied[b] <= Len(chain[b])
  BY <1>1, <1>2, <1>3, <1>4, <1>5
<1>7. chain # <<>>
  BY <1>2, <1>4, EmptySeq
<1>8. ~mining /\ mining \in BOOLEAN
  BY DEF Init
<1>9. /\ wallets \subseteq WalletId /\ balance \in [WalletId -> Int]
      /\ frozen \in [WalletId -> BOOLEAN] /\ nonces \in [WalletId -> Nat]
      /\ \A w \in WalletId \ wallets : balance[w] = 0 /\ ~frozen[w] /\ nonces[w] = 0
  BY DEF Init
<1> QED
  BY <1>1, <1>2, <1>3, <1>4, <1>6, <1>7, <1>8, <1>9 DEF TypeOK

LEMMA NextTypeOK == TypeOK /\ [Next]_vars => TypeOK'
<1> SUFFICES ASSUME TypeOK, [Next]_vars PROVE TypeOK'
  OBVIOUS
<1> USE DEF TypeOK, Height
<1>1. ASSUME NEW w \in WalletId, CreateWallet(w) PROVE TypeOK'
  BY <1>1 DEF CreateWallet
<1>2. ASSUME NEW w \in WalletId, NEW flag \in BOOLEAN, SetFrozen(w, flag) PROVE TypeOK'
  BY <1>2 DEF SetFrozen
<1>3. ASSUME NEW w \in WalletId, NEW a \in Amounts, AdminMint(w, a) PROVE TypeOK'
  <2>1. mempool' \in Seq(Tx)
    BY <1>3, BuiltTransactions, AppendProperties DEF AdminMint
  <2> QED
    BY <1>3, <2>1 DEF AdminMint
<1>4. ASSUME NEW s \in WalletId, NEW r \in WalletId, NEW a \in Amounts, NEW n \in 1..MaxNonce,
             NEW net \in Quotes(s, r, a), SubmitSigned(s, r, a, net, n)
      PROVE  TypeOK'
  <2>1. SignedTx(s, r, a, net, n) \in Tx
    BY QuotesType, BuiltTransactions, ConstantAssumption
  <2>2. mempool' \in Seq(Tx)
    <3>1. Append(mempool, SignedTx(s, r, a, net, n)) \in Seq(Tx)
      BY <2>1, AppendProperties
    <3> QED
      BY <1>4, <3>1 DEF SubmitSigned, AddToMempool
  <2>3. n \in Nat /\ s \in wallets
    BY <1>4 DEF SubmitSigned, BuildTransaction
  <2> QED
    BY <1>4, <2>2, <2>3 DEF SubmitSigned, BuildTransaction
<1>5. ASSUME SubmitLegacy PROVE TypeOK'
  <2>1. mempool' \in Seq(Tx)
    BY <1>5, BuiltTransactions, AppendProperties DEF SubmitLegacy
  <2> QED
    BY <1>5, <2>1 DEF SubmitLegacy
<1>6. ASSUME Mine PROVE TypeOK'
  <2>1. /\ chain' \in Seq(Seq(Tx)) /\ Len(chain') = Len(chain) + 1
        /\ \A b \in 1..Len(chain) : chain'[b] = chain[b]
        /\ chain'[Len(chain) + 1] = mempool
    BY <1>6, AppendProperties DEF Mine
  <2>2. /\ applied' \in Seq(Nat) /\ Len(applied') = Len(applied) + 1
        /\ \A b \in 1..Len(applied) : applied'[b] = applied[b]
        /\ applied'[Len(applied) + 1] = 0
    <3>1. applied' = Append(applied, 0) /\ applied \in Seq(Nat) /\ 0 \in Nat
      BY <1>6 DEF Mine, TypeOK
    <3> QED
      BY <3>1, AppendProperties
  <2>3. /\ DOMAIN chain' = 1..(Len(chain) + 1) /\ DOMAIN chain = 1..Len(chain)
        /\ Len(chain) \in Nat /\ Len(mempool) \in Nat
    BY <2>1, LenProperties
  <2>4. \A b \in DOMAIN chain' : applied'[b] <= Len(chain'[b])
    <3> SUFFICES ASSUME NEW b \in 1..(Len(chain) + 1) PROVE applied'[b] <= Len(chain'[b])
      BY <2>3
    <3>1. CASE b = Len(chain) + 1
      BY <2>1, <2>2, <2>3, <3>1
    <3>2. CASE b \in 1..Len(chain)
      BY <2>1, <2>2, <2>3, <3>2
    <3> QED
      BY <3>1, <3>2, <2>3
  <2>5. mining' => 0 < Len(mempool)
    BY <1>6, EmptySeq DEF Mine
  <2>6. mempool' \in Seq(Tx) /\ chain' # <<>> /\ mining' \in BOOLEAN
    <3>1. mempool' = <<>> /\ mining' = (mempool # <<>>)
      BY <1>6 DEF Mine
    <3>2. mempool' \in Seq(Tx)
      BY <3>1, EmptySeq
    <3>3. chain' # <<>>
      BY <2>1, <2>3, EmptySeq
    <3> QED
      BY <3>1, <3>2, <3>3
  <2> QED
    BY <1>6, <2>1, <2>2, <2>3, <2>4, <2>5, <2>6 DEF Mine
<1>7. ASSUME ApplyDelta PROVE TypeOK'
  <2>1. /\ Reached \in Tx /\ Height \in DOMAIN chain /\ chain[Height] \in Seq(Tx)
        /\ applied[Height] \in Nat /\ applied[Height] + 1 \in DOMAIN chain[Height]
    BY <1>7, ReachedType DEF ApplyDelta
  <2>2. /\ balance' \in [WalletId -> Int]
        /\ \A w \in WalletId \ wallets : balance'[w] = balance[w]
    BY <1>7, DeltaEffect
  <2>3. Height \in 1..Len(applied) /\ DOMAIN chain = 1..Len(chain)
        /\ DOMAIN chain[Height] = 1..Len(chain[Height]) /\ Len(chain[Height]) \in Nat
    BY <2>1, LenProperties
  <2>4. /\ applied' \in Seq(Nat) /\ Len(applied') = Len(applied)
        /\ \A b \in 1..Len(applied) :
             applied'[b] = IF b = Height THEN applied[Height] + 1 ELSE applied[b]
    BY <1>7, <2>1, <2>3, ExceptSeq DEF ApplyDelta
  <2>5. \A b \in DOMAIN chain' : applied'[b] <= Len(chain'[b])
    BY <1>7, <2>1, <2>3, <2>4 DEF ApplyDelta
  <2>6. mining' => applied'[Len(chain')] < Len(chain'[Len(chain')])
    BY <1>7, <2>1, <2>3, <2>4 DEF ApplyDelta
  <2> QED
    BY <1>7, <2>2, <2>4, <2>5, <2>6 DEF ApplyDelta
<1>8. ASSUME AbortDeltas PROVE TypeOK'
  BY <1>8 DEF AbortDeltas
<1>9. CASE UNCHANGED vars
  BY <1>9 DEF vars
<1> QED
  BY <1>1, <1>2, <1>3, <1>4, <1>5, <1>6, <1>7, <1>8, <1>9 DEF Next

\* The ledger keeps its types, an id that was never drawn names an empty record,
\* and apply_block_deltas never runs past the end of the block it is applying.
THEOREM TypeCorrect == Spec => []TypeOK
BY InitTypeOK, NextTypeOK, PTL DEF Spec

-----------------------------------------------------------------------------
(* Balances *)

\* Every other step leaves the balances of existing wallets alone.
LEMMA OtherSteps ==
  ASSUME TypeOK, [Next]_vars, ~ApplyDelta
  PROVE  balance' = balance
<1>1. ASSUME NEW w \in WalletId, CreateWallet(w) PROVE balance' = balance
  BY <1>1 DEF CreateWallet, TypeOK
<1> QED
  BY <1>1 DEF Next, SetFrozen, AdminMint, SubmitSigned, SubmitLegacy, Mine, AbortDeltas, vars

\* No wallet is ever overdrawn, however many transfers were admitted against
\* the same balance.
THEOREM NeverOverdrawn == Spec => []NoOverdraft
<1>1. ASSUME Init PROVE NoOverdraft
  <2>1. balance = [w \in WalletId |-> 0]
    BY <1>1 DEF Init
  <2>2. \A w \in WalletId : balance[w] = 0
    BY <2>1
  <2> QED
    <3> USE DEF NoOverdraft
    <3> TAKE w \in WalletId
    <3>1. balance[w] = 0
      BY <2>2
    <3> QED
      BY <3>1
<1>2. TypeOK /\ NoOverdraft /\ [Next]_vars => NoOverdraft'
  BY DeltaEffect, OtherSteps DEF NoOverdraft
<1> QED
  BY <1>1, <1>2, TypeCorrect, PTL DEF Spec

\* A frozen wallet keeps its balance, whatever was admitted before the freeze.
THEOREM FrozenNeverMoves == Spec => FrozenFundsStay
<1>1. TypeOK /\ [Next]_vars => [\A w \in WalletId : frozen[w] => balance'[w] = balance[w]]_vars
  BY DeltaEffect, OtherSteps
<1> QED
  BY <1>1, TypeCorrect, PTL DEF Spec, FrozenFundsStay

-----------------------------------------------------------------------------
(* What the balances add up to *)

\* Every transaction, pending or confirmed, is addressed as the handlers do it.
\* Without it a transaction that names one wallet only would be worth something
\* to that wallet, and apply_block_deltas would skip it.
AllAddressed ==
  /\ \A i \in DOMAIN mempool : Addressed(mempool[i])
  /\ \A b \in DOMAIN chain : \A i \in DOMAIN chain[b] : Addressed(chain[b][i])

LEMMA InitAddressed == Init => AllAddressed
<1> SUFFICES ASSUME Init PROVE AllAddressed
  OBVIOUS
<1>1. mempool = <<>> /\ chain = << <<>> >>
  BY DEF Init
<1>2. DOMAIN mempool = {} /\ \A b \in DOMAIN chain : DOMAIN chain[b] = {}
  BY <1>1
<1> QED
  BY <1>2 DEF AllAddressed

LEMMA NextAddressed == TypeOK /\ AllAddressed /\ [Next]_vars => AllAddressed'
<1> SUFFICES ASSUME TypeOK, AllAddressed, [Next]_vars PROVE AllAddressed'
  OBVIOUS
<1>1. mempool \in Seq(Tx) /\ chain \in Seq(Seq(Tx)) /\ Len(mempool) \in Nat /\ Len(chain) \in Nat
  BY LenProperties DEF TypeOK
<1>2. ASSUME NEW tx \in Tx, Addressed(tx), mempool' = Append(mempool, tx), UNCHANGED chain
      PROVE  AllAddressed'
  <2>1. DOMAIN mempool = 1..Len(mempool) /\ DOMAIN mempool' = 1..(Len(mempool) + 1)
    BY <1>1, <1>2, AppendProperties, LenProperties
  <2>2. \A i \in DOMAIN mempool' : mempool'[i] = IF i = Len(mempool) + 1 THEN tx ELSE mempool[i]
    BY <1>1, <1>2, <2>1, AppendProperties
  <2>3. \A i \in DOMAIN mempool' : Addressed(mempool'[i])
    BY <1>1, <1>2, <2>1, <2>2 DEF AllAddressed
  <2> QED
    BY <1>2, <2>3 DEF AllAddressed
<1>3. ASSUME NEW w \in WalletId, NEW a \in Amounts, AdminMint(w, a) PROVE AllAddressed'
  <2>1. MintTx(w, a) \in Tx /\ Addressed(MintTx(w, a))
    BY BuiltTransactions, BuiltAddressed
  <2> QED
    BY <1>2, <1>3, <2>1 DEF AdminMint
<1>4. ASSUME NEW s \in WalletId, NEW r \in WalletId, NEW a \in Amounts, NEW n \in 1..MaxNonce,
             NEW net \in Quotes(s, r, a), SubmitSigned(s, r, a, net, n)
      PROVE  AllAddressed'
  <2>1. net \in Nat /\ n \in Nat
    BY QuotesType, ConstantAssumption
  <2>2. SignedTx(s, r, a, net, n) \in Tx /\ Addressed(SignedTx(s, r, a, net, n))
    BY <2>1, BuiltTransactions, BuiltAddressed
  <2>3. UNCHANGED chain /\ AddToMempool(SignedTx(s, r, a, net, n))
    BY <1>4 DEF SubmitSigned
  <2>4. CASE UNCHANGED mempool
    BY <2>3, <2>4 DEF AllAddressed
  <2> QED
    BY <1>2, <2>2, <2>3, <2>4 DEF AddToMempool
<1>5. ASSUME SubmitLegacy PROVE AllAddressed'
  BY <1>2, <1>5, BuiltTransactions, BuiltAddressed DEF SubmitLegacy
<1>6. ASSUME Mine PROVE AllAddressed'
  <2>1. DOMAIN chain = 1..Len(chain) /\ DOMAIN chain' = 1..(Len(chain) + 1) /\ DOMAIN mempool' = {}
    BY <1>1, <1>6, AppendProperties, LenProperties DEF Mine
  <2>2. \A b \in DOMAIN chain' : chain'[b] = IF b = Len(chain) + 1 THEN mempool ELSE chain[b]
    BY <1>1, <1>6, <2>1, AppendProperties DEF Mine
  <2> QED
    BY <1>1, <2>1, <2>2 DEF AllAddressed
<1>7. CASE UNCHANGED <<mempool, chain>>
  BY <1>7 DEF AllAddressed
<1> QED
  BY <1>3, <1>4, <1>5, <1>6, <1>7
  DEF Next, CreateWallet, SetFrozen, ApplyDelta, AbortDeltas, vars

\* One pass of apply_block_deltas gives each wallet what the transaction is
\* worth to it.
LEMMA DeltaWorth ==
  ASSUME TypeOK, AllAddressed, ApplyDelta
  PROVE  \A w \in WalletId : balance'[w] = balance[w] + Worth(Reached, w)
<1> DEFINE tx == Reached
           s == tx.sender_wallet_id
           r == tx.receiver_wallet_id
           net == CreditAmount(tx)
           amount == tx.amount
<1>1. tx \in Tx /\ Addressed(tx) /\ net \in Nat /\ amount \in Nat
  BY ReachedType, CreditType DEF ApplyDelta, AllAddressed, Reached
<1>2. CanApply(tx) /\ balance' = AfterDelta(tx) /\ balance \in [WalletId -> Int]
  BY DEF ApplyDelta, TypeOK
<1> SUFFICES ASSUME NEW w \in WalletId PROVE balance'[w] = balance[w] + Worth(tx, w)
  OBVIOUS
<1>3. CASE IsCoinbase(tx)
  <2>1. balance' = [balance EXCEPT ![r] = @ + amount]
    BY <1>2, <1>3 DEF AfterDelta
  <2>2. Worth(tx, w) = IF w = r THEN amount ELSE 0
    BY <1>1, <1>3, WorthIs
  <2> HIDE DEF r, amount, tx
  <2> QED
    BY <1>1, <1>2, <2>1, <2>2
<1>4. CASE ~IsCoinbase(tx) /\ IsTransfer(tx)
  <2>1. balance' = [x \in WalletId |-> balance[x] - (IF x = s THEN amount ELSE 0)
                                               + (IF x = r THEN net ELSE 0)]
    BY <1>2, <1>4 DEF AfterDelta
  <2>2. Worth(tx, w) = (IF w = r THEN net ELSE 0) - (IF w = s THEN amount ELSE 0)
    BY <1>1, <1>4, WorthIs
  <2> HIDE DEF s, r, net, amount, tx
  <2> QED
    BY <1>1, <1>2, <2>1, <2>2
<1>5. CASE ~IsCoinbase(tx) /\ ~IsTransfer(tx)
  <2>1. balance' = balance /\ Worth(tx, w) = 0 /\ balance[w] \in Int
    BY <1>1, <1>2, <1>5, WorthIs DEF AfterDelta
  <2> QED
    BY <2>1
<1> QED
  BY <1>3, <1>4, <1>5

\* No coin is created or destroyed, whatever is converted, rounded, frozen or
\* abandoned half-way through a block: each balance is the sum of what the
\* applied transactions are worth to the wallet.
THEOREM BalancesAddUp == Spec => []BalancesExplained
<1>1. Init => BalancesExplained
  <2> SUFFICES ASSUME Init, NEW w \in WalletId PROVE balance[w] = AppliedTotal(chain, applied, w)
    BY DEF BalancesExplained
  <2> DEFINE empty == <<>>
  <2>1. empty \in Seq(Tx) /\ Len(empty) = 0
    OBVIOUS
  <2>2. chain = <<empty>> /\ applied = <<0>> /\ balance[w] = 0
    BY DEF Init
  <2> HIDE DEF empty
  <2>3. chain \in Seq(Seq(Tx)) /\ Len(chain) = 1 /\ Len(chain[1]) = 0
    BY <2>1, <2>2
  <2> QED
    BY <2>2, <2>3, NothingApplied
<1>2. TypeOK /\ AllAddressed /\ BalancesExplained /\ [Next]_vars => BalancesExplained'
  <2> SUFFICES ASSUME TypeOK, AllAddressed, BalancesExplained, [Next]_vars, NEW w \in WalletId
               PROVE  balance'[w] = AppliedTotal(chain', applied', w)
    BY DEF BalancesExplained
  <2>1. Accountable(chain, applied)
    BY DEF Accountable, TypeOK
  <2>2. balance[w] = AppliedTotal(chain, applied, w)
    BY DEF BalancesExplained
  <2>3. CASE ApplyDelta
    <3>1. /\ Height \in DOMAIN chain /\ applied[Height] < Len(chain[Height])
          /\ Reached = chain[Height][applied[Height] + 1]
      BY <2>3, ReachedType DEF ApplyDelta, TypeOK, Reached
    <3>2. AppliedTotal(chain, [applied EXCEPT ![Height] = @ + 1], w)
            = AppliedTotal(chain, applied, w) + Worth(Reached, w)
      <4>1. ASSUME NEW k \in DOMAIN chain, applied[k] < Len(chain[k])
            PROVE  AppliedTotal(chain, [applied EXCEPT ![k] = @ + 1], w)
                     = AppliedTotal(chain, applied, w) + Worth(chain[k][applied[k] + 1], w)
        BY <2>1, <4>1, TransactionApplied
      <4> QED
        BY <3>1, <4>1, Zenon
    <3>3. balance'[w] = balance[w] + Worth(Reached, w)
      BY <2>3, DeltaWorth
    <3>4. chain' = chain /\ applied' = [applied EXCEPT ![Height] = @ + 1]
      BY <2>3 DEF ApplyDelta
    <3> QED
      BY <2>2, <3>2, <3>3, <3>4
  <2>4. CASE ~ApplyDelta
    <3>1. balance' = balance
      BY <2>4, OtherSteps
    <3>2. CASE Mine
      BY <2>1, <2>2, <3>1, <3>2, BlockWritten DEF Mine, TypeOK
    <3>3. CASE UNCHANGED <<chain, applied>>
      BY <2>2, <3>1, <3>3
    <3> QED
      BY <2>4, <3>2, <3>3
      DEF Next, CreateWallet, SetFrozen, AdminMint, SubmitSigned, SubmitLegacy, AbortDeltas, vars
  <2> QED
    BY <2>3, <2>4
<1> QED
  BY <1>1, <1>2, InitAddressed, NextAddressed, TypeCorrect, PTL DEF Spec

-----------------------------------------------------------------------------
(* Replay protection *)

\* The nonce table only grows, and no wallet is ever forgotten.
Growing ==
  /\ wallets \subseteq wallets'
  /\ \A w \in WalletId : nonces[w] <= nonces'[w]

\* NonceSeen in the next state, of a transaction of this one.
SeenAfter(tx) ==
  tx.signature = Ecdsa => /\ tx.sender_wallet_id \in wallets'
                          /\ tx.nonce <= nonces'[tx.sender_wallet_id]

\* What the nonce table has seen it goes on having seen.
LEMMA SeenForGood ==
  ASSUME TypeOK, TypeOK', Growing
  PROVE  \A tx \in Tx : NonceSeen(tx) => SeenAfter(tx)
<1> SUFFICES ASSUME NEW tx \in Tx, NonceSeen(tx) PROVE SeenAfter(tx)
  OBVIOUS
<1>1. CASE tx.signature = Ecdsa
  <2>1. tx.sender_wallet_id \in wallets /\ tx.nonce <= nonces[tx.sender_wallet_id]
    BY <1>1 DEF NonceSeen
  <2>2. tx.sender_wallet_id \in WalletId /\ tx.nonce \in Nat
    BY <2>1 DEF TypeOK, Tx
  <2>3. nonces[tx.sender_wallet_id] \in Nat /\ nonces'[tx.sender_wallet_id] \in Nat
    BY <2>2 DEF TypeOK
  <2> QED
    BY <2>1, <2>2, <2>3 DEF Growing, SeenAfter
<1> QED
  BY <1>1 DEF SeenAfter

\* Members of the mempool and of a block are transactions.
LEMMA Members ==
  ASSUME TypeOK
  PROVE  /\ DOMAIN mempool = 1..Len(mempool) /\ Len(mempool) \in Nat
         /\ DOMAIN chain = 1..Len(chain) /\ Len(chain) \in Nat
         /\ \A i \in DOMAIN mempool : mempool[i] \in Tx
         /\ \A b \in DOMAIN chain : \A i \in DOMAIN chain[b] : chain[b][i] \in Tx
<1>1. mempool \in Seq(Tx) /\ chain \in Seq(Seq(Tx))
  BY DEF TypeOK
<1>2. /\ DOMAIN mempool = 1..Len(mempool) /\ Len(mempool) \in Nat
      /\ DOMAIN chain = 1..Len(chain) /\ Len(chain) \in Nat
  BY <1>1, LenProperties
<1>3. \A i \in DOMAIN mempool : mempool[i] \in Tx
  BY <1>1, <1>2, ElementOfSeq
<1>4. ASSUME NEW b \in DOMAIN chain, NEW i \in DOMAIN chain[b] PROVE chain[b][i] \in Tx
  <2>1. chain[b] \in Seq(Tx)
    BY <1>1, <1>2, ElementOfSeq
  <2>2. i \in 1..Len(chain[b])
    BY <2>1, LenProperties
  <2> QED
    BY <2>1, <2>2, ElementOfSeq
<1> QED
  BY <1>2, <1>3, <1>4

\* A step that admits nothing and mines nothing.
LEMMA NothingAdmitted ==
  ASSUME TypeOK, TypeOK', Growing, ReplayProtected, UNCHANGED <<mempool, chain>>
  PROVE  ReplayProtected'
<1>1. NoncesIncrease'
  BY DEF ReplayProtected, NoncesIncrease, InNonceOrder
<1>2. NoncesRecorded'
  <2>1. \A i \in DOMAIN mempool : SeenAfter(mempool[i])
    BY Members, SeenForGood DEF ReplayProtected, NoncesRecorded
  <2>2. \A b \in DOMAIN chain : \A i \in DOMAIN chain[b] : SeenAfter(chain[b][i])
    BY Members, SeenForGood DEF ReplayProtected, NoncesRecorded
  <2> QED
    BY <2>1, <2>2 DEF NoncesRecorded, NonceSeen, SeenAfter
<1> QED
  BY <1>1, <1>2 DEF ReplayProtected

\* A new signed transfer carries a nonce above everything the table had seen of
\* its sender, and the table has seen it afterwards.
LEMMA OneAdmitted ==
  ASSUME TypeOK, TypeOK', Growing, ReplayProtected,
         NEW tx \in Tx, mempool' = Append(mempool, tx), chain' = chain,
         tx.signature = Ecdsa => tx.sender_wallet_id \in WalletId
                                 /\ tx.nonce > nonces[tx.sender_wallet_id],
         SeenAfter(tx)
  PROVE  ReplayProtected'
<1>1. /\ DOMAIN mempool' = 1..(Len(mempool) + 1)
      /\ \A i \in 1..Len(mempool) : mempool'[i] = mempool[i]
      /\ mempool'[Len(mempool) + 1] = tx
  <2>1. mempool \in Seq(Tx) /\ mempool' \in Seq(Tx)
    BY DEF TypeOK
  <2> QED
    BY <2>1, AppendProperties, LenProperties
<1>2. ASSUME NEW t \in Tx, NonceSeen(t) PROVE InNonceOrder(t, tx)
  <2> SUFFICES ASSUME t.signature = Ecdsa, tx.signature = Ecdsa,
                      t.sender_wallet_id = tx.sender_wallet_id
               PROVE  t.nonce < tx.nonce
    BY DEF InNonceOrder
  <2>1. t.nonce <= nonces[tx.sender_wallet_id] /\ nonces[tx.sender_wallet_id] < tx.nonce
    BY <1>2 DEF NonceSeen
  <2>2. t.nonce \in Nat /\ tx.nonce \in Nat /\ nonces[tx.sender_wallet_id] \in Nat
    BY DEF Tx, TypeOK
  <2> QED
    BY <2>1, <2>2
<1>3. NoncesRecorded'
  <2>1. ASSUME NEW i \in DOMAIN mempool' PROVE SeenAfter(mempool'[i])
    <3>1. CASE i = Len(mempool) + 1
      BY <1>1, <3>1
    <3>2. CASE i \in 1..Len(mempool)
      BY <1>1, <3>2, Members, SeenForGood DEF ReplayProtected, NoncesRecorded
    <3> QED
      BY <1>1, <3>1, <3>2, Members
  <2>2. \A b \in DOMAIN chain' : \A i \in DOMAIN chain'[b] : SeenAfter(chain'[b][i])
    BY Members, SeenForGood DEF ReplayProtected, NoncesRecorded
  <2> QED
    BY <2>1, <2>2 DEF NoncesRecorded, NonceSeen, SeenAfter
<1>4. \A i, j \in DOMAIN mempool' : i < j => InNonceOrder(mempool'[i], mempool'[j])
  <2> SUFFICES ASSUME NEW i \in 1..(Len(mempool) + 1), NEW j \in 1..(Len(mempool) + 1), i < j
               PROVE  InNonceOrder(mempool'[i], mempool'[j])
    BY <1>1
  <2>1. i \in 1..Len(mempool) /\ (j \in 1..Len(mempool) \/ j = Len(mempool) + 1)
    BY Members
  <2>2. CASE j \in 1..Len(mempool)
    BY <1>1, <2>1, <2>2, Members DEF ReplayProtected, NoncesIncrease
  <2>3. CASE j = Len(mempool) + 1
    BY <1>1, <1>2, <2>1, <2>3, Members DEF ReplayProtected, NoncesRecorded
  <2> QED
    BY <2>1, <2>2, <2>3
<1>5. \A b \in DOMAIN chain : \A i \in DOMAIN chain[b], j \in DOMAIN mempool' :
        InNonceOrder(chain[b][i], mempool'[j])
  <2> SUFFICES ASSUME NEW b \in DOMAIN chain, NEW i \in DOMAIN chain[b],
                      NEW j \in 1..(Len(mempool) + 1)
               PROVE  InNonceOrder(chain[b][i], mempool'[j])
    BY <1>1
  <2>1. CASE j \in 1..Len(mempool)
    BY <1>1, <2>1, Members DEF ReplayProtected, NoncesIncrease
  <2>2. CASE j = Len(mempool) + 1
    BY <1>1, <1>2, <2>2, Members DEF ReplayProtected, NoncesRecorded
  <2> QED
    BY <2>1, <2>2, Members
<1>6. NoncesIncrease'
  BY <1>4, <1>5 DEF ReplayProtected, NoncesIncrease, InNonceOrder
<1> QED
  BY <1>3, <1>6 DEF ReplayProtected

\* Mining moves the whole mempool behind the last block.
LEMMA AllMined ==
  ASSUME TypeOK, TypeOK', ReplayProtected, Mine
  PROVE  ReplayProtected'
<1>1. /\ DOMAIN chain' = 1..(Len(chain) + 1)
      /\ \A b \in 1..Len(chain) : chain'[b] = chain[b]
      /\ chain'[Len(chain) + 1] = mempool
  <2>1. mempool \in Seq(Tx) /\ chain \in Seq(Seq(Tx)) /\ chain' \in Seq(Seq(Tx))
    BY DEF TypeOK
  <2>2. chain' = Append(chain, mempool)
    BY DEF Mine
  <2> QED
    BY <2>1, <2>2, AppendProperties, LenProperties
<1>2. DOMAIN mempool' = {}
  BY DEF Mine
<1>3. UNCHANGED <<wallets, nonces>>
  BY DEF Mine
<1>4. \A b \in DOMAIN chain' : b \in DOMAIN chain \/ b = Len(chain) + 1
  BY <1>1, Members
<1>5. NoncesRecorded'
  BY <1>1, <1>2, <1>3, <1>4, Members DEF ReplayProtected, NoncesRecorded, NonceSeen
<1>6. \A b \in DOMAIN chain' : \A i, j \in DOMAIN chain'[b] :
        i < j => InNonceOrder(chain'[b][i], chain'[b][j])
  BY <1>1, <1>4, Members DEF ReplayProtected, NoncesIncrease
<1>7. \A b, c \in DOMAIN chain' : b < c =>
        \A i \in DOMAIN chain'[b], j \in DOMAIN chain'[c] : InNonceOrder(chain'[b][i], chain'[c][j])
  <2> SUFFICES ASSUME NEW b \in 1..(Len(chain) + 1), NEW c \in 1..(Len(chain) + 1), b < c,
                      NEW i \in DOMAIN chain'[b], NEW j \in DOMAIN chain'[c]
               PROVE  InNonceOrder(chain'[b][i], chain'[c][j])
    BY <1>1
  <2>1. b \in 1..Len(chain) /\ (c \in 1..Len(chain) \/ c = Len(chain) + 1)
    BY Members
  <2>2. CASE c \in 1..Len(chain)
    BY <1>1, <2>1, <2>2, Members DEF ReplayProtected, NoncesIncrease
  <2>3. CASE c = Len(chain) + 1
    BY <1>1, <2>1, <2>3, Members DEF ReplayProtected, NoncesIncrease
  <2> QED
    BY <2>1, <2>2, <2>3
<1>8. NoncesIncrease'
  BY <1>2, <1>6, <1>7 DEF NoncesIncrease, InNonceOrder
<1> QED
  BY <1>5, <1>8 DEF ReplayProtected

\* No signed transfer is admitted or confirmed twice, and none that was can be
\* submitted again.
THEOREM ReplayProtection == Spec => []ReplayProtected
<1>1. ASSUME Init PROVE ReplayProtected
  <2>1. mempool = <<>> /\ chain = << <<>> >>
    BY <1>1 DEF Init
  <2>2. DOMAIN mempool = {} /\ DOMAIN chain = 1..1 /\ DOMAIN chain[1] = {}
    BY <2>1
  <2> QED
    BY <2>2 DEF ReplayProtected, NoncesIncrease, NoncesRecorded
<1>2. ASSUME TypeOK, ReplayProtected, [Next]_vars PROVE ReplayProtected'
  <2> USE <1>2
  <2>1. TypeOK'
    BY NextTypeOK
  <2>2. ASSUME NEW w \in WalletId, CreateWallet(w) PROVE ReplayProtected'
    <3>1. Growing
      BY <2>2 DEF CreateWallet, Growing, TypeOK
    <3> QED
      BY <2>1, <2>2, <3>1, NothingAdmitted DEF CreateWallet
  <2>3. ASSUME NEW w \in WalletId, NEW a \in Amounts, AdminMint(w, a) PROVE ReplayProtected'
    <3>1. Growing
      BY <2>3 DEF AdminMint, Growing, TypeOK
    <3>2. MintTx(w, a) \in Tx /\ MintTx(w, a).signature # Ecdsa
      BY BuiltTransactions DEF MintTx, Mint, Ecdsa
    <3>3. SeenAfter(MintTx(w, a))
      BY <3>2 DEF SeenAfter
    <3> QED
      BY <2>1, <2>3, <3>1, <3>2, <3>3, OneAdmitted DEF AdminMint
  <2>4. ASSUME NEW s \in WalletId, NEW r \in WalletId, NEW a \in Amounts, NEW n \in 1..MaxNonce,
               NEW net \in Quotes(s, r, a), SubmitSigned(s, r, a, net, n)
        PROVE  ReplayProtected'
    <3> DEFINE tx == SignedTx(s, r, a, net, n)
    <3>1. nonces' = [nonces EXCEPT ![s] = n] /\ n > nonces[s] /\ s \in wallets /\ wallets' = wallets
      BY <2>4 DEF SubmitSigned, BuildTransaction
    <3>2. nonces \in [WalletId -> Nat] /\ n \in Nat
      BY ConstantAssumption DEF TypeOK
    <3>3. Growing
      BY <3>1, <3>2 DEF Growing
    <3>4. tx \in Tx
      BY QuotesType, BuiltTransactions, ConstantAssumption
    <3>5. tx.sender_wallet_id = s /\ tx.nonce = n
      BY DEF SignedTx
    <3> HIDE DEF tx
    <3>6. SeenAfter(tx)
      BY <3>1, <3>2, <3>5 DEF SeenAfter
    <3>7. CASE mempool' = Append(mempool, tx)
      BY <2>1, <2>4, <3>1, <3>3, <3>4, <3>5, <3>6, <3>7, OneAdmitted DEF SubmitSigned
    <3>8. CASE mempool' = mempool
      BY <2>1, <2>4, <3>3, <3>8, NothingAdmitted DEF SubmitSigned
    <3> QED
      BY <2>4, <3>7, <3>8 DEF SubmitSigned, AddToMempool, tx
  <2>5. ASSUME SubmitLegacy PROVE ReplayProtected'
    <3>1. Growing
      BY <2>5 DEF SubmitLegacy, Growing, TypeOK
    <3>2. LegacyTx \in Tx /\ LegacyTx.signature # Ecdsa
      BY BuiltTransactions DEF LegacyTx, Unsigned, Ecdsa
    <3>3. SeenAfter(LegacyTx)
      BY <3>2 DEF SeenAfter
    <3> QED
      BY <2>1, <2>5, <3>1, <3>2, <3>3, OneAdmitted DEF SubmitLegacy
  <2>6. ASSUME Mine PROVE ReplayProtected'
    BY <2>1, <2>6, AllMined
  <2>7. ASSUME UNCHANGED <<wallets, nonces, mempool, chain>> PROVE ReplayProtected'
    <3>1. Growing
      BY <2>7 DEF Growing, TypeOK
    <3> QED
      BY <2>1, <2>7, <3>1, NothingAdmitted
  <2> QED
    BY <2>2, <2>3, <2>4, <2>5, <2>6, <2>7
    DEF Next, SetFrozen, ApplyDelta, AbortDeltas, vars
<1> QED
  BY <1>1, <1>2, TypeCorrect, PTL DEF Spec

-----------------------------------------------------------------------------
(* The journal *)

\* The mempool and the chain implement the journal: what is admitted is
\* confirmed once, in order, or still pending, and no block ever changes.
THEOREM ImplementsJournal == Spec => JournalSpec
<1>1. Init => J!Init
  BY DEF Init, J!Init
<1>2. TypeOK /\ [Next]_vars => [J!Next]_(J!vars)
  <2> SUFFICES ASSUME TypeOK, Next PROVE J!Next \/ UNCHANGED <<mempool, chain>>
    BY DEF vars, J!vars
  <2>1. ASSUME NEW tx \in Tx, mempool' = Append(mempool, tx), chain' = chain PROVE J!Admit
    <3>1. Len(mempool') = Len(mempool) + 1 /\ mempool'[Len(mempool')] = tx
      BY <2>1, AppendProperties DEF TypeOK
    <3> QED
      BY <2>1, <3>1 DEF J!Admit
  <2>2. ASSUME NEW w \in WalletId, NEW a \in Amounts, AdminMint(w, a) PROVE J!Next
    BY <2>1, <2>2, BuiltTransactions DEF AdminMint, J!Next
  <2>3. ASSUME NEW s \in WalletId, NEW r \in WalletId, NEW a \in Amounts, NEW n \in 1..MaxNonce,
               NEW net \in Quotes(s, r, a), SubmitSigned(s, r, a, net, n)
        PROVE  J!Next \/ UNCHANGED <<mempool, chain>>
    <3>1. SignedTx(s, r, a, net, n) \in Tx
      BY QuotesType, BuiltTransactions, ConstantAssumption
    <3> QED
      BY <2>1, <2>3, <3>1 DEF SubmitSigned, AddToMempool, J!Next
  <2>4. ASSUME SubmitLegacy PROVE J!Next
    BY <2>1, <2>4, BuiltTransactions DEF SubmitLegacy, J!Next
  <2>5. ASSUME Mine PROVE J!Next
    BY <2>5 DEF Mine, J!Next, J!Confirm
  <2> QED
    BY <2>2, <2>3, <2>4, <2>5
    DEF Next, CreateWallet, SetFrozen, ApplyDelta, AbortDeltas
<1> QED
  BY <1>1, <1>2, TypeCorrect, PTL DEF Spec, JournalSpec, J!Spec
=============================================================================
