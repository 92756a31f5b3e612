-------------------------- MODULE TransactionProofs --------------------------
(***************************************************************************)
(* What the operators of Transactions and Accounting return, for every set *)
(* of wallets, users and currencies and every table of rates.  The proofs  *)
(* about both ledgers rest on these facts.                                 *)
(***************************************************************************)
EXTENDS Accounting, SequenceTheorems, WellFoundedInduction, TLAPS

\* A conversion yields a whole number of the smallest unit.
LEMMA ConvertedType ==
  ASSUME NEW a \in Nat, NEW r \in RateRecord
  PROVE  Converted(a, r) \in Int
<1>1. a * r.rateNum \in Nat /\ r.rateDen \in Nat /\ r.rateDen > 0
  BY DEF RateRecord
<1>2. DEFINE gross == (a * r.rateNum) \div r.rateDen
<1>3. gross \in Int
  BY <1>1
<1>4. gross * r.feeNum \in Int /\ r.feeDen \in Nat /\ r.feeDen > 0
  BY <1>3 DEF RateRecord
<1>5. (gross * r.feeNum) \div r.feeDen \in Int
  BY <1>4
<1> QED
  BY <1>3, <1>5 DEF Converted

\* receiver_amount is absent or a positive amount.
LEMMA QuotesType ==
  ASSUME NEW s \in WalletId, NEW r \in WalletId, NEW a \in Nat, NEW net \in Quotes(s, r, a)
  PROVE  net \in Nat
<1>1. CASE CurrencyOf[s] = CurrencyOf[r]
  BY <1>1 DEF Quotes, None
<1>2. CASE CurrencyOf[s] # CurrencyOf[r]
  <2>1. PICK rate \in Rates[CurrencyOf[s]][CurrencyOf[r]] : net = Converted(a, rate) /\ net > 0
    BY <1>2 DEF Quotes
  <2>2. rate \in RateRecord
    BY ConstantAssumption, <2>1
  <2> QED
    BY <2>1, <2>2, ConvertedType
<1> QED
  BY <1>1, <1>2

\* The transactions the handlers build.
LEMMA BuiltTransactions ==
  /\ LegacyTx \in Tx
  /\ \A w \in WalletId, a \in Amounts : MintTx(w, a) \in Tx
  /\ \A s, r \in WalletId, a \in Amounts, net, n \in Nat : SignedTx(s, r, a, net, n) \in Tx
BY ConstantAssumption DEF LegacyTx, MintTx, SignedTx, Tx, None, Mint, Ecdsa, Unsigned

\* Amounts moved are naturals and a credit never takes coin away.
LEMMA CreditType ==
  ASSUME NEW tx \in Tx
  PROVE  CreditAmount(tx) \in Nat /\ tx.amount \in Nat
BY DEF CreditAmount, Tx, None

-----------------------------------------------------------------------------
(* Sums of sequences of numbers *)

\* A set of natural numbers that is not empty has a least element: what holds
\* up to each number because it holds up to the one before is proved by looking
\* at the least number where it would fail.
LEMMA LeastNumber ==
  ASSUME NEW T \in SUBSET Nat, T # {}
  PROVE  \E m \in T : \A n \in T : m <= n
<1>1. PICK m \in T : \A n \in T : ~(<<n, m>> \in OpToRel(<, Nat))
  BY NatLessThanWellFounded, WFMin
<1>2. ASSUME NEW n \in T PROVE m <= n
  <2>1. <<n, m>> \in Nat \X Nat /\ <<n, m>>[1] = n /\ <<n, m>>[2] = m
    OBVIOUS
  <2>2. n < m => <<n, m>> \in OpToRel(<, Nat)
    BY <2>1, Zenon DEF OpToRel
  <2>3. ~(n < m)
    BY <1>1, <2>2, Zenon
  <2> QED
    BY <2>3
<1> QED
  BY <1>2

\* g holds what the first 0, 1, ... numbers of s, of which there are m, add up to.
Sums(g, s, m) == g = [n \in 0..m |-> IF n = 0 THEN 0 ELSE g[n - 1] + s[n]]

\* There are such sums, so the recursive function of SumSeq is one.
LEMMA SumsExist ==
  ASSUME NEW s \in Seq(Int)
  PROVE  \E g : Sums(g, s, Len(s))
<1>1. DEFINE T == {m \in 0..Len(s) : ~(\E g : Sums(g, s, m))}
<1>2. Len(s) \in Nat /\ T \in SUBSET Nat
  BY LenProperties
<1>3. SUFFICES ASSUME T # {} PROVE FALSE
  BY <1>2
<1>4. PICK m \in T : \A n \in T : m <= n
  BY <1>2, <1>3, LeastNumber
<1>5. m \in Nat /\ m <= Len(s)
  BY <1>2, <1>4
<1>6. CASE m = 0
  <2>1. DEFINE g == [n \in 0..0 |-> 0]
  <2>2. g = [n \in 0..0 |-> IF n = 0 THEN 0 ELSE g[n - 1] + s[n]]
    OBVIOUS
  <2> QED
    BY <1>4, <1>6, <2>2 DEF Sums
<1>7. CASE m # 0
  <2>1. m - 1 \in 0..Len(s) /\ m - 1 \notin T
    BY <1>2, <1>4, <1>5, <1>7
  <2>2. PICK g : Sums(g, s, m - 1)
    BY <2>1
  <2>3. DEFINE h == [n \in 0..m |-> IF n = m THEN g[m - 1] + s[m] ELSE g[n]]
  <2>4. ASSUME NEW n \in 0..m PROVE h[n] = IF n = 0 THEN 0 ELSE h[n - 1] + s[n]
    <3>1. CASE n = m
      BY <1>5, <1>7, <3>1
    <3>2. CASE n # m
      <4>1. n \in 0..(m - 1)
        BY <1>5, <3>2
      <4>2. g[n] = IF n = 0 THEN 0 ELSE g[n - 1] + s[n]
        BY <2>2, <4>1 DEF Sums
      <4> QED
        BY <1>5, <3>2, <4>1, <4>2
    <3> QED
      BY <3>1, <3>2
  <2>5. Sums(h, s, m)
    <3>1. DOMAIN h = 0..m /\ h = [n \in 0..m |-> h[n]]
      OBVIOUS
    <3> HIDE DEF h
    <3> QED
      BY <2>4, <3>1 DEF Sums
  <2> QED
    BY <1>4, <2>5
<1> QED
  BY <1>6, <1>7

LEMMA SumSeqIs ==
  ASSUME NEW s \in Seq(Int)
  PROVE  \E g : Sums(g, s, Len(s)) /\ SumSeq(s) = g[Len(s)]
<1>1. DEFINE sum == CHOOSE g : Sums(g, s, Len(s))
<1>2. Sums(sum, s, Len(s))
  BY SumsExist
<1>3. SumSeq(s) = sum[Len(s)]
  BY DEF SumSeq, Sums
<1> QED
  BY <1>2, <1>3

\* Sums of numbers are numbers.
LEMMA SumsType ==
  ASSUME NEW s \in Seq(Int), NEW g, Sums(g, s, Len(s))
  PROVE  \A n \in 0..Len(s) : g[n] \in Int
<1>1. DEFINE T == {n \in 0..Len(s) : g[n] \notin Int}
<1>2. Len(s) \in Nat /\ T \in SUBSET Nat
  BY LenProperties
<1>3. SUFFICES ASSUME T # {} PROVE FALSE
  BY <1>2
<1>4. PICK m \in T : \A n \in T : m <= n
  BY <1>2, <1>3, LeastNumber
<1>5. g[m] = IF m = 0 THEN 0 ELSE g[m - 1] + s[m]
  BY <1>4 DEF Sums
<1>6. CASE m # 0
  <2>1. m - 1 \in 0..Len(s) /\ m - 1 \notin T /\ m \in 1..Len(s)
    BY <1>2, <1>4, <1>6
  <2>2. g[m - 1] \in Int /\ s[m] \in Int
    BY <2>1, ElementOfSeq
  <2> QED
    BY <1>4, <1>5, <1>6, <2>2
<1> QED
  BY <1>4, <1>5, <1>6

\* The first m numbers of t are those of s, but the k-th one is d more.
MoreAt(s, t, m, k, d) == \A i \in 1..m : t[i] = IF i = k THEN s[i] + d ELSE s[i]

\* Their sums are the same up to there, and d more from there on.
MoreFrom(g, h, m, k, d) == \A n \in 0..m : h[n] = IF n >= k THEN g[n] + d ELSE g[n]

LEMMA SumsChange ==
  ASSUME NEW s \in Seq(Int), NEW t \in Seq(Int), Len(s) <= Len(t),
         NEW k \in Nat \ {0}, NEW d \in Int,
         MoreAt(s, t, Len(s), k, d),
         NEW g, Sums(g, s, Len(s)), NEW h, Sums(h, t, Len(t))
  PROVE  MoreFrom(g, h, Len(s), k, d)
<1>1. DEFINE T == {n \in 0..Len(s) : h[n] # IF n >= k THEN g[n] + d ELSE g[n]}
<1>2. Len(s) \in Nat /\ Len(t) \in Nat /\ T \in SUBSET Nat
  BY LenProperties
<1>3. SUFFICES ASSUME T # {} PROVE FALSE
  BY <1>2 DEF MoreFrom
<1>4. PICK m \in T : \A n \in T : m <= n
  BY <1>2, <1>3, LeastNumber
<1>5. m \in 0..Len(s) /\ m \in 0..Len(t)
  BY <1>2, <1>4
<1>6. g[m] = IF m = 0 THEN 0 ELSE g[m - 1] + s[m]
  BY <1>5 DEF Sums
<1>7. h[m] = IF m = 0 THEN 0 ELSE h[m - 1] + t[m]
  BY <1>5 DEF Sums
<1>8. CASE m = 0
  BY <1>4, <1>6, <1>7, <1>8
<1>9. CASE m # 0
  <2>1. m - 1 \in 0..Len(s) /\ m - 1 \notin T /\ m \in 1..Len(s)
    BY <1>2, <1>4, <1>9
  <2>2. g[m - 1] \in Int /\ g[m] \in Int /\ s[m] \in Int
    BY <1>5, <2>1, SumsType, ElementOfSeq
  <2>3. h[m - 1] = IF m - 1 >= k THEN g[m - 1] + d ELSE g[m - 1]
    BY <2>1
  <2>4. t[m] = IF m = k THEN s[m] + d ELSE s[m]
    BY <2>1 DEF MoreAt
  <2>5. h[m] = IF m >= k THEN g[m] + d ELSE g[m]
    <3>1. g[m] = g[m - 1] + s[m] /\ h[m] = h[m - 1] + t[m] /\ m \in Nat
      BY <1>5, <1>6, <1>7, <1>9
    <3>2. CASE m = k
      <4>1. ~(m - 1 >= k) /\ m >= k
        BY <3>1, <3>2
      <4>2. h[m - 1] = g[m - 1] /\ t[m] = s[m] + d
        BY <2>3, <2>4, <3>2, <4>1
      <4> QED
        BY <2>2, <3>1, <4>1, <4>2
    <3>3. CASE m # k
      <4>1. m - 1 >= k <=> m >= k
        BY <3>1, <3>3
      <4>2. t[m] = s[m] /\ h[m - 1] = IF m >= k THEN g[m - 1] + d ELSE g[m - 1]
        BY <2>3, <2>4, <3>3, <4>1
      <4>3. CASE m >= k
        BY <2>2, <3>1, <4>2, <4>3
      <4>4. CASE ~(m >= k)
        BY <2>2, <3>1, <4>2, <4>4
      <4> QED
        BY <4>3, <4>4
    <3> QED
      BY <3>2, <3>3
  <2> QED
    BY <1>4, <2>5
<1> QED
  BY <1>8, <1>9

LEMMA SumSeqType ==
  ASSUME NEW s \in Seq(Int)
  PROVE  SumSeq(s) \in Int
<1>1. Len(s) \in 0..Len(s)
  BY LenProperties
<1> QED
  BY <1>1, SumSeqIs, SumsType

LEMMA SumSeqEmpty ==
  ASSUME NEW s \in Seq(Int), Len(s) = 0
  PROVE  SumSeq(s) = 0
<1>1. PICK g : Sums(g, s, Len(s)) /\ SumSeq(s) = g[Len(s)]
  BY SumSeqIs
<1> QED
  BY <1>1 DEF Sums

\* One more number at the end is one more number in the sum.
LEMMA SumSeqLonger ==
  ASSUME NEW s \in Seq(Int), NEW t \in Seq(Int), Len(t) = Len(s) + 1,
         \A i \in 1..Len(s) : t[i] = s[i]
  PROVE  SumSeq(t) = SumSeq(s) + t[Len(t)]
<1>1. Len(s) \in Nat /\ Len(s) <= Len(t)
  BY LenProperties
<1>2. PICK g : Sums(g, s, Len(s)) /\ SumSeq(s) = g[Len(s)]
  BY SumSeqIs
<1>3. PICK h : Sums(h, t, Len(t)) /\ SumSeq(t) = h[Len(t)]
  BY SumSeqIs
<1>4. DEFINE k == Len(s) + 1
<1>5. k \in Nat \ {0} /\ \A i \in 1..Len(s) : i # k /\ s[i] \in Int
  BY <1>1, ElementOfSeq
<1>6. MoreAt(s, t, Len(s), k, 0)
  BY <1>5 DEF MoreAt
<1>7. MoreFrom(g, h, Len(s), k, 0)
  <2>1. Sums(g, s, Len(s)) /\ Sums(h, t, Len(t)) /\ 0 \in Int
    BY <1>2, <1>3
  <2> HIDE DEF k
  <2> QED
    BY <1>1, <1>5, <1>6, <2>1, SumsChange, Zenon
<1>8. h[Len(s)] = g[Len(s)]
  BY <1>1, <1>7 DEF MoreFrom
<1>9. h[Len(t)] = h[Len(t) - 1] + t[Len(t)]
  BY <1>1, <1>3 DEF Sums
<1> QED
  BY <1>1, <1>2, <1>3, <1>8, <1>9

\* d more in one place is d more in the sum.
LEMMA SumSeqChanged ==
  ASSUME NEW s \in Seq(Int), NEW t \in Seq(Int), Len(t) = Len(s),
         NEW k \in 1..Len(s), NEW d \in Int, MoreAt(s, t, Len(s), k, d)
  PROVE  SumSeq(t) = SumSeq(s) + d
<1>1. Len(s) \in Nat /\ k \in Nat \ {0} /\ Len(s) >= k /\ Len(s) <= Len(t)
  BY LenProperties
<1>2. PICK g : Sums(g, s, Len(s)) /\ SumSeq(s) = g[Len(s)]
  BY SumSeqIs
<1>3. PICK h : Sums(h, t, Len(t)) /\ SumSeq(t) = h[Len(t)]
  BY SumSeqIs
<1>4. MoreFrom(g, h, Len(s), k, d)
  <2>1. Sums(g, s, Len(s)) /\ Sums(h, t, Len(t))
    BY <1>2, <1>3
  <2> QED
    BY <1>1, <2>1, SumsChange, Zenon
<1> QED
  BY <1>1, <1>2, <1>3, <1>4 DEF MoreFrom

-----------------------------------------------------------------------------
(* What transactions are worth *)

LEMMA WorthType ==
  ASSUME NEW tx \in Tx, NEW w
  PROVE  Worth(tx, w) \in Int
BY CreditType DEF Worth

\* The first n transactions of a block are worth nothing when there are none of
\* them, and the next one adds what it is worth.
LEMMA TotalProperties ==
  ASSUME NEW txs \in Seq(Tx), NEW n \in 0..Len(txs), NEW w
  PROVE  /\ Total(txs, n, w) \in Int
         /\ n = 0 => Total(txs, n, w) = 0
         /\ n < Len(txs) => Total(txs, n + 1, w) = Total(txs, n, w) + Worth(txs[n + 1], w)
<1>1. DEFINE first(m) == [i \in 1..m |-> Worth(txs[i], w)]
<1>2. Len(txs) \in Nat
  BY LenProperties
<1>3. ASSUME NEW m \in 0..Len(txs)
      PROVE  first(m) \in Seq(Int) /\ Len(first(m)) = m /\ Total(txs, m, w) = SumSeq(first(m))
  <2>1. \A i \in 1..m : Worth(txs[i], w) \in Int
    BY <1>2, ElementOfSeq, WorthType
  <2>2. first(m) \in [1..m -> Int] /\ m \in Nat
    BY <1>2, <2>1
  <2> QED
    BY <2>2 DEF Total
<1>4. Total(txs, n, w) \in Int /\ (n = 0 => Total(txs, n, w) = 0)
  <2>1. first(n) \in Seq(Int) /\ Len(first(n)) = n /\ Total(txs, n, w) = SumSeq(first(n))
    BY <1>3
  <2> HIDE DEF first
  <2> QED
    BY <2>1, SumSeqType, SumSeqEmpty
<1>5. ASSUME n < Len(txs)
      PROVE  Total(txs, n + 1, w) = Total(txs, n, w) + Worth(txs[n + 1], w)
  <2>1. n + 1 \in 0..Len(txs)
    BY <1>2, <1>5
  <2>2. first(n) \in Seq(Int) /\ Len(first(n)) = n /\ Total(txs, n, w) = SumSeq(first(n))
    BY <1>3
  <2>3. /\ first(n + 1) \in Seq(Int) /\ Len(first(n + 1)) = n + 1
        /\ Total(txs, n + 1, w) = SumSeq(first(n + 1))
    BY <1>3, <2>1
  <2>4. \A i \in 1..n : first(n + 1)[i] = first(n)[i]
    OBVIOUS
  <2>5. first(n + 1)[n + 1] = Worth(txs[n + 1], w)
    BY <2>1
  <2>6. DEFINE s == first(n)
               t == first(n + 1)
  <2>7. /\ s \in Seq(Int) /\ Len(s) = n /\ t \in Seq(Int) /\ Len(t) = n + 1
        /\ \A i \in 1..Len(s) : t[i] = s[i]
    BY <2>2, <2>3, <2>4
  <2>8. SumSeq(t) = SumSeq(s) + t[n + 1]
    <3> HIDE DEF s, t
    <3> QED
      BY <2>7, SumSeqLonger
  <2> QED
    BY <2>2, <2>3, <2>5, <2>8
<1> QED
  BY <1>4, <1>5

\* The transactions the handlers build name two wallets, or none; only a mint
\* names its receiver alone.
Addressed(tx) ==
  IF IsCoinbase(tx) THEN tx.sender_wallet_id = NoWallet
                    ELSE tx.sender_wallet_id = NoWallet <=> tx.receiver_wallet_id = NoWallet

LEMMA BuiltAddressed ==
  /\ Addressed(LegacyTx)
  /\ \A w \in WalletId, a \in Amounts : Addressed(MintTx(w, a))
  /\ \A s, r \in WalletId, a \in Amounts, net, n \in Nat : Addressed(SignedTx(s, r, a, net, n))
BY ConstantAssumption
   DEF Addressed, IsCoinbase, LegacyTx, MintTx, SignedTx, Mint, Ecdsa, Unsigned

\* What a coinbase transaction, a transfer and a legacy transaction are worth.
LEMMA WorthIs ==
  ASSUME NEW tx \in Tx, Addressed(tx), NEW w \in WalletId
  PROVE  /\ IsCoinbase(tx) =>
              Worth(tx, w) = IF w = tx.receiver_wallet_id THEN tx.amount ELSE 0
         /\ ~IsCoinbase(tx) /\ IsTransfer(tx) =>
              Worth(tx, w) = (IF w = tx.receiver_wallet_id THEN CreditAmount(tx) ELSE 0)
                             - (IF w = tx.sender_wallet_id THEN tx.amount ELSE 0)
         /\ ~IsCoinbase(tx) /\ ~IsTransfer(tx) => Worth(tx, w) = 0
<1>1. w # NoWallet /\ CreditAmount(tx) \in Nat /\ tx.amount \in Nat
  BY ConstantAssumption, CreditType
<1>2. CASE IsCoinbase(tx)
  <2>1. tx.sender_wallet_id # w /\ tx.signature = Mint
    BY <1>1, <1>2 DEF Addressed, IsCoinbase
  <2> QED
    BY <1>1, <1>2, <2>1 DEF Worth
<1>3. CASE ~IsCoinbase(tx) /\ IsTransfer(tx)
  BY <1>1, <1>3 DEF Worth, IsCoinbase
<1>4. CASE ~IsCoinbase(tx) /\ ~IsTransfer(tx)
  <2>1. tx.sender_wallet_id = NoWallet /\ tx.receiver_wallet_id = NoWallet
    BY <1>4 DEF Addressed, IsCoinbase, IsTransfer
  <2> QED
    BY <1>1, <1>4, <2>1 DEF Worth
<1> QED
  BY <1>2, <1>3, <1>4

\* The transactions of the blocks, and how many of each block were applied.
Accountable(txs, done) ==
  /\ txs \in Seq(Seq(Tx))
  /\ done \in Seq(Nat) /\ Len(done) = Len(txs)
  /\ \A b \in DOMAIN txs : done[b] <= Len(txs[b])

\* What each block is worth.
Totals(txs, done, w) == [b \in DOMAIN txs |-> Total(txs[b], done[b], w)]

LEMMA BlockTotals ==
  ASSUME NEW txs, NEW done, Accountable(txs, done), NEW w
  PROVE  Totals(txs, done, w) \in Seq(Int) /\ Len(Totals(txs, done, w)) = Len(txs)
<1>1. Len(txs) \in Nat /\ DOMAIN txs = 1..Len(txs)
  BY LenProperties DEF Accountable
<1>2. ASSUME NEW b \in DOMAIN txs PROVE Total(txs[b], done[b], w) \in Int
  <2>1. txs[b] \in Seq(Tx) /\ done[b] \in Nat /\ done[b] <= Len(txs[b])
    BY <1>1, ElementOfSeq DEF Accountable
  <2>2. done[b] \in 0..Len(txs[b])
    BY <2>1, LenProperties
  <2> QED
    BY <2>1, <2>2, TotalProperties
<1>3. Totals(txs, done, w) \in [1..Len(txs) -> Int]
  BY <1>1, <1>2 DEF Totals
<1> QED
  BY <1>1, <1>3

\* A new block, of which nothing is applied yet, explains no balance.
LEMMA BlockWritten ==
  ASSUME NEW txs, NEW done, Accountable(txs, done), NEW block \in Seq(Tx), NEW w
  PROVE  AppliedTotal(Append(txs, block), Append(done, 0), w) = AppliedTotal(txs, done, w)
<1> DEFINE txs2 == Append(txs, block)
           done2 == Append(done, 0)
           t == Totals(txs, done, w)
           t2 == Totals(txs2, done2, w)
<1>1. /\ Len(txs) \in Nat /\ DOMAIN txs = 1..Len(txs)
      /\ txs \in Seq(Seq(Tx)) /\ done \in Seq(Nat) /\ Len(done) = Len(txs)
  BY LenProperties DEF Accountable
<1>2. /\ txs2 \in Seq(Seq(Tx)) /\ Len(txs2) = Len(txs) + 1
      /\ \A b \in 1..Len(txs) : txs2[b] = txs[b]
      /\ txs2[Len(txs) + 1] = block
  BY <1>1, AppendProperties
<1>3. /\ done2 \in Seq(Nat) /\ Len(done2) = Len(txs) + 1
      /\ \A b \in 1..Len(txs) : done2[b] = done[b]
      /\ done2[Len(txs) + 1] = 0
  BY <1>1, AppendProperties
<1>4. DOMAIN txs2 = 1..(Len(txs) + 1)
  BY <1>2, LenProperties
<1> HIDE DEF txs2, done2
<1>5. Accountable(txs2, done2)
  <2>1. Len(block) >= 0
    BY LenProperties
  <2>2. ASSUME NEW b \in DOMAIN txs2 PROVE done2[b] <= Len(txs2[b])
    <3>1. CASE b = Len(txs) + 1
      BY <1>2, <1>3, <2>1, <3>1
    <3>2. CASE b \in 1..Len(txs)
      <4>1. done2[b] = done[b] /\ txs2[b] = txs[b] /\ b \in DOMAIN txs
        BY <1>1, <1>2, <1>3, <3>2
      <4> QED
        BY <4>1 DEF Accountable
    <3> QED
      BY <1>1, <1>4, <3>1, <3>2
  <2> QED
    BY <1>2, <1>3, <2>2 DEF Accountable
<1>6. t \in Seq(Int) /\ Len(t) = Len(txs) /\ t2 \in Seq(Int) /\ Len(t2) = Len(txs) + 1
  BY <1>2, <1>5, BlockTotals
<1>7. \A b \in 1..Len(txs) : t2[b] = t[b]
  BY <1>1, <1>2, <1>3, <1>4 DEF Totals
<1>8. t2[Len(txs) + 1] = 0
  <2>1. Total(block, 0, w) = 0
    BY LenProperties, TotalProperties
  <2>2. Len(txs) + 1 \in DOMAIN txs2
    BY <1>1, <1>4
  <2> QED
    BY <1>2, <1>3, <2>1, <2>2 DEF Totals
<1>9. SumSeq(t2) = SumSeq(t) + t2[Len(txs) + 1]
  <2> HIDE DEF t, t2
  <2> QED
    BY <1>6, <1>7, SumSeqLonger
<1>10. SumSeq(t) \in Int
  BY <1>6, SumSeqType
<1>11. AppliedTotal(txs, done, w) = SumSeq(t) /\ AppliedTotal(txs2, done2, w) = SumSeq(t2)
  BY DEF AppliedTotal, Totals
<1>12. AppliedTotal(txs2, done2, w) = AppliedTotal(txs, done, w)
  <2> HIDE DEF t, t2
  <2> QED
    BY <1>8, <1>9, <1>10, <1>11
<1> QED
  BY <1>12 DEF txs2, done2

\* Applying the next transaction of any block adds what it is worth.
LEMMA TransactionApplied ==
  ASSUME NEW txs, NEW done, Accountable(txs, done), NEW k \in DOMAIN txs,
         done[k] < Len(txs[k]), NEW w
  PROVE  AppliedTotal(txs, [done EXCEPT ![k] = @ + 1], w)
           = AppliedTotal(txs, done, w) + Worth(txs[k][done[k] + 1], w)
<1> DEFINE done2 == [done EXCEPT ![k] = @ + 1]
           t == Totals(txs, done, w)
           t2 == Totals(txs, done2, w)
           d == Worth(txs[k][done[k] + 1], w)
<1>1. /\ Len(txs) \in Nat /\ DOMAIN txs = 1..Len(txs) /\ DOMAIN done = 1..Len(txs)
      /\ txs \in Seq(Seq(Tx)) /\ done \in Seq(Nat) /\ Len(done) = Len(txs)
  BY LenProperties DEF Accountable
<1>2. done[k] \in Nat /\ txs[k] \in Seq(Tx) /\ Len(txs[k]) \in Nat
  BY <1>1, ElementOfSeq, LenProperties
<1>3. done2 \in Seq(Nat) /\ Len(done2) = Len(txs)
  BY <1>1, <1>2, ExceptSeq
<1>4. \A b \in DOMAIN txs : done2[b] = IF b = k THEN done[k] + 1 ELSE done[b]
  BY <1>1
<1> HIDE DEF done2
<1>5. Accountable(txs, done2)
  <2>1. ASSUME NEW b \in DOMAIN txs PROVE done2[b] <= Len(txs[b])
    <3>1. CASE b = k
      BY <1>2, <1>4, <3>1
    <3>2. CASE b # k
      BY <1>4, <3>2 DEF Accountable
    <3> QED
      BY <3>1, <3>2
  <2> QED
    BY <1>1, <1>3, <2>1 DEF Accountable
<1>6. t \in Seq(Int) /\ Len(t) = Len(txs) /\ t2 \in Seq(Int) /\ Len(t2) = Len(txs)
  BY <1>5, BlockTotals
<1>7. d \in Int
  <2>1. done[k] + 1 \in 1..Len(txs[k])
    BY <1>2
  <2> QED
    BY <1>2, <2>1, ElementOfSeq, WorthType
<1>8. \A b \in 1..Len(txs) : t2[b] = IF b = k THEN t[b] + d ELSE t[b]
  <2> TAKE b \in 1..Len(txs)
  <2>1. t[b] = Total(txs[b], done[b], w) /\ t2[b] = Total(txs[b], done2[b], w)
    BY <1>1 DEF Totals
  <2>2. CASE b = k
    <3>1. done[k] \in 0..Len(txs[k])
      BY <1>2
    <3>2. Total(txs[k], done[k] + 1, w) = Total(txs[k], done[k], w) + d
      BY <1>2, <3>1, TotalProperties
    <3> QED
      BY <1>4, <2>1, <2>2, <3>2
  <2>3. CASE b # k
    BY <1>1, <1>4, <2>1, <2>3
  <2> QED
    BY <2>2, <2>3
<1>9. SumSeq(t2) = SumSeq(t) + d
  <2>1. k \in 1..Len(t) /\ Len(t2) = Len(t) /\ MoreAt(t, t2, Len(t), k, d)
    <3> HIDE DEF t, t2, d
    <3> QED
      BY <1>1, <1>6, <1>8 DEF MoreAt
  <2> HIDE DEF t, t2, d
  <2> QED
    BY <1>6, <1>7, <2>1, SumSeqChanged, Zenon
<1>10. AppliedTotal(txs, done, w) = SumSeq(t) /\ AppliedTotal(txs, done2, w) = SumSeq(t2)
  BY DEF AppliedTotal, Totals
<1> QED
  BY <1>9, <1>10 DEF done2

\* The genesis block, which has no transactions.
LEMMA NothingApplied ==
  ASSUME NEW txs \in Seq(Seq(Tx)), Len(txs) = 1, Len(txs[1]) = 0, NEW w
  PROVE  AppliedTotal(txs, <<0>>, w) = 0
<1> DEFINE none == <<0>>
           t == Totals(txs, none, w)
<1>1. DOMAIN txs = 1..1 /\ txs[1] \in Seq(Tx)
  BY LenProperties, ElementOfSeq
<1>2. none \in Seq(Nat) /\ Len(none) = 1 /\ none[1] = 0
  OBVIOUS
<1> HIDE DEF none
<1>3. Accountable(txs, none)
  BY <1>1, <1>2 DEF Accountable
<1>4. t \in Seq(Int) /\ Len(t) = 1
  BY <1>3, BlockTotals
<1>5. t[1] = 0
  <2>1. 0 \in 0..Len(txs[1]) /\ t[1] = Total(txs[1], 0, w)
    BY <1>1, <1>2 DEF Totals
  <2> QED
    BY <1>1, <2>1, TotalProperties
<1>6. SumSeq(t) = 0
  <2> DEFINE empty == <<>>
  <2>1. empty \in Seq(Int) /\ Len(empty) = 0
    OBVIOUS
  <2> HIDE DEF t, empty
  <2>2. SumSeq(t) = SumSeq(empty) + t[Len(t)]
    <3>1. Len(t) = Len(empty) + 1 /\ \A i \in 1..Len(empty) : t[i] = empty[i]
      BY <1>4, <2>1
    <3> QED
      BY <1>4, <2>1, <3>1, SumSeqLonger, Zenon
  <2>3. SumSeq(empty) = 0
    BY <2>1, SumSeqEmpty
  <2> QED
    BY <1>4, <1>5, <2>2, <2>3
<1>7. AppliedTotal(txs, none, w) = SumSeq(t)
  BY DEF AppliedTotal, Totals
<1> QED
  BY <1>6, <1>7 DEF none
=============================================================================
