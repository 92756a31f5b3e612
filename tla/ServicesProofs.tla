--------------------------- MODULE ServicesProofs ---------------------------
(***************************************************************************)
(* Proofs about the services that run beside the ledger: the rate limiter, *)
(* the WebSocket hub, wallet drafts, treasury wallets and exchange rates,  *)
(* for every value of their parameters; and the composition that the runs  *)
(* of MCServices check.                                                    *)
(***************************************************************************)
EXTENDS MCServices, AccountsProofs, KycProofs, SequenceTheorems, WellFoundedInduction

-----------------------------------------------------------------------------
(* The rate limiter *)

\* A set of natural numbers that is not empty has a least element.
LEMMA Least ==
  ASSUME NEW T \in SUBSET Nat, T # {}
  PROVE  Min(T) \in T /\ \A n \in T : Min(T) <= n
<1>1. PICK m \in T : \A n \in T : ~(<<n, m>> \in OpToRel(<, Nat))
  BY NatLessThanWellFounded, WFMin
<1>2. ASSUME NEW n \in T PROVE m <= n
  <2>1. <<n, m>> \in Nat \X Nat /\ <<n, m>>[1] = n /\ <<n, m>>[2] = m
    OBVIOUS
  <2>2. n < m => <<n, m>> \in OpToRel(<, Nat)
    BY <2>1, Zenon DEF OpToRel
  <2>3. ~(n < m)
    BY <1>1, <2>2, Zenon
  <2>. QED
    BY <2>3
<1>. QED
  BY <1>2 DEF Min

\* The calls popped are out of the window, the first one kept is in it.
LEMMA PoppedProperties ==
  ASSUME NEW q \in Seq(Nat), NEW t \in Nat
  PROVE  /\ Popped(q, t) \in 0..Len(q)
         /\ \A i \in 1..Popped(q, t) : ~InWindow(q[i], t)
         /\ Popped(q, t) < Len(q) => InWindow(q[Popped(q, t) + 1], t)
<1>. DEFINE stops == {n \in 0..Len(q) : n < Len(q) => InWindow(q[n + 1], t)}
<1>1. Len(q) \in Nat /\ Len(q) \in stops
  BY LenProperties
<1>s. stops \in SUBSET Nat /\ stops # {}
  BY <1>1
<1>2. Min(stops) \in stops /\ \A n \in stops : Min(stops) <= n
  BY <1>s, Least
<1>3. Popped(q, t) = Min(stops)
  BY DEF Popped
<1>4. ASSUME NEW i \in 1..Popped(q, t) PROVE ~InWindow(q[i], t)
  <2>1. i - 1 \in 0..Len(q) /\ i - 1 < Popped(q, t)
    BY <1>1, <1>2, <1>3
  <2>2. i - 1 \notin stops
    BY <1>2, <1>3, <2>1
  <2>. QED
    BY <2>1, <2>2
<1>. QED
  BY <1>2, <1>3, <1>4

LEMMA PrunedProperties ==
  ASSUME NEW q \in Seq(Nat), NEW t \in Nat
  PROVE  /\ Pruned(q, t) \in Seq(Nat)
         /\ Len(Pruned(q, t)) = Len(q) - Popped(q, t)
         /\ \A i \in 1..Len(Pruned(q, t)) : Pruned(q, t)[i] = q[Popped(q, t) + i]
<1>1. Popped(q, t) \in 0..Len(q) /\ Len(q) \in Nat
  BY PoppedProperties, LenProperties
<1>2. \A i \in (Popped(q, t) + 1)..Len(q) : q[i] \in Nat
  BY <1>1, ElementOfSeq
<1>. DEFINE k == Popped(q, t)
<1>. HIDE DEF k
<1>3. /\ SubSeq(q, k + 1, Len(q)) \in Seq(Nat)
      /\ Len(SubSeq(q, k + 1, Len(q))) = IF k + 1 <= Len(q) THEN Len(q) - (k + 1) + 1 ELSE 0
      /\ \A i \in 1..(Len(q) - (k + 1) + 1) : SubSeq(q, k + 1, Len(q))[i] = q[(k + 1) + i - 1]
  <2>1. k + 1 \in Int /\ Len(q) \in Int /\ \A i \in (k + 1)..Len(q) : q[i] \in Nat
    BY <1>1, <1>2 DEF k
  <2>. QED
    BY <2>1, SubSeqProperties
<1>4. Len(SubSeq(q, k + 1, Len(q))) = Len(q) - k
  BY <1>1, <1>3 DEF k
<1>5. \A i \in 1..(Len(q) - k) : SubSeq(q, k + 1, Len(q))[i] = q[k + i]
  BY <1>1, <1>3 DEF k
<1>. QED
  BY <1>3, <1>4, <1>5 DEF Pruned, k

\* The queue is the end of the history, and what came before it is out of the
\* window.
EndOf(q, a, t) ==
  /\ q \in Seq(Nat) /\ a \in Seq(Nat) /\ Len(q) <= Len(a)
  /\ \A i \in 1..Len(q) : q[i] = a[Len(a) - Len(q) + i]
  /\ \A i \in 1..(Len(a) - Len(q)) : ~InWindow(a[i], t)

LEMMA EndOfLater ==
  ASSUME NEW q, NEW a, NEW t \in Nat, EndOf(q, a, t)
  PROVE  EndOf(q, a, t + 1)
<1>1. ASSUME NEW i \in 1..(Len(a) - Len(q)) PROVE ~InWindow(a[i], t + 1)
  <2>1. Len(a) \in Nat /\ Len(q) \in Nat /\ a \in Seq(Nat)
    BY LenProperties DEF EndOf
  <2>2. a[i] \in Nat
    BY <2>1, ElementOfSeq
  <2>. QED
    BY <2>2, LimiterConfigured DEF EndOf, InWindow
<1>. QED
  BY <1>1 DEF EndOf

LEMMA EndOfPruned ==
  ASSUME NEW q, NEW a, NEW t \in Nat, EndOf(q, a, t)
  PROVE  EndOf(Pruned(q, t), a, t)
<1>1. /\ q \in Seq(Nat) /\ a \in Seq(Nat) /\ Len(q) \in Nat /\ Len(a) \in Nat /\ Len(q) <= Len(a)
      /\ \A i \in 1..Len(q) : q[i] = a[Len(a) - Len(q) + i]
      /\ \A i \in 1..(Len(a) - Len(q)) : ~InWindow(a[i], t)
  BY LenProperties DEF EndOf
<1>. DEFINE p == Pruned(q, t)
            k == Popped(q, t)
<1>2. /\ k \in 0..Len(q) /\ \A i \in 1..k : ~InWindow(q[i], t)
      /\ p \in Seq(Nat) /\ Len(p) = Len(q) - k /\ \A i \in 1..Len(p) : p[i] = q[k + i]
  BY <1>1, PoppedProperties, PrunedProperties
<1>. HIDE DEF p, k
<1>3. ASSUME NEW i \in 1..Len(p) PROVE p[i] = a[Len(a) - Len(p) + i]
  <2>1. k + i \in 1..Len(q) /\ Len(a) - Len(q) + (k + i) = Len(a) - Len(p) + i
    BY <1>1, <1>2
  <2>2. q[k + i] = a[Len(a) - Len(q) + (k + i)]
    BY <1>1, <2>1
  <2>. QED
    BY <1>2, <2>1, <2>2
<1>4. ASSUME NEW i \in 1..(Len(a) - Len(p)) PROVE ~InWindow(a[i], t)
  <2>1. CASE i <= Len(a) - Len(q)
    BY <1>1, <2>1
  <2>2. CASE i > Len(a) - Len(q)
    <3>. DEFINE j == i - (Len(a) - Len(q))
    <3>1. j \in 1..k /\ j \in 1..Len(q) /\ Len(a) - Len(q) + j = i
      BY <1>1, <1>2, <2>2
    <3>2. ~InWindow(q[j], t) /\ q[j] = a[Len(a) - Len(q) + j]
      BY <1>1, <1>2, <3>1
    <3>. QED
      BY <3>1, <3>2
  <2>. QED
    BY <1>1, <1>2, <2>1, <2>2
<1>5. Len(p) <= Len(a)
  BY <1>1, <1>2
<1>6. EndOf(p, a, t)
  BY <1>1, <1>2, <1>3, <1>4, <1>5 DEF EndOf
<1>. QED
  BY <1>6 DEF p

LEMMA EndOfAppended ==
  ASSUME NEW q, NEW a, NEW t \in Nat, EndOf(q, a, t)
  PROVE  EndOf(Append(q, t), Append(a, t), t)
<1>1. /\ q \in Seq(Nat) /\ a \in Seq(Nat) /\ Len(q) \in Nat /\ Len(a) \in Nat /\ Len(q) <= Len(a)
      /\ \A i \in 1..Len(q) : q[i] = a[Len(a) - Len(q) + i]
      /\ \A i \in 1..(Len(a) - Len(q)) : ~InWindow(a[i], t)
  BY LenProperties DEF EndOf
<1>. DEFINE p == Append(q, t)
            b == Append(a, t)
<1>2. /\ p \in Seq(Nat) /\ Len(p) = Len(q) + 1 /\ p[Len(q) + 1] = t
      /\ \A i \in 1..Len(q) : p[i] = q[i]
  BY <1>1, AppendProperties
<1>3. /\ b \in Seq(Nat) /\ Len(b) = Len(a) + 1 /\ b[Len(a) + 1] = t
      /\ \A i \in 1..Len(a) : b[i] = a[i]
  BY <1>1, AppendProperties
<1>. HIDE DEF p, b
<1>4. ASSUME NEW i \in 1..Len(p) PROVE p[i] = b[Len(b) - Len(p) + i]
  <2>1. CASE i = Len(q) + 1
    BY <1>1, <1>2, <1>3, <2>1
  <2>2. CASE i # Len(q) + 1
    <3>. DEFINE j == Len(a) - Len(q) + i
    <3>n. /\ Len(p) = Len(q) + 1 /\ Len(b) = Len(a) + 1
          /\ Len(q) \in Nat /\ Len(a) \in Nat /\ Len(q) <= Len(a)
      BY <1>1, <1>2, <1>3
    <3>1. i \in 1..Len(q) /\ j \in 1..Len(a) /\ Len(b) - Len(p) + i = j
      BY <2>2, <3>n
    <3>2. p[i] = q[i] /\ q[i] = a[j]
      BY <1>1, <1>2, <3>1
    <3>. HIDE DEF j
    <3>3. b[j] = a[j]
      BY <1>3, <3>1
    <3>. QED
      BY <3>1, <3>2, <3>3
  <2>. QED
    BY <2>1, <2>2
<1>5. ASSUME NEW i \in 1..(Len(b) - Len(p)) PROVE ~InWindow(b[i], t)
  <2>1. i \in 1..(Len(a) - Len(q)) /\ i \in 1..Len(a)
    BY <1>1, <1>2, <1>3
  <2>. QED
    BY <1>1, <1>3, <2>1
<1>6. EndOf(p, b, t)
  BY <1>1, <1>2, <1>3, <1>4, <1>5 DEF EndOf
<1>. QED
  BY <1>6 DEF p, b

LimiterInv ==
  /\ now \in 0..MaxNow
  /\ EndOf(timestamps, admitted, now)
  /\ \A i \in 1..Len(timestamps) : timestamps[i] <= now
  /\ Len(timestamps) <= max_calls
  /\ WindowHolds

\* Popping takes calls away and adds none.
LEMMA PrunedBounded ==
  ASSUME LimiterInv
  PROVE  /\ \A i \in 1..Len(Pruned(timestamps, now)) : Pruned(timestamps, now)[i] <= now
         /\ Len(Pruned(timestamps, now)) <= max_calls
         /\ now \in Nat /\ timestamps \in Seq(Nat)
         /\ Popped(timestamps, now) \in 0..Len(timestamps)
         /\ Len(Pruned(timestamps, now)) = Len(timestamps) - Popped(timestamps, now)
<1>1. now \in Nat /\ timestamps \in Seq(Nat) /\ Len(timestamps) \in Nat /\ max_calls \in Nat
  BY GatewayBounds, LimiterConfigured, LenProperties DEF LimiterInv, EndOf
<1>. DEFINE p == Pruned(timestamps, now)
            k == Popped(timestamps, now)
<1>2. k \in 0..Len(timestamps) /\ Len(p) = Len(timestamps) - k /\ \A i \in 1..Len(p) : p[i] = timestamps[k + i]
  BY <1>1, PoppedProperties, PrunedProperties
<1>. HIDE DEF p, k
<1>3. ASSUME NEW i \in 1..Len(p) PROVE p[i] <= now
  <2>1. k + i \in 1..Len(timestamps)
    BY <1>1, <1>2
  <2>. QED
    BY <1>2, <2>1 DEF LimiterInv
<1>4. Len(p) <= max_calls
  BY <1>1, <1>2 DEF LimiterInv
<1>. QED
  BY <1>1, <1>2, <1>3, <1>4 DEF p, k

\* A call admitted now and the one max_calls before it: that one had left the
\* queue, or leaves it now.
LEMMA AdmittedApart ==
  ASSUME LimiterInv, Admits(timestamps, now)
  PROVE  \A i \in 1..Len(Append(admitted, now)) :
           i + max_calls <= Len(Append(admitted, now)) =>
             Append(admitted, now)[i + max_calls] - Append(admitted, now)[i] > Period
<1>1. /\ now \in Nat /\ admitted \in Seq(Nat) /\ Len(admitted) \in Nat
      /\ max_calls \in Nat \ {0} /\ Period \in Nat
  BY GatewayBounds, LimiterConfigured, LenProperties DEF LimiterInv, EndOf
<1>. DEFINE p == Pruned(timestamps, now)
            b == Append(admitted, now)
<1>2. EndOf(p, admitted, now) /\ Len(p) < max_calls
  BY <1>1, EndOfPruned DEF LimiterInv, Admits
<1>3. Len(p) \in Nat /\ \A i \in 1..(Len(admitted) - Len(p)) : ~InWindow(admitted[i], now)
  BY <1>2, LenProperties DEF EndOf
<1>4. /\ Len(b) = Len(admitted) + 1 /\ b[Len(admitted) + 1] = now
      /\ \A i \in 1..Len(admitted) : b[i] = admitted[i] /\ admitted[i] \in Nat
  BY <1>1, AppendProperties, ElementOfSeq
<1>. HIDE DEF p, b
<1>5. ASSUME NEW i \in 1..Len(b), i + max_calls <= Len(b)
      PROVE  b[i + max_calls] - b[i] > Period
  <2>1. CASE i + max_calls = Len(b)
    <3>1. i \in 1..(Len(admitted) - Len(p)) /\ i \in 1..Len(admitted)
      BY <1>1, <1>2, <1>3, <1>4, <2>1
    <3>2. b[i + max_calls] = now /\ b[i] = admitted[i] /\ admitted[i] \in Nat /\ ~InWindow(admitted[i], now)
      BY <1>3, <1>4, <2>1, <3>1
    <3>. QED
      BY <1>1, <3>2 DEF InWindow
  <2>2. CASE i + max_calls # Len(b)
    <3>1. i + max_calls \in 1..Len(admitted) /\ i \in 1..Len(admitted)
      BY <1>1, <1>4, <1>5, <2>2
    <3>2. b[i + max_calls] = admitted[i + max_calls] /\ b[i] = admitted[i]
      BY <1>4, <3>1
    <3>3. i + max_calls <= Len(admitted)
      BY <3>1
    <3>. QED
      BY <3>1, <3>2, <3>3 DEF LimiterInv, WindowHolds
  <2>. QED
    BY <2>1, <2>2
<1>. QED
  BY <1>5 DEF b

LEMMA NextLimiterInv == LimiterInv /\ [GatewayNext]_gatewayVars => LimiterInv'
<1>. SUFFICES ASSUME LimiterInv, [GatewayNext]_gatewayVars PROVE LimiterInv'
  OBVIOUS
<1>t. now \in Nat /\ now \in 0..MaxNow /\ EndOf(timestamps, admitted, now)
  BY GatewayBounds DEF LimiterInv
<1>1. CASE UNCHANGED <<now, timestamps, admitted>>
  BY <1>1 DEF LimiterInv, WindowHolds
<1>2. CASE Tick
  <2>1. now' = now + 1 /\ now' \in 0..MaxNow /\ UNCHANGED <<timestamps, admitted>>
    BY <1>2, <1>t, GatewayBounds DEF Tick
  <2>2. EndOf(timestamps, admitted, now + 1)
    BY <1>t, EndOfLater
  <2>3. \A i \in 1..Len(timestamps) : timestamps[i] <= now + 1
    <3>1. timestamps \in Seq(Nat)
      BY <1>t DEF EndOf
    <3>2. \A i \in 1..Len(timestamps) : timestamps[i] \in Nat
      BY <3>1, ElementOfSeq
    <3>. QED
      BY <1>t, <3>2 DEF LimiterInv
  <2>. QED
    BY <2>1, <2>2, <2>3 DEF LimiterInv, WindowHolds
<1>3. CASE MineBlock
  <2>. DEFINE p == Pruned(timestamps, now)
  <2>1. /\ timestamps' = Append(p, now) /\ admitted' = Append(admitted, now) /\ now' = now
        /\ Admits(timestamps, now)
    BY <1>3 DEF MineBlock
  <2>2. EndOf(p, admitted, now)
    BY <1>t, EndOfPruned
  <2>3. /\ \A i \in 1..Len(p) : p[i] <= now
        /\ p \in Seq(Nat) /\ Len(p) \in Nat /\ Len(p) < max_calls /\ max_calls \in Nat
    BY <2>1, <2>2, PrunedBounded, LenProperties, LimiterConfigured DEF Admits, EndOf
  <2>4. EndOf(timestamps', admitted', now')
    BY <1>t, <2>1, <2>2, EndOfAppended
  <2>. HIDE DEF p
  <2>5. /\ Len(Append(p, now)) = Len(p) + 1 /\ Append(p, now)[Len(p) + 1] = now
        /\ \A i \in 1..Len(p) : Append(p, now)[i] = p[i]
    BY <1>t, <2>3, AppendProperties
  <2>6. \A i \in 1..Len(timestamps') : timestamps'[i] <= now'
    <3>. SUFFICES ASSUME NEW i \in 1..(Len(p) + 1) PROVE Append(p, now)[i] <= now
      BY <2>1, <2>5
    <3>1. CASE i = Len(p) + 1
      BY <1>t, <2>5, <3>1
    <3>2. CASE i # Len(p) + 1
      BY <2>3, <2>5, <3>2
    <3>. QED
      BY <3>1, <3>2
  <2>7. Len(timestamps') <= max_calls
    BY <2>1, <2>3, <2>5
  <2>8. WindowHolds'
    BY <2>1, AdmittedApart DEF WindowHolds
  <2>. QED
    BY <1>t, <2>1, <2>4, <2>6, <2>7, <2>8 DEF LimiterInv
<1>4. CASE MineRefused
  <2>1. timestamps' = Pruned(timestamps, now) /\ UNCHANGED <<now, admitted>>
    BY <1>4 DEF MineRefused
  <2>2. EndOf(Pruned(timestamps, now), admitted, now)
    BY <1>t, EndOfPruned
  <2>. QED
    BY <2>1, <2>2, PrunedBounded DEF LimiterInv, WindowHolds
<1>. QED
  BY <1>1, <1>2, <1>3, <1>4 DEF GatewayNext, gatewayVars, LegacyMine

LEMMA LimiterInvariant == GatewayInit /\ [][GatewayNext]_gatewayVars => []LimiterInv
<1>1. GatewayInit => LimiterInv
  <2>. SUFFICES ASSUME GatewayInit PROVE LimiterInv
    OBVIOUS
  <2>1. timestamps = <<>> /\ admitted = <<>> /\ now = 0
    BY DEF GatewayInit
  <2>2. <<>> \in Seq(Nat) /\ Len(<<>>) = 0
    BY EmptySeq
  <2>3. EndOf(timestamps, admitted, now)
    BY <2>1, <2>2 DEF EndOf
  <2>. QED
    BY <2>1, <2>2, <2>3, GatewayBounds, LimiterConfigured DEF LimiterInv, WindowHolds
<1>. QED
  BY <1>1, NextLimiterInv, PTL

\* Any closed period holds at most max_calls of the calls admitted, for every
\* limit, period and clock.
THEOREM WindowNeverOverfull == GatewaySpec => []WindowHolds
<1>1. LimiterInv => WindowHolds
  BY DEF LimiterInv
<1>. QED
  BY <1>1, LimiterInvariant, PTL DEF GatewaySpec

\* Rounding down to whole seconds and adding one.
LEMMA WholeSeconds ==
  ASSUME NEW x \in Nat, NEW t \in Nat \ {0}
  PROVE  x \div t \in Nat /\ (x \div t) * t <= x /\ x < (x \div t + 1) * t
  OBVIOUS

\* A full queue whose first call is in the window at time t refuses a call then;
\* when that one has left the window, a call is admitted.
LEMMA FullQueue ==
  ASSUME NEW q \in Seq(Nat), NEW t \in Nat, Len(q) = max_calls
  PROVE  Admits(q, t) <=> ~InWindow(q[1], t)
<1>1. max_calls \in Nat \ {0} /\ Popped(q, t) \in 0..Len(q) /\ Len(Pruned(q, t)) = Len(q) - Popped(q, t)
  BY LimiterConfigured, PoppedProperties, PrunedProperties
<1>2. CASE Popped(q, t) = 0
  <2>1. InWindow(q[1], t)
    <3>1. 0 < Len(q) => InWindow(q[0 + 1], t)
      BY <1>2, PoppedProperties
    <3>. QED
      BY <1>1, <3>1
  <2>. QED
    BY <1>1, <1>2, <2>1 DEF Admits
<1>3. CASE Popped(q, t) # 0
  <2>1. 1 \in 1..Popped(q, t)
    BY <1>1, <1>3
  <2>2. ~InWindow(q[1], t)
    BY <2>1, PoppedProperties
  <2>. QED
    BY <1>1, <1>3, <2>2 DEF Admits
<1>. QED
  BY <1>2, <1>3

\* The seconds that a refused client is told are enough, and one less is not.
THEOREM RetryAfterIsExact == GatewaySpec => []RetryAfterExact
<1>1. LimiterInv => RetryAfterExact
  <2>. SUFFICES ASSUME LimiterInv, ~Admits(timestamps, now)
                PROVE  LET seconds == RetryAfter(timestamps, now)
                       IN /\ Admits(timestamps, now + seconds * TicksPerSecond)
                          /\ ~Admits(timestamps, now + (seconds - 1) * TicksPerSecond)
    BY DEF RetryAfterExact
  <2>1. /\ now \in Nat /\ timestamps \in Seq(Nat) /\ Len(timestamps) \in Nat
        /\ max_calls \in Nat \ {0} /\ Period \in Nat /\ TicksPerSecond \in Nat \ {0}
    BY PrunedBounded, LenProperties, LimiterConfigured
  <2>2. Len(timestamps) = max_calls /\ Popped(timestamps, now) = 0
    BY <2>1, PrunedBounded DEF Admits, LimiterInv
  <2>3. /\ timestamps[1] \in Nat /\ timestamps[1] <= now /\ InWindow(timestamps[1], now)
        /\ Pruned(timestamps, now) = timestamps
    <3>1. 1 \in 1..Len(timestamps)
      BY <2>1, <2>2
    <3>2. SubSeq(timestamps, 0 + 1, Len(timestamps)) = timestamps
      BY <2>1, SubSeqFull
    <3>. QED
      BY <2>1, <2>2, <3>1, <3>2, ElementOfSeq, FullQueue DEF Pruned, LimiterInv
  <2>. DEFINE wait == Period - (now - timestamps[1])
              s == wait \div TicksPerSecond
  <2>4. wait \in Nat
    BY <2>1, <2>3 DEF InWindow
  <2>5. s \in Nat /\ s * TicksPerSecond <= wait /\ wait < (s + 1) * TicksPerSecond
    BY <2>1, <2>4, WholeSeconds
  <2>6. RetryAfter(timestamps, now) = s + 1
    BY <2>3 DEF RetryAfter
  <2>. HIDE DEF s
  <2>7. Admits(timestamps, now + (s + 1) * TicksPerSecond)
    <3>1. (s + 1) * TicksPerSecond \in Nat
      BY <2>1, <2>5
    <3>2. ~InWindow(timestamps[1], now + (s + 1) * TicksPerSecond)
      BY <2>1, <2>3, <2>5, <3>1 DEF InWindow
    <3>. QED
      BY <2>1, <2>2, <3>1, <3>2, FullQueue
  <2>8. ~Admits(timestamps, now + s * TicksPerSecond)
    <3>1. s * TicksPerSecond \in Nat
      BY <2>1, <2>5
    <3>2. InWindow(timestamps[1], now + s * TicksPerSecond)
      BY <2>1, <2>3, <2>5, <3>1 DEF InWindow
    <3>. QED
      BY <2>1, <2>2, <3>1, <3>2, FullQueue
  <2>9. RetryAfter(timestamps, now) - 1 = s
    BY <2>5, <2>6
  <2>10. /\ Admits(timestamps, now + RetryAfter(timestamps, now) * TicksPerSecond)
         /\ ~Admits(timestamps, now + (RetryAfter(timestamps, now) - 1) * TicksPerSecond)
    BY <2>6, <2>7, <2>8, <2>9, Zenon
  <2>. QED
    BY <2>10
<1>. QED
  BY <1>1, LimiterInvariant, PTL DEF GatewaySpec

-----------------------------------------------------------------------------
(* The WebSocket hub *)

\* What a client was sent, is being sent and has queued adds up to what is due.
Flow(sent, inHand, queued, owed) ==
  /\ {sent, inHand, queued, owed} \subseteq Seq(Nat)
  /\ Len(inHand) <= 1
  /\ sent \o inHand \o queued = owed

LEMMA FlowBroadcast ==
  ASSUME NEW g, NEW s, NEW q, NEW d, Flow(g, s, q, d), NEW m \in Nat
  PROVE  Flow(g, s, Append(q, m), Append(d, m))
<1>1. g \in Seq(Nat) /\ s \in Seq(Nat) /\ q \in Seq(Nat) /\ d \in Seq(Nat) /\ <<m>> \in Seq(Nat)
      /\ g \o s \in Seq(Nat) /\ Len(s) <= 1
  BY ConcatProperties DEF Flow
<1>2. Append(q, m) = q \o <<m>> /\ Append(d, m) = d \o <<m>>
  BY <1>1, AppendIsConcat
<1>3. (g \o s \o q) \o <<m>> = g \o s \o (q \o <<m>>)
  <2>. DEFINE gs == g \o s
              one == <<m>>
  <2>1. gs \in Seq(Nat) /\ one \in Seq(Nat) /\ q \in Seq(Nat)
    BY <1>1
  <2>. HIDE DEF gs, one
  <2>2. (gs \o q) \o one = gs \o (q \o one)
    BY <2>1, ConcatAssociative
  <2>. QED
    BY <2>2 DEF gs, one
<1>4. Append(q, m) \in Seq(Nat) /\ Append(d, m) \in Seq(Nat)
  BY <1>1, AppendProperties
<1>5. g \o s \o Append(q, m) = Append(d, m)
  BY <1>2, <1>3 DEF Flow
<1>. QED
  BY <1>1, <1>4, <1>5 DEF Flow

LEMMA FlowTake ==
  ASSUME NEW g, NEW q, NEW d, Flow(g, <<>>, q, d), q # <<>>
  PROVE  Flow(g, <<Head(q)>>, Tail(q), d)
<1>1. g \in Seq(Nat) /\ q \in Seq(Nat) /\ d \in Seq(Nat)
  BY DEF Flow
<1>2. Head(q) \in Nat /\ Tail(q) \in Seq(Nat) /\ <<Head(q)>> \in Seq(Nat) /\ Len(<<Head(q)>>) = 1
  BY <1>1, HeadTailProperties
<1>3. q = <<Head(q)>> \o Tail(q)
  <2>1. Len(q) \in Nat \ {0}
    BY <1>1, EmptySeq
  <2>2. SubSeq(q, 1, Len(q)) = <<q[1]>> \o SubSeq(q, 1 + 1, Len(q))
    BY <1>1, <2>1, SubSeqRecursiveFirst
  <2>3. SubSeq(q, 1, Len(q)) = q /\ Tail(q) = SubSeq(q, 2, Len(q))
    BY <1>1, SubSeqFull, TailIsSubSeq
  <2>4. Head(q) = q[1]
    BY <1>1 DEF Head
  <2>. QED
    BY <2>2, <2>3, <2>4
<1>4. g \o <<>> = g
  BY <1>1, ConcatEmptySeq
<1>5. (g \o <<Head(q)>>) \o Tail(q) = g \o (<<Head(q)>> \o Tail(q))
  BY <1>1, <1>2, ConcatAssociative
<1>6. g \o <<Head(q)>> \o Tail(q) = d
  BY <1>3, <1>4, <1>5 DEF Flow
<1>. DEFINE inHand == <<Head(q)>>
<1>7. inHand \in Seq(Nat) /\ Len(inHand) <= 1 /\ g \o inHand \o Tail(q) = d
  BY <1>2, <1>6
<1>. HIDE DEF inHand
<1>8. Flow(g, inHand, Tail(q), d)
  BY <1>1, <1>2, <1>7 DEF Flow
<1>. QED
  BY <1>8 DEF inHand

LEMMA FlowSend ==
  ASSUME NEW g, NEW s, NEW q, NEW d, Flow(g, s, q, d)
  PROVE  Flow(g \o s, <<>>, q, d)
<1>1. g \in Seq(Nat) /\ s \in Seq(Nat) /\ q \in Seq(Nat) /\ d \in Seq(Nat)
  BY DEF Flow
<1>2. g \o s \in Seq(Nat) /\ <<>> \in Seq(Nat) /\ Len(<<>>) = 0
  BY <1>1, ConcatProperties, EmptySeq
<1>3. (g \o s) \o <<>> = g \o s
  BY <1>2, ConcatEmptySeq
<1>4. (g \o s) \o <<>> \o q = d
  BY <1>3 DEF Flow
<1>. QED
  BY <1>1, <1>2, <1>4 DEF Flow

\* d: heights announced, in order, of h blocks of which the old interface mined L.
Announced(d, h, L) ==
  /\ d \in Seq(Nat)
  /\ \A i \in 1..Len(d) :
       /\ d[i] \in 1..h /\ d[i] \notin L
       /\ i > 1 => d[i - 1] < d[i] /\ (d[i - 1] + 1)..(d[i] - 1) \subseteq L
  /\ Len(d) > 0 => (d[Len(d)] + 1)..h \subseteq L

LEMMA AnnouncedMined ==
  ASSUME NEW d, NEW h \in Nat, NEW L \in SUBSET (1..h), Announced(d, h, L)
  PROVE  Announced(Append(d, h + 1), h + 1, L)
<1>. DEFINE e == Append(d, h + 1)
<1>1. d \in Seq(Nat) /\ Len(d) \in Nat /\ \A i \in 1..Len(d) : d[i] \in Nat
  BY LenProperties, ElementOfSeq DEF Announced
<1>2. /\ e \in Seq(Nat) /\ Len(e) = Len(d) + 1 /\ e[Len(d) + 1] = h + 1
      /\ \A i \in 1..Len(d) : e[i] = d[i]
  BY <1>1, AppendProperties
<1>. HIDE DEF e
<1>3. ASSUME NEW i \in 1..Len(e)
      PROVE  /\ e[i] \in 1..(h + 1) /\ e[i] \notin L
             /\ i > 1 => e[i - 1] < e[i] /\ (e[i - 1] + 1)..(e[i] - 1) \subseteq L
  <2>1. CASE i = Len(d) + 1
    <3>1. e[i] = h + 1
      BY <1>2, <2>1
    <3>2. ASSUME i > 1 PROVE e[i - 1] < h + 1 /\ (e[i - 1] + 1)..(e[i] - 1) \subseteq L
      <4>1. i - 1 = Len(d) /\ Len(d) \in 1..Len(d) /\ Len(d) > 0
        BY <1>1, <2>1, <3>2
      <4>2. e[i - 1] = d[Len(d)]
        BY <1>2, <4>1
      <4>3. d[Len(d)] \in 1..h /\ (d[Len(d)] + 1)..h \subseteq L
        BY <4>1 DEF Announced
      <4>4. e[i] - 1 = h
        BY <3>1
      <4>. QED
        BY <4>2, <4>3, <4>4
    <3>. QED
      BY <3>1, <3>2
  <2>2. CASE i # Len(d) + 1
    <3>1. i \in 1..Len(d) /\ e[i] = d[i]
      BY <1>1, <1>2, <2>2
    <3>2. i > 1 => e[i - 1] = d[i - 1]
      <4>1. i > 1 => i - 1 \in 1..Len(d)
        BY <3>1
      <4>. QED
        BY <1>2, <4>1
    <3>3. /\ d[i] \in 1..h /\ d[i] \notin L
          /\ i > 1 => d[i - 1] < d[i] /\ (d[i - 1] + 1)..(d[i] - 1) \subseteq L
      BY <3>1 DEF Announced
    <3>. QED
      BY <3>1, <3>2, <3>3
  <2>. QED
    BY <2>1, <2>2
<1>4. (e[Len(e)] + 1)..(h + 1) \subseteq L
  <2>1. e[Len(e)] = h + 1
    BY <1>2
  <2>. QED
    BY <2>1
<1>5. Announced(e, h + 1, L)
  BY <1>2, <1>3, <1>4 DEF Announced
<1>. QED
  BY <1>5 DEF e

LEMMA AnnouncedLegacy ==
  ASSUME NEW d, NEW h \in Nat, NEW L \in SUBSET (1..h), Announced(d, h, L)
  PROVE  Announced(d, h + 1, L \cup {h + 1})
<1>1. d \in Seq(Nat) /\ Len(d) \in Nat
  BY LenProperties DEF Announced
<1>2. ASSUME NEW i \in 1..Len(d)
      PROVE  /\ d[i] \in 1..(h + 1) /\ d[i] \notin L \cup {h + 1}
             /\ i > 1 => d[i - 1] < d[i] /\ (d[i - 1] + 1)..(d[i] - 1) \subseteq L \cup {h + 1}
  BY DEF Announced
<1>3. Len(d) > 0 => (d[Len(d)] + 1)..(h + 1) \subseteq L \cup {h + 1}
  <2>. SUFFICES ASSUME Len(d) > 0, NEW x \in (d[Len(d)] + 1)..(h + 1), x # h + 1 PROVE x \in L
    OBVIOUS
  <2>1. Len(d) \in 1..Len(d)
    BY <1>1
  <2>2. d[Len(d)] \in Nat
    BY <2>1 DEF Announced
  <2>3. x \in (d[Len(d)] + 1)..h
    BY <2>2
  <2>. QED
    BY <2>3 DEF Announced
<1>. QED
  BY <1>1, <1>2, <1>3 DEF Announced

LEMMA AnnouncedNothing ==
  ASSUME NEW h, NEW L
  PROVE  Announced(<<>>, h, L)
<1>1. <<>> \in Seq(Nat) /\ Len(<<>>) = 0
  BY EmptySeq
<1>. QED
  BY <1>1 DEF Announced

HubTypes ==
  /\ height \in 0..MaxHeight /\ legacy \subseteq 1..height
  /\ Connected \subseteq Client /\ stalled \subseteq Connected
  /\ DOMAIN sending = Connected /\ DOMAIN due = Connected /\ DOMAIN got = Connected

HubInv ==
  /\ HubTypes
  /\ \A c \in Connected :
       /\ Flow(got[c], sending[c], queue[c], due[c])
       /\ Announced(due[c], height, legacy)

\* A broadcast, when the block is counted in the same step.
LEMMA HubBroadcast ==
  ASSUME HubInv, Broadcast(height + 1), height' = height + 1, height < MaxHeight, UNCHANGED legacy
  PROVE  HubInv'
<1>1. height \in Nat /\ height' \in 0..MaxHeight /\ legacy \in SUBSET (1..height) /\ legacy \subseteq 1..height'
  BY GatewayBounds DEF HubInv, HubTypes
<1>2. /\ Connected' = Connected /\ DOMAIN due' = Connected
      /\ \A c \in Connected : queue'[c] = Append(queue[c], height + 1) /\ due'[c] = Append(due[c], height + 1)
      /\ UNCHANGED <<sending, stalled, got>>
  BY DEF Broadcast, Connected
<1>3. ASSUME NEW c \in Connected
      PROVE  /\ Flow(got'[c], sending'[c], queue'[c], due'[c])
             /\ Announced(due'[c], height', legacy')
  <2>1. Flow(got[c], sending[c], queue[c], due[c]) /\ Announced(due[c], height, legacy)
    BY DEF HubInv
  <2>2. /\ Flow(got[c], sending[c], Append(queue[c], height + 1), Append(due[c], height + 1))
        /\ Announced(Append(due[c], height + 1), height + 1, legacy)
    BY <1>1, <2>1, FlowBroadcast, AnnouncedMined
  <2>. QED
    BY <1>2, <2>2
<1>4. HubTypes'
  BY <1>1, <1>2 DEF HubInv, HubTypes
<1>. QED
  BY <1>2, <1>3, <1>4 DEF HubInv

\* One step of one client.
LEMMA HubClient ==
  ASSUME HubInv, NEW c \in Client, UNCHANGED <<height, legacy>>,
         Connect(c) \/ Take(c) \/ Send(c) \/ Stall(c) \/ Disconnect(c)
  PROVE  HubInv'
<1>t. HubTypes
  BY DEF HubInv
<1>1. CASE Connect(c)
  <2>1. /\ c \notin Connected /\ UNCHANGED stalled
        /\ Connected' = Connected \cup {c} /\ DOMAIN sending' = Connected'
        /\ DOMAIN due' = Connected' /\ DOMAIN got' = Connected'
        /\ queue'[c] = <<>> /\ sending'[c] = <<>> /\ due'[c] = <<>> /\ got'[c] = <<>>
        /\ \A x \in Connected : /\ queue'[x] = queue[x] /\ sending'[x] = sending[x]
                                /\ due'[x] = due[x] /\ got'[x] = got[x]
    BY <1>1, <1>t DEF Connect, WithClient, HubTypes, Connected
  <2>2. Flow(<<>>, <<>>, <<>>, <<>>)
    <3>1. <<>> \in Seq(Nat) /\ Len(<<>>) = 0
      BY EmptySeq
    <3>2. <<>> \o <<>> = <<>>
      BY <3>1, ConcatEmptySeq
    <3>. QED
      BY <3>1, <3>2 DEF Flow
  <2>3. Announced(<<>>, height, legacy)
    BY AnnouncedNothing
  <2>4. HubTypes'
    BY <1>t, <2>1 DEF HubTypes
  <2>5. \A x \in Connected' : Flow(got'[x], sending'[x], queue'[x], due'[x]) /\ Announced(due'[x], height, legacy)
    BY <2>1, <2>2, <2>3 DEF HubInv
  <2>. QED
    BY <2>4, <2>5 DEF HubInv
<1>2. CASE Take(c)
  <2>1. /\ c \in Connected /\ sending[c] = <<>> /\ queue[c] # <<>>
        /\ UNCHANGED <<stalled, due, got>> /\ Connected' = Connected /\ DOMAIN sending' = Connected
        /\ sending'[c] = <<Head(queue[c])>> /\ queue'[c] = Tail(queue[c])
        /\ \A x \in Connected \ {c} : sending'[x] = sending[x] /\ queue'[x] = queue[x]
    BY <1>2, <1>t DEF Take, HubTypes, Connected
  <2>2. Flow(got[c], <<>>, queue[c], due[c])
    BY <2>1 DEF HubInv
  <2>3. Flow(got[c], <<Head(queue[c])>>, Tail(queue[c]), due[c])
    BY <2>1, <2>2, FlowTake
  <2>4. HubTypes'
    BY <1>t, <2>1 DEF HubTypes
  <2>5. \A x \in Connected : Flow(got'[x], sending'[x], queue'[x], due'[x]) /\ Announced(due'[x], height, legacy)
    BY <2>1, <2>3 DEF HubInv
  <2>. QED
    BY <2>1, <2>4, <2>5 DEF HubInv
<1>3. CASE Send(c)
  <2>1. /\ c \in Connected
        /\ UNCHANGED <<queue, stalled, due>> /\ Connected' = Connected
        /\ DOMAIN sending' = Connected /\ DOMAIN got' = Connected
        /\ got'[c] = got[c] \o sending[c] /\ sending'[c] = <<>>
        /\ \A x \in Connected \ {c} : sending'[x] = sending[x] /\ got'[x] = got[x]
    BY <1>3, <1>t DEF Send, HubTypes, Connected
  <2>2. Flow(got[c] \o sending[c], <<>>, queue[c], due[c])
    BY <2>1, FlowSend DEF HubInv
  <2>3. HubTypes'
    BY <1>t, <2>1 DEF HubTypes
  <2>4. \A x \in Connected : Flow(got'[x], sending'[x], queue'[x], due'[x]) /\ Announced(due'[x], height, legacy)
    BY <2>1, <2>2 DEF HubInv
  <2>. QED
    BY <2>1, <2>3, <2>4 DEF HubInv
<1>4. CASE Stall(c)
  BY <1>4 DEF Stall, HubInv, HubTypes, Connected
<1>5. CASE Disconnect(c)
  <2>1. /\ Connected' = Connected \ {c} /\ DOMAIN sending' = Connected' /\ DOMAIN due' = Connected'
        /\ DOMAIN got' = Connected' /\ stalled' = stalled \ {c}
        /\ \A x \in Connected' : /\ queue'[x] = queue[x] /\ sending'[x] = sending[x]
                                 /\ due'[x] = due[x] /\ got'[x] = got[x]
    BY <1>5, <1>t DEF Disconnect, WithoutClient, HubTypes, Connected
  <2>2. HubTypes'
    BY <1>t, <2>1 DEF HubTypes
  <2>3. \A x \in Connected' : Flow(got'[x], sending'[x], queue'[x], due'[x]) /\ Announced(due'[x], height, legacy)
    BY <2>1 DEF HubInv
  <2>. QED
    BY <2>2, <2>3 DEF HubInv
<1>. QED
  BY <1>1, <1>2, <1>3, <1>4, <1>5

LEMMA HubInvariant == GatewayInit /\ [][GatewayNext]_gatewayVars => []HubInv
<1>1. GatewayInit => HubInv
  BY GatewayBounds DEF GatewayInit, HubInit, HubInv, HubTypes, Connected
<1>2. HubInv /\ [GatewayNext]_gatewayVars => HubInv'
  <2>. SUFFICES ASSUME HubInv, [GatewayNext]_gatewayVars PROVE HubInv'
    OBVIOUS
  <2>1. CASE UNCHANGED <<height, legacy, hubVars>>
    BY <2>1 DEF HubInv, HubTypes, Connected, hubVars
  <2>2. CASE MineBlock
    BY <2>2, HubBroadcast DEF MineBlock
  <2>3. CASE LegacyMine
    <3>1. /\ height \in Nat /\ height' = height + 1 /\ height' \in 0..MaxHeight
          /\ legacy \in SUBSET (1..height) /\ legacy' = legacy \cup {height + 1}
          /\ UNCHANGED <<queue, sending, stalled, due, got>>
      BY <2>3, GatewayBounds DEF LegacyMine, HubInv, HubTypes, hubVars
    <3>2. \A c \in Connected : Announced(due[c], height + 1, legacy \cup {height + 1})
      BY <3>1, AnnouncedLegacy DEF HubInv
    <3>3. legacy' \subseteq 1..height'
      BY <3>1
    <3>. QED
      BY <3>1, <3>2, <3>3 DEF HubInv, HubTypes, Connected
  <2>4. CASE HubNext /\ UNCHANGED <<now, timestamps, height, admitted, legacy>>
    BY <2>4, HubClient DEF HubNext
  <2>. QED
    BY <2>1, <2>2, <2>3, <2>4 DEF GatewayNext, gatewayVars, Tick, MineRefused
<1>. QED
  BY <1>1, <1>2, PTL

\* Every client is sent what was announced since it connected, and no block of
\* the new interface is missing, for any clients, heights and limits.
THEOREM ClientsHearBlocks == GatewaySpec => []BlocksHeard
<1>1. HubInv => BlocksHeard
  <2>. SUFFICES ASSUME HubInv PROVE BlocksHeard
    OBVIOUS
  <2>1. NoGap
    BY DEF HubInv, Flow, NoGap
  <2>2. ASSUME NEW c \in Connected, NEW i \in 1..Len(due[c])
        PROVE  /\ due[c][i] \notin legacy
               /\ i > 1 => due[c][i] \in (due[c][i - 1] + 1)..height
               /\ i > 1 => (due[c][i - 1] + 1)..(due[c][i] - 1) \subseteq legacy
    <3>. DEFINE d == due[c]
    <3>1. Announced(d, height, legacy) /\ i \in 1..Len(d) /\ height \in Nat
      BY GatewayBounds DEF HubInv, HubTypes
    <3>. HIDE DEF d
    <3>2. Len(d) \in Nat
      BY <3>1, LenProperties DEF Announced
    <3>3. ASSUME i > 1 PROVE i - 1 \in 1..Len(d)
      BY <3>1, <3>2, <3>3
    <3>4. /\ d[i] \in 1..height /\ d[i] \notin legacy
          /\ i > 1 => d[i - 1] < d[i] /\ (d[i - 1] + 1)..(d[i] - 1) \subseteq legacy /\ d[i - 1] \in 1..height
      BY <3>1, <3>3 DEF Announced
    <3>5. i > 1 => d[i] \in (d[i - 1] + 1)..height
      BY <3>1, <3>4
    <3>. QED
      BY <3>4, <3>5 DEF d
  <2>. QED
    BY <2>1, <2>2 DEF BlocksHeard
<1>. QED
  BY <1>1, HubInvariant, PTL DEF GatewaySpec

\* The gateway is well formed: the queue holds past times, the hub one queue of
\* each client connected.
LEMMA GatewayTypes ==
  GatewayInit /\ [][GatewayNext]_gatewayVars => []GatewayTypeOK
<1>1. LimiterInv /\ HubInv => GatewayTypeOK
  <2>. SUFFICES ASSUME LimiterInv, HubInv PROVE GatewayTypeOK
    OBVIOUS
  <2>1. timestamps \in Seq(Nat) /\ Len(timestamps) \in Nat /\ now \in Nat
    BY GatewayBounds, LenProperties DEF LimiterInv, EndOf
  <2>2. \A i \in 1..Len(timestamps) : timestamps[i] \in 0..now
    BY <2>1, ElementOfSeq DEF LimiterInv
  <2>3. timestamps = [i \in 1..Len(timestamps) |-> timestamps[i]]
    BY <2>1, LenProperties
  <2>4. timestamps \in Seq(0..now)
    BY <2>1, <2>2, <2>3, SeqDef
  <2>. QED
    BY <2>4 DEF LimiterInv, HubInv, HubTypes, Flow, GatewayTypeOK
<1>. QED
  BY <1>1, LimiterInvariant, HubInvariant, PTL DEF GatewaySpec

-----------------------------------------------------------------------------
(* Treasury wallets *)

\* A process looks for the treasury wallet of a currency that may be used.
TreasuryInv ==
  /\ TreasuryTypeOK /\ OneTreasury
  /\ treasuries \in [Currency -> Nat]
  /\ \A p \in Process : looking[p] # None => looking[p] \in DOMAIN currencies /\ currencies[looking[p]]

LEMMA TreasuryInvariant == TreasurySpec => []TreasuryInv
<1>. USE NativeIsCurrency
<1>1. TreasuryInit => TreasuryInv
  BY DEF TreasuryInit, TreasuryInv, TreasuryTypeOK, OneTreasury
<1>2. TreasuryInv /\ [TreasuryNext]_treasuryVars => TreasuryInv'
  <2>. SUFFICES ASSUME TreasuryInv, [TreasuryNext]_treasuryVars PROVE TreasuryInv'
    OBVIOUS
  <2>1. ASSUME NEW c \in Currency, NEW active \in BOOLEAN, CreateCurrency(c, active) PROVE TreasuryInv'
    <3>1. /\ c \notin DOMAIN currencies /\ DOMAIN currencies' = DOMAIN currencies \cup {c}
          /\ \A x \in DOMAIN currencies : currencies'[x] = currencies[x]
          /\ UNCHANGED <<shared, treasuries, looking>>
      BY <2>1 DEF CreateCurrency
    <3>. QED
      BY <3>1 DEF TreasuryInv, TreasuryTypeOK, OneTreasury
  <2>2. ASSUME NEW c \in Currency, CreateTreasuryWallet(c) PROVE TreasuryInv'
    BY <2>2 DEF CreateTreasuryWallet, WantsTreasury, TreasuryInv, TreasuryTypeOK, OneTreasury
  <2>3. ASSUME NEW c \in Currency, NEW p \in Process, FindTreasury(p, c) PROVE TreasuryInv'
    BY <2>3 DEF FindTreasury, WantsTreasury, TreasuryInv, TreasuryTypeOK, OneTreasury
  <2>4. ASSUME NEW p \in Process, InsertTreasury(p) PROVE TreasuryInv'
    BY <2>4 DEF InsertTreasury, TreasuryInv, TreasuryTypeOK, OneTreasury
  <2>5. CASE UNCHANGED treasuryVars
    BY <2>5 DEF treasuryVars, TreasuryInv, TreasuryTypeOK, OneTreasury
  <2>. QED
    BY <2>1, <2>2, <2>3, <2>4, <2>5 DEF TreasuryNext
<1>. QED
  BY <1>1, <1>2, PTL DEF TreasurySpec

-----------------------------------------------------------------------------
(* Wallet drafts *)

\* A draft that is kept although a wallet was created from it is one of which
\* the call raised.
DraftsInv ==
  /\ clock \in 0..MaxClock /\ previews \in 0..MaxDrafts
  /\ DOMAIN previewed = 1..previews
  /\ \A d \in 1..previews : previewed[d].created_at \in Nat
  /\ DOMAIN drafts \subseteq 1..previews
  /\ \A d \in DOMAIN drafts : drafts[d] = previewed[d]
  /\ unsure \subseteq {w.draft : w \in created}
  /\ \A w \in created : w.draft \in 1..previews /\ (w.draft \in DOMAIN drafts => w.draft \in unsure)
  /\ DraftSpentOnce

LEMMA KeptDrafts ==
  DOMAIN Kept \subseteq DOMAIN drafts /\ \A d \in DOMAIN Kept : Kept[d] = drafts[d]
  BY DEF Kept

\* Whatever drafts go and however many calls are refused.
LEMMA DraftsGo ==
  ASSUME DraftsInv, UNCHANGED <<previews, created, previewed, unsure>>, clock' \in 0..MaxClock,
         DOMAIN drafts' \subseteq DOMAIN drafts, \A d \in DOMAIN drafts' : drafts'[d] = drafts[d]
  PROVE  DraftsInv'
  BY DEF DraftsInv, DraftSpentOnce

\* A wallet is created from a draft that is kept.
LEMMA WalletFromDraft ==
  ASSUME DraftsInv, NEW u \in Owner, NEW d \in 1..MaxDrafts, Usable(u, d), CreateWalletFrom(u, d),
         UNCHANGED <<clock, previews, previewed>>,
         unsure' = unsure \/ unsure' = unsure \cup {d},
         DOMAIN drafts' \subseteq DOMAIN drafts, \A x \in DOMAIN drafts' : drafts'[x] = drafts[x],
         d \in DOMAIN drafts' => d \in unsure'
  PROVE  DraftsInv'
<1>. DEFINE new == [draft |-> d, user |-> u, at |-> clock, number |-> Cardinality(created)]
<1>1. created' = created \cup {new} /\ new.draft = d /\ new.user = u /\ new.at = clock
  BY DEF CreateWalletFrom
<1>. HIDE DEF new
<1>2. /\ d \in DOMAIN drafts /\ d \in 1..previews /\ previewed[d].user_id = u
      /\ clock <= previewed[d].created_at + Ttl
  <2>1. d \in DOMAIN Kept /\ Kept[d] = drafts[d] /\ d \in DOMAIN drafts /\ drafts[d].user_id = u
        /\ clock - drafts[d].created_at <= Ttl
    BY DEF Usable, Kept
  <2>2. clock \in Nat /\ drafts[d] = previewed[d] /\ previewed[d].created_at \in Nat /\ d \in 1..previews
    BY <2>1, DraftBounds DEF DraftsInv
  <2>. QED
    BY <2>1, <2>2, DraftTtl
<1>3. d \in unsure \/ \A w \in created : w.draft # d
  BY <1>2 DEF DraftsInv
<1>4. unsure' \subseteq {w.draft : w \in created'}
  BY <1>1 DEF DraftsInv
<1>5. \A w \in created' : w.draft \in 1..previews' /\ (w.draft \in DOMAIN drafts' => w.draft \in unsure')
  BY <1>1, <1>2 DEF DraftsInv
<1>6. \A w \in created' : /\ w.user = previewed'[w.draft].user_id
                          /\ w.at <= previewed'[w.draft].created_at + Ttl
  BY <1>1, <1>2 DEF DraftsInv, DraftSpentOnce
<1>7. \A v, w \in created' : (v.draft = w.draft /\ v # w) => w.draft \in unsure'
  BY <1>1, <1>3 DEF DraftsInv, DraftSpentOnce
<1>. QED
  BY <1>4, <1>5, <1>6, <1>7 DEF DraftsInv, DraftSpentOnce

LEMMA NextDraftsInv == DraftsInv /\ [DraftsNext]_draftVars => DraftsInv'
<1>. SUFFICES ASSUME DraftsInv, [DraftsNext]_draftVars PROVE DraftsInv'
  OBVIOUS
<1>t. clock \in 0..MaxClock /\ clock \in Nat /\ previews \in Nat /\ MaxClock \in Nat /\ MaxDrafts \in Nat
  BY DraftBounds DEF DraftsInv
<1>1. CASE UNCHANGED draftVars
  BY <1>1 DEF draftVars, DraftsInv, DraftSpentOnce
<1>2. CASE Advance
  BY <1>2, <1>t, DraftsGo DEF Advance
<1>3. CASE Restart
  BY <1>3, <1>t, DraftsGo DEF Restart
<1>4. ASSUME NEW u \in Owner, PreviewWallet(u) PROVE DraftsInv'
  <2>. DEFINE d == previews + 1
              draft == [user_id |-> u, created_at |-> clock]
  <2>1. /\ previews' = d /\ previews < MaxDrafts /\ UNCHANGED <<clock, created, unsure>>
        /\ drafts' = [x \in DOMAIN Kept \cup {d} |-> IF x = d THEN draft ELSE Kept[x]]
        /\ previewed' = [x \in 1..d |-> IF x = d THEN draft ELSE previewed[x]]
    BY <1>4 DEF PreviewWallet
  <2>2. draft.created_at \in Nat
    BY <1>t
  <2>. HIDE DEF draft
  <2>3. previews' \in 0..MaxDrafts /\ 1..d = 1..previews \cup {d} /\ d \notin 1..previews
    BY <1>t, <2>1
  <2>4. /\ DOMAIN previewed' = 1..previews' /\ previewed'[d] = draft
        /\ \A x \in 1..previews : previewed'[x] = previewed[x]
    BY <2>1, <2>3
  <2>5. /\ DOMAIN drafts' \subseteq DOMAIN drafts \cup {d} /\ (d \in DOMAIN drafts' => drafts'[d] = draft)
        /\ \A x \in DOMAIN drafts' \ {d} : x \in DOMAIN drafts /\ drafts'[x] = drafts[x]
    BY <2>1, KeptDrafts
  <2>. HIDE DEF d
  <2>6. DOMAIN drafts' \subseteq 1..previews' /\ \A x \in DOMAIN drafts' : drafts'[x] = previewed'[x]
    BY <2>1, <2>3, <2>4, <2>5 DEF DraftsInv
  <2>7. \A x \in 1..previews' : previewed'[x].created_at \in Nat
    BY <2>1, <2>2, <2>3, <2>4 DEF DraftsInv
  <2>8. \A w \in created : w.draft \in 1..previews' /\ (w.draft \in DOMAIN drafts' => w.draft \in unsure)
    BY <2>1, <2>3, <2>5 DEF DraftsInv
  <2>9. DraftSpentOnce'
    BY <2>1, <2>4 DEF DraftsInv, DraftSpentOnce
  <2>. QED
    BY <2>1, <2>3, <2>4, <2>6, <2>7, <2>8, <2>9 DEF DraftsInv
<1>5. ASSUME NEW u \in Owner, NEW d \in 1..MaxDrafts, ConfirmWallet(u, d) PROVE DraftsInv'
  <2>1. /\ Usable(u, d) /\ CreateWalletFrom(u, d) /\ UNCHANGED <<clock, previews, previewed, unsure>>
        /\ DOMAIN drafts' = DOMAIN Kept \ {d} /\ \A x \in DOMAIN drafts' : drafts'[x] = Kept[x]
    BY <1>5 DEF ConfirmWallet
  <2>. QED
    BY <2>1, KeptDrafts, WalletFromDraft
<1>6. ASSUME NEW u \in Owner, NEW d \in 1..MaxDrafts, ConfirmRaises(u, d) PROVE DraftsInv'
  <2>1. Usable(u, d) /\ drafts' = Kept /\ UNCHANGED <<clock, previews, previewed>>
    BY <1>6 DEF ConfirmRaises
  <2>2. CASE UNCHANGED <<created, unsure>>
    BY <1>t, <2>1, <2>2, KeptDrafts, DraftsGo
  <2>3. CASE CreateWalletFrom(u, d) /\ unsure' = unsure \cup {d}
    BY <2>1, <2>3, KeptDrafts, WalletFromDraft
  <2>. QED
    BY <1>6, <2>2, <2>3 DEF ConfirmRaises
<1>7. ASSUME NEW u \in Owner, NEW d \in 1..MaxDrafts, ConfirmRefused(u, d) PROVE DraftsInv'
  BY <1>7, <1>t, KeptDrafts, DraftsGo DEF ConfirmRefused
<1>. QED
  BY <1>1, <1>2, <1>3, <1>4, <1>5, <1>6, <1>7 DEF DraftsNext

LEMMA DraftsInvariant == DraftsSpec => []DraftsInv
<1>1. DraftsInit => DraftsInv
  BY DraftBounds DEF DraftsInit, DraftsInv, DraftSpentOnce
<1>. QED
  BY <1>1, NextDraftsInv, PTL DEF DraftsSpec

\* A draft becomes one wallet of its user while it is valid, unless a call
\* created the wallet and raised, for any owners, life of a draft and retries.
THEOREM DraftsSpentOnce == DraftsSpec => []DraftSpentOnce
<1>1. DraftsInv => DraftSpentOnce
  BY DEF DraftsInv
<1>. QED
  BY <1>1, DraftsInvariant, PTL

-----------------------------------------------------------------------------
(* Exchange rates *)

\* A sync that runs has a provider, and pairs to fetch are pairs.
RatesInv ==
  /\ RatesTypeOK /\ RatesAudited
  /\ feed.left \in Seq(Pair) /\ sync.left \in Seq(Pair)
  /\ ~LoopFree => sync.provider \in Provider

\* Whose row is audited in what way.
Accounted(row, free, half) ==
  row.by = "admin" => (row.audited = "due" => ~free) /\ (row.audited = "no" => half)

LEMMA AuditedRows ==
  ASSUME RatesTypeOK
  PROVE  RatesAudited <=> \A p \in DOMAIN in_force : Accounted(in_force[p], LoopFree, failed)
<1>1. \A p \in DOMAIN in_force : in_force[p].audited \in {"yes", "no", "due"}
  BY DEF RatesTypeOK, RateRow
<1>. QED
  BY <1>1 DEF RatesAudited, Accounted

\* A row is put in force and nothing else about the rates changes.
LEMMA RowStored ==
  ASSUME RatesTypeOK, NEW pair \in Pair, NEW row \in RateRow, Store(pair, row)
  PROVE  /\ \A p \in DOMAIN in_force' : p \in Pair /\ in_force'[p] \in RateRow
         /\ \A p \in DOMAIN in_force' : in_force'[p] = row \/ (p \in DOMAIN in_force /\ in_force'[p] = in_force[p])
<1>1. /\ DOMAIN in_force' = DOMAIN in_force \cup {pair}
      /\ \A p \in DOMAIN in_force' : in_force'[p] = IF p = pair THEN row ELSE in_force[p]
  BY DEF Store
<1>. QED
  BY <1>1 DEF RatesTypeOK

\* The rows that a call leaves.
LEMMA RowsSettled ==
  ASSUME RatesTypeOK, NEW answer \in {"yes", "no"}, Settled(answer)
  PROVE  /\ \A p \in DOMAIN in_force' : p \in Pair /\ in_force'[p] \in RateRow
         /\ \A p \in DOMAIN in_force' :
              /\ p \in DOMAIN in_force
              /\ \/ in_force[p].audited # "due" /\ in_force'[p] = in_force[p]
                 \/ in_force'[p].audited = answer
<1>. SUFFICES ASSUME NEW p \in DOMAIN in_force'
              PROVE  /\ p \in Pair /\ in_force'[p] \in RateRow /\ p \in DOMAIN in_force
                     /\ \/ in_force[p].audited # "due" /\ in_force'[p] = in_force[p]
                        \/ in_force'[p].audited = answer
  OBVIOUS
<1>1. p \in DOMAIN in_force /\ p \in Pair /\ in_force[p] \in RateRow
  BY DEF Settled, RatesTypeOK
<1>2. CASE in_force[p].audited = "due"
  <2>1. in_force'[p] = [in_force[p] EXCEPT !.audited = answer]
    BY <1>1, <1>2 DEF Settled
  <2>. QED
    BY <1>1, <2>1 DEF RateRow
<1>3. CASE in_force[p].audited # "due"
  <2>1. in_force'[p] = in_force[p]
    BY <1>1, <1>3 DEF Settled
  <2>. QED
    BY <1>1, <1>3, <2>1
<1>. QED
  BY <1>2, <1>3

LEMMA NextRatesInv == RatesInv /\ [RatesNext]_rateVars => RatesInv'
<1>. SUFFICES ASSUME RatesInv, [RatesNext]_rateVars PROVE RatesInv'
  OBVIOUS
<1>t. RatesTypeOK /\ \A p \in DOMAIN in_force : Accounted(in_force[p], LoopFree, failed)
  BY AuditedRows DEF RatesInv
<1>a. ASSUME RatesTypeOK', \A p \in DOMAIN in_force' : Accounted(in_force'[p], LoopFree', failed'),
             feed'.left \in Seq(Pair), sync'.left \in Seq(Pair), ~LoopFree' => sync'.provider \in Provider
      PROVE  RatesInv'
  <2>1. \A p \in DOMAIN in_force' : in_force'[p].audited \in {"yes", "no", "due"}
    BY <1>a DEF RatesTypeOK, RateRow
  <2>2. RatesAudited'
    BY <1>a, <2>1 DEF RatesAudited, Accounted
  <2>. QED
    BY <1>a, <2>2 DEF RatesInv
<1>1. CASE UNCHANGED rateVars
  BY <1>1 DEF rateVars, RatesInv, RatesTypeOK, RatesAudited, LoopFree
<1>2. ASSUME NEW pair \in Pair, NEW fee \in {"zero", "some"}, NEW fails \in BOOLEAN,
             SetExchangeRate(pair, fee, fails)
      PROVE  RatesInv'
  <2>. DEFINE row == [source |-> "MANUAL", fee |-> fee, by |-> "admin",
                      audited |-> IF fails THEN "no" ELSE "yes"]
  <2>1. row \in RateRow /\ row.audited = (IF fails THEN "no" ELSE "yes")
    BY DEF RateRow
  <2>2. Store(pair, row) /\ failed' = (failed \/ fails) /\ UNCHANGED <<provider, feed, sync>>
    BY <1>2 DEF SetExchangeRate
  <2>. HIDE DEF row
  <2>3. /\ \A p \in DOMAIN in_force' : p \in Pair /\ in_force'[p] \in RateRow
        /\ \A p \in DOMAIN in_force' : in_force'[p] = row \/ (p \in DOMAIN in_force /\ in_force'[p] = in_force[p])
    BY <1>t, <2>1, <2>2, RowStored
  <2>4. RatesTypeOK'
    BY <1>t, <2>2, <2>3 DEF RatesTypeOK
  <2>5. (LoopFree' <=> LoopFree) /\ (failed => failed') /\ (fails => failed')
    BY <2>2 DEF LoopFree
  <2>6. \A p \in DOMAIN in_force' : Accounted(in_force'[p], LoopFree', failed')
    BY <1>t, <2>1, <2>3, <2>5 DEF Accounted
  <2>. QED
    BY <1>a, <2>2, <2>4, <2>5, <2>6 DEF RatesInv
<1>3. ASSUME NEW source \in Provider, SyncExchangeRatesNow(source) PROVE RatesInv'
  <2>1. /\ sync' = [provider |-> source, left |-> SyncPairs] /\ LoopFree
        /\ UNCHANGED <<provider, feed, in_force, failed>>
    BY <1>3 DEF SyncExchangeRatesNow
  <2>2. sync'.provider = source /\ sync'.left = SyncPairs /\ SyncPairs \in Seq(Pair)
    BY <2>1, PairsRated
  <2>3. RatesTypeOK'
    BY <1>t, <2>1, <2>2 DEF RatesTypeOK
  <2>4. \A p \in DOMAIN in_force' : Accounted(in_force'[p], LoopFree', failed')
    BY <1>t, <2>1 DEF Accounted
  <2>. QED
    BY <1>a, <2>1, <2>2, <2>3, <2>4 DEF RatesInv
<1>4. CASE SyncStores
  <2>. DEFINE row == FetchedRow(sync.provider, "admin", "due")
  <2>1. /\ sync.left # <<>> /\ Store(Head(sync.left), row) /\ sync' = [sync EXCEPT !.left = Tail(@)]
        /\ UNCHANGED <<provider, feed, failed>>
    BY <1>4 DEF SyncStores
  <2>2. sync.left \in Seq(Pair) /\ Head(sync.left) \in Pair /\ Tail(sync.left) \in Seq(Pair)
    BY <2>1, HeadTailProperties DEF RatesInv
  <2>3. ~LoopFree /\ sync.provider \in Provider
    <3>1. NoSync.left = <<>>
      BY DEF NoSync
    <3>2. ~LoopFree
      BY <2>1, <3>1 DEF LoopFree
    <3>. QED
      BY <3>2 DEF RatesInv
  <2>4. row \in RateRow /\ row.audited = "due"
    BY <2>3 DEF FetchedRow, RateRow
  <2>. HIDE DEF row
  <2>5. sync'.provider = sync.provider /\ (sync'.left = Tail(sync.left) \/ sync' = sync)
    BY <2>1, <2>3
  <2>6. ~LoopFree' /\ sync'.left \in Seq(Pair)
    <3>1. sync'.provider \in {"BINANCE", "CRYPTO_COM"} /\ NoSync.provider = ""
      BY <2>3, <2>5 DEF Provider, BINANCE, CRYPTO_COM, NoSync
    <3>2. sync' # NoSync
      BY <3>1
    <3>. QED
      BY <2>2, <2>5, <3>2 DEF LoopFree
  <2>7. /\ \A p \in DOMAIN in_force' : p \in Pair /\ in_force'[p] \in RateRow
        /\ \A p \in DOMAIN in_force' : in_force'[p] = row \/ (p \in DOMAIN in_force /\ in_force'[p] = in_force[p])
    BY <1>t, <2>1, <2>2, <2>4, RowStored
  <2>8. RatesTypeOK'
    BY <1>t, <2>1, <2>3, <2>5, <2>7 DEF RatesTypeOK
  <2>9. \A p \in DOMAIN in_force' : Accounted(in_force'[p], LoopFree', failed')
    BY <1>t, <2>1, <2>4, <2>6, <2>7 DEF Accounted
  <2>. QED
    BY <1>a, <2>1, <2>3, <2>5, <2>6, <2>8, <2>9 DEF RatesInv
<1>5. ASSUME NEW answer \in {"yes", "no"}, Settled(answer), sync' = NoSync, failed' \in BOOLEAN,
             failed => failed', answer = "no" => failed', UNCHANGED <<provider, feed>>
      PROVE  RatesInv'
  <2>1. /\ \A p \in DOMAIN in_force' : p \in Pair /\ in_force'[p] \in RateRow
        /\ \A p \in DOMAIN in_force' :
             /\ p \in DOMAIN in_force
             /\ \/ in_force[p].audited # "due" /\ in_force'[p] = in_force[p]
                \/ in_force'[p].audited = answer
    BY <1>t, <1>5, RowsSettled
  <2>2. sync'.provider = "" /\ sync'.left = <<>> /\ <<>> \in Seq(Pair) /\ LoopFree'
    BY <1>5, EmptySeq DEF NoSync, LoopFree
  <2>3. RatesTypeOK'
    BY <1>t, <1>5, <2>1, <2>2 DEF RatesTypeOK
  <2>4. ASSUME NEW p \in DOMAIN in_force' PROVE Accounted(in_force'[p], LoopFree', failed')
    <3>1. CASE in_force[p].audited # "due" /\ in_force'[p] = in_force[p]
      BY <1>t, <1>5, <2>1, <3>1 DEF Accounted
    <3>2. CASE in_force'[p].audited = answer
      BY <1>5, <3>2 DEF Accounted
    <3>. QED
      BY <2>1, <3>1, <3>2
  <2>. QED
    BY <1>a, <1>5, <2>2, <2>3, <2>4 DEF RatesInv
<1>6. CASE SyncEnds
  BY <1>6, <1>5, <1>t DEF SyncEnds, RatesTypeOK
<1>7. CASE SyncFails
  BY <1>7, <1>5 DEF SyncFails
<1>8. ASSUME UNCHANGED <<provider, sync, failed>>, feed'.left \in Seq(Pair),
             feed'.state \in {"off", "syncing", "done", "asleep", "dead"},
             feed'.state # "syncing" => feed'.left = <<>>,
             \A p \in DOMAIN in_force' : p \in Pair /\ in_force'[p] \in RateRow,
             \A p \in DOMAIN in_force' :
               in_force'[p].by = "feed" \/ (p \in DOMAIN in_force /\ in_force'[p] = in_force[p])
      PROVE  RatesInv'
  <2>1. RatesTypeOK'
    BY <1>t, <1>8 DEF RatesTypeOK
  <2>2. \A p \in DOMAIN in_force' : Accounted(in_force'[p], LoopFree', failed')
    BY <1>t, <1>8 DEF Accounted, LoopFree
  <2>. QED
    BY <1>a, <1>8, <2>1, <2>2 DEF RatesInv, LoopFree
<1>9. CASE FeedStores
  <2>. DEFINE row == FetchedRow(provider, "feed", "no")
  <2>1. /\ feed.state = "syncing" /\ feed.left # <<>> /\ Store(Head(feed.left), row)
        /\ feed' = [feed EXCEPT !.left = Tail(@)] /\ UNCHANGED <<provider, sync, failed>>
    BY <1>9 DEF FeedStores
  <2>2. feed.left \in Seq(Pair) /\ Head(feed.left) \in Pair /\ Tail(feed.left) \in Seq(Pair)
    BY <2>1, HeadTailProperties DEF RatesInv
  <2>3. row \in RateRow /\ row.by = "feed"
    BY <1>t DEF FetchedRow, RateRow, RatesTypeOK
  <2>. HIDE DEF row
  <2>4. /\ \A p \in DOMAIN in_force' : p \in Pair /\ in_force'[p] \in RateRow
        /\ \A p \in DOMAIN in_force' : in_force'[p] = row \/ (p \in DOMAIN in_force /\ in_force'[p] = in_force[p])
    BY <1>t, <2>1, <2>2, <2>3, RowStored
  <2>5. feed'.state = "syncing" /\ feed'.left \in Seq(Pair)
    BY <2>1, <2>2 DEF RatesInv
  <2>. QED
    BY <1>8, <2>1, <2>3, <2>4, <2>5
<1>10. ASSUME UNCHANGED <<provider, sync, in_force, failed>>,
              NEW state \in {"syncing", "done", "asleep", "dead"}, NEW left \in Seq(Pair),
              feed' = [state |-> state, left |-> left], state # "syncing" => left = <<>>
       PROVE  RatesInv'
  <2>1. feed'.state = state /\ feed'.left = left
    BY <1>10
  <2>2. \A p \in DOMAIN in_force : p \in Pair /\ in_force[p] \in RateRow
    BY <1>t DEF RatesTypeOK
  <2>. QED
    BY <1>8, <1>10, <2>1, <2>2
<1>11. \A failure \in Failure : FeedFails(failure) => RatesInv'
  <2>1. <<>> \in Seq(Pair) /\ \A failure \in Failure : AfterFailure(failure) \in {"done", "dead"}
    BY EmptySeq DEF AfterFailure
  <2>. QED
    BY <1>10, <2>1 DEF FeedFails
<1>12. FeedSleeps \/ FeedWakes => RatesInv'
  BY <1>10, EmptySeq, PairsRated DEF FeedSleeps, FeedWakes
<1>. QED
  BY <1>1, <1>2, <1>3, <1>4, <1>6, <1>7, <1>9, <1>11, <1>12 DEF RatesNext, SyncRuns, FeedFetches

LEMMA RatesInvariant == RatesInit /\ [][RatesNext]_rateVars => []RatesInv
<1>1. RatesInit => RatesInv
  <2>. SUFFICES ASSUME RatesInit PROVE RatesInv
    OBVIOUS
  <2>1. feed.left = FeedPairs /\ feed.state = IF FeedPairs = <<>> THEN "off" ELSE "syncing"
    BY DEF RatesInit
  <2>2. sync.provider = "" /\ sync.left = <<>> /\ <<>> \in Seq(Pair) /\ LoopFree
    BY EmptySeq DEF RatesInit, NoSync, LoopFree
  <2>. QED
    BY <2>1, <2>2, PairsRated DEF RatesInit, RatesInv, RatesTypeOK, RatesAudited
<1>. QED
  BY <1>1, NextRatesInv, PTL

-----------------------------------------------------------------------------
(* The parts together *)

\* A step of the composition is a step of each part, or leaves it alone.
LEMMA StepsOfParts ==
  [Next]_servicesVars =>
    /\ [AccountsNext]_accountsVars /\ [KycNext]_kycVars /\ [GatewayNext]_gatewayVars
    /\ [DraftsNext]_draftVars /\ [TreasuryNext]_treasuryVars /\ [RatesNext]_rateVars
<1>. SUFFICES ASSUME [Next]_servicesVars
              PROVE  /\ [AccountsNext]_accountsVars /\ [KycNext]_kycVars /\ [GatewayNext]_gatewayVars
                     /\ [DraftsNext]_draftVars /\ [TreasuryNext]_treasuryVars /\ [RatesNext]_rateVars
  OBVIOUS
<1>1. [AccountsNext]_accountsVars /\ [KycNext]_kycVars
  BY DEF Next, servicesVars
<1>2. /\ [GatewayNext]_gatewayVars /\ [DraftsNext]_draftVars
      /\ [TreasuryNext]_treasuryVars /\ [RatesNext]_rateVars
  BY DEF Next, servicesVars, edgeVars
<1>. QED
  BY <1>1, <1>2

\* Every part stays well formed, and keeps what it keeps about a single record:
\* a code or a password, one treasury wallet of a currency, an audit entry for
\* each rate an administrator put in force.
THEOREM PartsStayWellFormed == Spec => []PartsWellFormed
<1>1. Init => /\ AccountsInit /\ KycInit /\ GatewayInit /\ DraftsInit /\ TreasuryInit /\ RatesInit
  BY DEF Init
<1>2. Spec => [](AccountsTypeOK /\ CodeOrPassword)
  BY <1>1, StepsOfParts, AccountsTypeCorrect, CodeOrPasswordKept, PTL DEF Spec, AccountsSpec
<1>3. Spec => []KycTypeOK
  BY <1>1, StepsOfParts, KycTypeCorrect, PTL DEF Spec, KycSpec
<1>4. Spec => []GatewayTypeOK
  BY <1>1, StepsOfParts, GatewayTypes, PTL DEF Spec
<1>5. Spec => []DraftsTypeOK
  <2>1. DraftsInv => DraftsTypeOK
    BY DEF DraftsInv, DraftsTypeOK
  <2>. QED
    BY <1>1, <2>1, StepsOfParts, DraftsInvariant, PTL DEF Spec, DraftsSpec
<1>6. Spec => [](TreasuryTypeOK /\ OneTreasury)
  <2>1. TreasuryInv => TreasuryTypeOK /\ OneTreasury
    BY DEF TreasuryInv
  <2>. QED
    BY <1>1, <2>1, StepsOfParts, TreasuryInvariant, PTL DEF Spec, TreasurySpec
<1>7. Spec => [](RatesTypeOK /\ RatesAudited)
  <2>1. RatesInv => RatesTypeOK /\ RatesAudited
    BY DEF RatesInv
  <2>. QED
    BY <1>1, <2>1, StepsOfParts, RatesInvariant, PTL DEF Spec
<1>8. (AccountsTypeOK /\ CodeOrPassword) /\ KycTypeOK /\ GatewayTypeOK /\ DraftsTypeOK
        /\ (TreasuryTypeOK /\ OneTreasury) /\ (RatesTypeOK /\ RatesAudited) => PartsWellFormed
  BY DEF PartsWellFormed
<1>. QED
  BY <1>2, <1>3, <1>4, <1>5, <1>6, <1>7, <1>8, PTL
=============================================================================
