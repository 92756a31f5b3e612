---------------------------- MODULE PeersProofs ----------------------------
(***************************************************************************)
(* Proofs about Peers, for any finite number of nodes, any transactions,   *)
(* any length of the chains and any number of abandoned requests.          *)
(***************************************************************************)
EXTENDS Peers, SequenceTheorems, FiniteSetTheorems, TLAPS

-----------------------------------------------------------------------------
(* Blocks *)

LEMMA GenesisType ==
  ASSUME NEW n \in Node
  PROVE  Genesis(n) \in Block /\ Genesis(n).root = RootOf(Genesis(n).txs)
<1>1. <<>> \in Seq(Tx)
  BY EmptySeq
<1>2. RootOf(<<>>) \in Seq(Seq(Tx))
  BY <1>1 DEF RootOf
<1>. QED
  BY <1>1, <1>2 DEF Genesis, Block

LEMMA BlockAfterType ==
  ASSUME NEW n \in Node, NEW c \in Seq(Block), c # <<>>, NEW txs \in Seq(Tx)
  PROVE  BlockAfter(n, c, txs) \in Block
<1>1. Len(c) \in Nat /\ c[Len(c)] \in Block
  BY EmptySeq, ElementOfSeq
<1>2. HashOf(c[Len(c)]) \in Hash
  BY <1>1 DEF HashOf, Hash, Block
<1>3. RootOf(txs) \in Seq(Seq(Tx))
  BY DEF RootOf
<1>. QED
  BY <1>1, <1>2, <1>3 DEF BlockAfter, Block

\* What _fetch_chain rebuilds is a chain as long as the one it was sent.
LEMMA FetchedType ==
  ASSUME NEW c \in Seq(Block)
  PROVE  /\ Fetched(c) \in Seq(Block)
         /\ Len(Fetched(c)) = Len(c)
         /\ \A i \in 1..Len(c) : Fetched(c)[i].root = NoRoot /\ Fetched(c)[i].txs = <<>>
<1>1. Len(c) \in Nat /\ DOMAIN c = 1..Len(c)
  BY LenProperties
<1>2. NoRoot \in Seq(Seq(Tx)) /\ <<>> \in Seq(Tx)
  BY EmptySeq DEF NoRoot
<1>3. \A i \in 1..Len(c) : c[i] \in Block
  BY ElementOfSeq
<1>4. ASSUME NEW i \in 1..Len(c)
      PROVE  LET b == [c[i] EXCEPT !.root = NoRoot, !.txs = <<>>]
             IN  b \in Block /\ b.root = NoRoot /\ b.txs = <<>>
  BY <1>2, <1>3 DEF Block
<1>5. Fetched(c) \in [1..Len(c) -> Block]
  BY <1>1, <1>4 DEF Fetched
<1>6. Fetched(c) \in Seq(Block)
  BY <1>1, <1>5, SeqDef
<1>7. DOMAIN Fetched(c) = 1..Len(c)
  BY <1>5
<1>8. Len(Fetched(c)) = Len(c)
  BY <1>1, <1>6, <1>7, LenProperties
<1>. QED
  BY <1>1, <1>4, <1>6, <1>8 DEF Fetched

\* A chain that lost its Merkle roots on the way is never valid.
LEMMA FetchedInvalid ==
  ASSUME NEW c \in Seq(Block)
  PROVE  ~IsValidChain(Fetched(c))
<1>1. SUFFICES ASSUME IsValidChain(Fetched(c)) PROVE FALSE
  OBVIOUS
<1>2. Fetched(c) \in Seq(Block) /\ Fetched(c) # <<>>
  BY <1>1, FetchedType DEF IsValidChain
<1>3. 1 \in 1..Len(Fetched(c)) /\ DOMAIN Fetched(c) = 1..Len(Fetched(c))
  BY <1>2, EmptySeq, LenProperties
<1>4. Fetched(c)[1].root = NoRoot
  BY <1>3, FetchedType
<1>5. Fetched(c)[1].root = RootOf(Fetched(c)[1].txs)
  BY <1>1, <1>3 DEF IsValidChain, Linked
<1>6. \A x : Len(<<x>>) = 1 /\ Len(<<>>) = 0
  OBVIOUS
<1>7. Len(Fetched(c)[1].root) = 0
  BY <1>4, <1>6 DEF NoRoot
<1>8. Len(Fetched(c)[1].root) = 1
  BY <1>5, <1>6 DEF RootOf
<1>9. 0 = 1
  BY <1>7, <1>8
<1>. QED
  BY <1>9

-----------------------------------------------------------------------------
(* Types *)

LEMMA IdleType == Idle \in Job
  BY EmptySeq DEF Idle, Job, NoNode

LEMMA CallingType ==
  ASSUME NEW kind \in {"post", "notify"}, NEW peers \in SUBSET Node
  PROVE  LET j == Calling(kind, peers)
         IN  j \in Job /\ j.kind = kind /\ j.waiting = peers /\ j.best = <<>> /\ j.origin = NoNode
  BY IdleType DEF Calling, Idle, Job

LEMMA ResolvingType ==
  ASSUME TypeOK, NEW n \in Node, NEW origin \in Node \cup {NoNode}
  PROVE  LET j == Resolving(n, origin)
         IN  j \in Job /\ j.kind = "resolve" /\ j.waiting = {} /\ j.best = <<>> /\ j.origin = origin
<1>1. registry[n] \in SUBSET Node
  BY DEF TypeOK
<1>. QED
  BY <1>1, IdleType DEF Resolving, Idle, Job

LEMMA ConsiderType ==
  ASSUME NEW n \in Node, job[n] \in Job, NEW c \in Seq(Block)
  PROVE  /\ Consider(n, c) \in Job
         /\ Consider(n, c).kind = job[n].kind /\ Consider(n, c).waiting = {}
         /\ Consider(n, c).origin = job[n].origin /\ Consider(n, c).todo = job[n].todo
         /\ Consider(n, c).best = job[n].best
<1>. DEFINE longest == IF IsValidChain(c) /\ Len(c) > job[n].longest THEN Len(c) ELSE job[n].longest
<1>1. Consider(n, c) = [job[n] EXCEPT !.waiting = {}, !.best = job[n].best, !.longest = longest]
  BY FetchedInvalid DEF Consider
<1>2. longest \in Nat
  BY LenProperties DEF Job
<1>. HIDE DEF longest
<1>. QED
  BY <1>1, <1>2 DEF Job

\* The handlers when m has answered n, which may be nobody.
LEMMA AnsweredType ==
  ASSUME TypeOK, NEW n \in Node \cup {NoNode}, NEW m \in Node
  PROVE  /\ Answered(n, m) \in [Node -> Job]
         /\ \A k \in Node :
              /\ Answered(n, m)[k].kind = job[k].kind /\ Answered(n, m)[k].best = job[k].best
              /\ Answered(n, m)[k].origin = job[k].origin
              /\ \A p : p \in Answered(n, m)[k].waiting <=> p \in job[k].waiting /\ ~(k = n /\ p = m)
              /\ Answered(n, m)[k].kind = "idle" => Answered(n, m)[k] = Idle
<1>0. job \in [Node -> Job] /\ NoNode \notin Node
  BY PeersAssumption DEF TypeOK, NoNode
<1>1. CASE n = NoNode
  <2>1. Answered(n, m) = job
    BY <1>1 DEF Answered
  <2>. QED
    BY <1>0, <1>1, <2>1 DEF TypeOK, IsIdle
<1>2. CASE n \in Node
  <2>. DEFINE j == [job[n] EXCEPT !.waiting = job[n].waiting \ {m}]
  <2>1. Answered(n, m) = [job EXCEPT ![n] = j]
    BY <1>0, <1>2 DEF Answered
  <2>2. /\ j \in Job /\ j.kind = job[n].kind /\ j.best = job[n].best /\ j.origin = job[n].origin
        /\ j.waiting = job[n].waiting \ {m}
    BY <1>0, <1>2 DEF Job
  <2>3. j.kind = "idle" => j = Idle
    <3>1. \A i \in Job : [i EXCEPT !.waiting = i.waiting] = i
      BY DEF Job
    <3>2. job[n].kind = "idle" => job[n] = Idle
      BY <1>2 DEF TypeOK, IsIdle
    <3>3. Idle.waiting \ {m} = Idle.waiting
      BY DEF Idle
    <3>. QED
      BY <2>2, <3>1, <3>2, <3>3, IdleType
  <2>. HIDE DEF j
  <2>4. Answered(n, m) \in [Node -> Job] /\ \A k \in Node : Answered(n, m)[k] = IF k = n THEN j ELSE job[k]
    BY <1>0, <1>2, <2>1, <2>2
  <2>. QED
    BY <2>2, <2>3, <2>4 DEF TypeOK, IsIdle
<1>. QED
  BY <1>1, <1>2

LEMMA SendType ==
  ASSUME TypeOK, NEW peers \in SUBSET Node, NEW r \in Request
  PROVE  Send(peers, r) \in [Node -> SUBSET Request]
  BY DEF TypeOK, Send

LEMMA RequestType ==
  ASSUME NEW n \in Node
  PROVE  /\ \A t \in Tx : [from |-> n, kind |-> "post", tx |-> {t}] \in Request
         /\ [from |-> n, kind |-> "resolve", tx |-> NoTx] \in Request
         /\ [from |-> n, kind |-> "chain", tx |-> NoTx] \in Request
  BY DEF Request

LEMMA TakeType ==
  ASSUME TypeOK, NEW m \in Node, NEW r, Take(m, r)
  PROVE  /\ inbox' \in [Node -> SUBSET Request]
         /\ \A k \in Node : \A q : q \in inbox'[k] <=> q \in inbox[k] /\ ~(k = m /\ q = r)
  BY DEF TypeOK, Take

\* The handler of n, and no other, becomes j.
LEMMA BecomesType ==
  ASSUME TypeOK, NEW n \in Node, NEW j \in Job, j.kind = "idle" => j = Idle,
         job' = [job EXCEPT ![n] = j]
  PROVE  /\ job' \in [Node -> Job]
         /\ \A k \in Node : job'[k] = IF k = n THEN j ELSE job[k]
         /\ \A k \in Node : IsIdle(k)' => job'[k] = Idle
<1>1. job' \in [Node -> Job] /\ \A k \in Node : job'[k] = IF k = n THEN j ELSE job[k]
  BY DEF TypeOK
<1>. QED
  BY <1>1 DEF TypeOK, IsIdle

\* What FailCall makes of the handlers.
LEMMA FailedType ==
  ASSUME TypeOK, NEW n \in Node, NEW m \in Node, FailCall(n, m)
  PROVE  /\ job' \in [Node -> Job]
         /\ \A k \in Node :
              /\ job'[k].kind = job[k].kind /\ job'[k].best = job[k].best
              /\ \A p : p \in job'[k].waiting <=> p \in job[k].waiting /\ ~(k = n /\ p = m)
              /\ k = m /\ job[k].origin = n => job'[k].origin = NoNode
              /\ ~(k = m /\ job[k].origin = n) => job'[k].origin = job[k].origin
         /\ \A k \in Node : IsIdle(k)' => job'[k] = Idle
<1>. DEFINE W(k) == IF k = n THEN job[k].waiting \ {m} ELSE job[k].waiting
            O(k) == IF k = m /\ job[k].origin = n THEN NoNode ELSE job[k].origin
            j(k) == [job[k] EXCEPT !.waiting = W(k), !.origin = O(k)]
<1>1. job' = [k \in Node |-> j(k)]
  BY DEF FailCall
<1>2. ASSUME NEW k \in Node
      PROVE  /\ j(k) \in Job
             /\ j(k).kind = job[k].kind /\ j(k).best = job[k].best
             /\ j(k).waiting = W(k) /\ j(k).origin = O(k)
  <2>1. job[k] \in Job
    BY DEF TypeOK
  <2>2. W(k) \in SUBSET Node /\ O(k) \in Node \cup {NoNode}
    BY <2>1 DEF Job
  <2>. HIDE DEF W, O
  <2>. QED
    BY <2>1, <2>2 DEF Job
<1>3. ASSUME NEW k \in Node, job[k].kind = "idle" PROVE j(k) = Idle
  <2>1. job[k] = Idle
    BY <1>3 DEF TypeOK, IsIdle
  <2>2. Idle.waiting = {} /\ Idle.origin = NoNode
    BY DEF Idle
  <2>3. W(k) = Idle.waiting /\ O(k) = Idle.origin
    BY <2>1, <2>2
  <2>4. \A i \in Job : [i EXCEPT !.waiting = i.waiting, !.origin = i.origin] = i
    BY DEF Job
  <2>. HIDE DEF W, O
  <2>. QED
    BY <2>1, <2>3, <2>4, IdleType
<1>4. \A k \in Node : job'[k] = j(k)
  BY <1>1
<1>. HIDE DEF j
<1>5. job' \in [Node -> Job]
  BY <1>1, <1>2
<1>6. \A k \in Node : IsIdle(k)' => job'[k] = Idle
  BY <1>2, <1>3, <1>4 DEF IsIdle
<1>7. \A k \in Node :
        /\ job'[k].kind = job[k].kind /\ job'[k].best = job[k].best
        /\ job'[k].waiting = W(k) /\ job'[k].origin = O(k)
  BY <1>2, <1>4
<1>. QED
  BY <1>5, <1>6, <1>7

\* A block that is mined.
LEMMA MinedType ==
  ASSUME TypeOK, NEW n \in Node, MineBlock(n)
  PROVE  LET b == BlockAfter(n, chain[n], pool[n])
         IN  /\ b \in Block
             /\ chain' \in [Node -> Seq(Block)] /\ pool' \in [Node -> Seq(Tx)]
             /\ \A k \in Node : chain'[k] = IF k = n THEN Append(chain[k], b) ELSE chain[k]
             /\ \A k \in Node : pool'[k] = IF k = n THEN <<>> ELSE pool[k]
             /\ \A k \in Node : chain'[k] # <<>>
<1>. DEFINE b == BlockAfter(n, chain[n], pool[n])
<1>0. /\ chain \in [Node -> Seq(Block)] /\ pool \in [Node -> Seq(Tx)]
      /\ \A k \in Node : chain[k] # <<>>
  BY DEF TypeOK
<1>1. b \in Block
  BY <1>0, BlockAfterType
<1>2. chain' = [chain EXCEPT ![n] = Append(chain[n], b)] /\ pool' = [pool EXCEPT ![n] = <<>>]
  BY <1>0 DEF MineBlock
<1>. HIDE DEF b
<1>3. Append(chain[n], b) \in Seq(Block) /\ Append(chain[n], b) # <<>>
  BY <1>0, <1>1, AppendProperties
<1>4. <<>> \in Seq(Tx)
  BY EmptySeq
<1>5. chain' \in [Node -> Seq(Block)] /\ \A k \in Node : chain'[k] = IF k = n THEN Append(chain[k], b) ELSE chain[k]
  BY <1>0, <1>2, <1>3
<1>6. pool' \in [Node -> Seq(Tx)] /\ \A k \in Node : pool'[k] = IF k = n THEN <<>> ELSE pool[k]
  BY <1>0, <1>2, <1>4
<1>7. \A k \in Node : chain'[k] # <<>>
  BY <1>0, <1>3, <1>5
<1>. QED
  BY <1>1, <1>5, <1>6, <1>7 DEF b

-----------------------------------------------------------------------------
(* The calls that are open *)

\* A handler of the kind makes calls of the kind call.
Makes(kind, call) ==
  \/ kind = "post" /\ call = "post"
  \/ kind = "notify" /\ call = "resolve"
  \/ kind = "resolve" /\ call = "chain"

\* Only resolve has someone to answer, and it makes one call at a time.
ResolvesApart ==
  \A n \in Node :
    /\ job[n].kind # "resolve" => job[n].origin = NoNode
    /\ job[n].kind = "resolve" => \A k, m \in job[n].waiting : k = m

\* A node has one request at most at each peer: queued, or as the resolve that
\* the peer is running.
OneRequest ==
  \A n, m \in Node :
    /\ \A r, s \in inbox[m] : r.from = n /\ s.from = n => r = s
    /\ \A r \in inbox[m] : r.from = n => job[m].origin # n

\* CallsPending in three parts: what is asked is waited for, ...
RequestsAwaited ==
  \A n, m \in Node : \A r \in inbox[m] :
    r.from = n => m \in job[n].waiting /\ Makes(job[n].kind, r.kind)

ResolvesAwaited ==
  \A n, m \in Node : job[m].origin = n => m \in job[n].waiting /\ job[n].kind = "notify"

\* ... and what is waited for was asked.
WaitsAsked ==
  \A n, m \in Node :
    m \in job[n].waiting => job[m].origin = n \/ \E r \in inbox[m] : r.from = n

CallsInv == ResolvesApart /\ OneRequest /\ RequestsAwaited /\ ResolvesAwaited /\ WaitsAsked

LEMMA OpenCallsPending == TypeOK /\ CallsInv => CallsPending
<1>. SUFFICES ASSUME TypeOK, CallsInv, NEW n \in Node, NEW m \in Node
              PROVE  OpenCalls(n, m) = IF m \in job[n].waiting THEN {CallMadeBy(n)} ELSE {}
  BY DEF CallsPending
<1>1. \A call : Makes(job[n].kind, call) => CallMadeBy(n) = call
  BY DEF Makes, CallMadeBy
<1>2. ASSUME NEW kind \in OpenCalls(n, m)
      PROVE  m \in job[n].waiting /\ kind = CallMadeBy(n)
  <2>1. CASE job[m].origin = n /\ kind = "resolve"
    BY <1>1, <2>1 DEF CallsInv, ResolvesAwaited, Makes
  <2>2. ASSUME NEW r \in inbox[m], r.from = n, kind = r.kind
        PROVE  m \in job[n].waiting /\ kind = CallMadeBy(n)
    BY <1>1, <2>2 DEF CallsInv, RequestsAwaited
  <2>3. \/ job[m].origin = n /\ kind = "resolve"
        \/ \E r \in inbox[m] : r.from = n /\ kind = r.kind
    BY DEF OpenCalls
  <2>. QED
    BY <2>1, <2>2, <2>3
<1>3. ASSUME m \in job[n].waiting PROVE CallMadeBy(n) \in OpenCalls(n, m)
  <2>1. CASE job[m].origin = n
    BY <1>1, <2>1 DEF CallsInv, ResolvesAwaited, OpenCalls, Makes
  <2>2. ASSUME NEW r \in inbox[m], r.from = n PROVE CallMadeBy(n) \in OpenCalls(n, m)
    BY <1>1, <2>2 DEF CallsInv, RequestsAwaited, OpenCalls
  <2>. QED
    BY <1>3, <2>1, <2>2 DEF CallsInv, WaitsAsked
<1>. QED
  BY <1>2, <1>3

\* Most steps change the handler of one node and the requests of the others.
LEMMA SendsCalls ==
  ASSUME TypeOK, CallsInv, NEW n \in Node, NEW j \in Job, NEW peers \in SUBSET Node, NEW r \in Request,
         job[n].waiting = {},
         \A k \in Node : job'[k] = IF k = n THEN j ELSE job[k],
         inbox' = Send(peers, r),
         r.from = n, Makes(j.kind, r.kind), j.waiting = peers,
         j.kind # "resolve" => j.origin = NoNode /\ job[n].origin = NoNode,
         j.kind = "resolve" => j.origin = job[n].origin /\ \A k, m \in peers : k = m
  PROVE  CallsInv'
<1>c. ResolvesApart /\ OneRequest /\ RequestsAwaited /\ ResolvesAwaited /\ WaitsAsked
  BY DEF CallsInv
<1>0. NoNode \notin Node
  BY PeersAssumption DEF NoNode
<1>1. \A m \in Node : \A q : q \in inbox'[m] <=> q \in inbox[m] \/ (m \in peers /\ q = r)
  BY DEF Send
<1>2. \A m \in Node : job[m].origin # n /\ \A q \in inbox[m] : q.from # n
  BY <1>c DEF RequestsAwaited, ResolvesAwaited
<1>3. \A m \in Node : job'[m].origin = job[m].origin
  BY <1>0
<1>4. \A m \in Node : job'[m].origin # n
  BY <1>2, <1>3
<1>5. ResolvesApart'
  BY <1>c DEF ResolvesApart
<1>6. OneRequest'
  BY <1>c, <1>1, <1>2, <1>3, <1>4 DEF OneRequest
<1>7. RequestsAwaited'
  BY <1>c, <1>1, <1>2 DEF RequestsAwaited
<1>8. ResolvesAwaited'
  BY <1>c, <1>3, <1>4 DEF ResolvesAwaited
<1>9. WaitsAsked'
  BY <1>c, <1>1, <1>3 DEF WaitsAsked
<1>. QED
  BY <1>5, <1>6, <1>7, <1>8, <1>9 DEF CallsInv

\* The request r that m takes was served for its caller, if it has one.
LEMMA ServesCall ==
  ASSUME TypeOK, CallsInv, NEW m \in Node, NEW r \in inbox[m], IsIdle(m), Take(m, r),
         \A k \in Node :
            /\ job'[k].kind = job[k].kind /\ job'[k].origin = job[k].origin
            /\ \A p : p \in job'[k].waiting <=> p \in job[k].waiting /\ ~(k = r.from /\ p = m)
  PROVE  CallsInv'
<1>c. ResolvesApart /\ OneRequest /\ RequestsAwaited /\ ResolvesAwaited /\ WaitsAsked
  BY DEF CallsInv
<1>1. \A k \in Node : \A q : q \in inbox'[k] <=> q \in inbox[k] /\ ~(k = m /\ q = r)
  BY TakeType
<1>2. \A k \in Node : \A q \in inbox'[k] : q \in inbox[k]
  BY <1>1
<1>3. ResolvesApart'
  BY <1>c DEF ResolvesApart
<1>4. OneRequest'
  BY <1>c, <1>2 DEF OneRequest
<1>5. RequestsAwaited'
  <2>. SUFFICES ASSUME NEW n \in Node, NEW k \in Node, NEW q \in inbox'[k], q.from = n
                PROVE  k \in job'[n].waiting /\ Makes(job'[n].kind, q.kind)
    BY DEF RequestsAwaited
  <2>1. k \in job[n].waiting /\ Makes(job[n].kind, q.kind)
    BY <1>c, <1>2 DEF RequestsAwaited
  <2>2. ~(n = r.from /\ k = m)
    BY <1>c, <1>1 DEF OneRequest
  <2>. QED
    BY <2>1, <2>2
<1>6. ResolvesAwaited'
  BY <1>c DEF ResolvesAwaited, OneRequest
<1>7. WaitsAsked'
  BY <1>c, <1>1 DEF WaitsAsked
<1>. QED
  BY <1>3, <1>4, <1>5, <1>6, <1>7 DEF CallsInv

LEMMA CallsFailed ==
  ASSUME TypeOK, CallsInv, NEW n \in Node, NEW m \in Node, FailCall(n, m)
  PROVE  inbox' \in [Node -> SUBSET Request] /\ CallsInv'
<1>c. ResolvesApart /\ OneRequest /\ RequestsAwaited /\ ResolvesAwaited /\ WaitsAsked
  BY DEF CallsInv
<1>0. /\ NoNode \notin Node
      /\ inbox \in [Node -> SUBSET Request]
  BY PeersAssumption DEF NoNode, TypeOK
<1>1. \A k \in Node :
        /\ job'[k].kind = job[k].kind
        /\ \A p : p \in job'[k].waiting <=> p \in job[k].waiting /\ ~(k = n /\ p = m)
        /\ k = m /\ job[k].origin = n => job'[k].origin = NoNode
        /\ ~(k = m /\ job[k].origin = n) => job'[k].origin = job[k].origin
  BY FailedType
<1>. DEFINE own == {r \in inbox[m] : r.from = n}
            orphans == {[r EXCEPT !.from = NoNode] : r \in own}
<1>2. \A q \in orphans : q \in Request /\ q.from = NoNode
  BY <1>0 DEF Request
<1>3. \/ inbox' = [inbox EXCEPT ![m] = inbox[m] \ own]
      \/ inbox' = [inbox EXCEPT ![m] = (inbox[m] \ own) \cup orphans]
  BY <1>0 DEF FailCall
<1>4. inbox' \in [Node -> SUBSET Request]
  BY <1>0, <1>2, <1>3
<1>5. \A k \in Node : \A q \in inbox'[k] :
        \/ q.from = NoNode
        \/ q \in inbox[k] /\ ~(k = m /\ q.from = n)
  BY <1>0, <1>2, <1>3
<1>6. \A k \in Node : \A q \in inbox[k] : ~(k = m /\ q.from = n) => q \in inbox'[k]
  BY <1>0, <1>3
<1>. HIDE DEF own, orphans
<1>7. ResolvesApart'
  BY <1>c, <1>1 DEF ResolvesApart
<1>8. OneRequest'
  BY <1>c, <1>0, <1>1, <1>5 DEF OneRequest
<1>9. RequestsAwaited'
  BY <1>c, <1>0, <1>1, <1>5 DEF RequestsAwaited
<1>10. ResolvesAwaited'
  BY <1>c, <1>0, <1>1 DEF ResolvesAwaited
<1>11. WaitsAsked'
  BY <1>c, <1>0, <1>1, <1>6 DEF WaitsAsked
<1>. QED
  BY <1>4, <1>7, <1>8, <1>9, <1>10, <1>11 DEF CallsInv

\* The handlers of n that end, with an answer for the node that asked n to
\* resolve, if there is one.
LEMMA EndsCalls ==
  ASSUME TypeOK, CallsInv, NEW n \in Node, job[n].waiting = {}, UNCHANGED inbox,
         job'[n] = Idle,
         \A k \in Node : k # n =>
            /\ job'[k].kind = job[k].kind /\ job'[k].origin = job[k].origin
            /\ \A p : p \in job'[k].waiting <=> p \in job[k].waiting /\ ~(k = job[n].origin /\ p = n)
  PROVE  CallsInv'
<1>c. ResolvesApart /\ OneRequest /\ RequestsAwaited /\ ResolvesAwaited /\ WaitsAsked
  BY DEF CallsInv
<1>0. /\ NoNode \notin Node
      /\ Idle.kind = "idle" /\ Idle.waiting = {} /\ Idle.origin = NoNode
  BY PeersAssumption DEF NoNode, Idle
<1>1. \A m \in Node : job[m].origin # n /\ \A q \in inbox[m] : q.from # n
  BY <1>c DEF RequestsAwaited, ResolvesAwaited
<1>2. \A m \in Node : m # n => \A k : k \in job'[m].waiting => k \in job[m].waiting
  OBVIOUS
<1>3. ResolvesApart'
  BY <1>c, <1>0, <1>2 DEF ResolvesApart
<1>4. OneRequest'
  BY <1>c, <1>0 DEF OneRequest
<1>5. RequestsAwaited'
  <2>. SUFFICES ASSUME NEW k \in Node, NEW m \in Node, NEW q \in inbox[m], q.from = k
                PROVE  m \in job'[k].waiting /\ Makes(job'[k].kind, q.kind)
    BY DEF RequestsAwaited
  <2>1. m \in job[k].waiting /\ Makes(job[k].kind, q.kind) /\ k # n
    BY <1>c, <1>1 DEF RequestsAwaited
  <2>2. ~(m = n /\ k = job[n].origin)
    BY <1>c DEF OneRequest
  <2>. QED
    BY <2>1, <2>2
<1>6. ResolvesAwaited'
  BY <1>c, <1>0, <1>1 DEF ResolvesAwaited
<1>7. WaitsAsked'
  BY <1>c, <1>0 DEF WaitsAsked
<1>. QED
  BY <1>3, <1>4, <1>5, <1>6, <1>7 DEF CallsInv

-----------------------------------------------------------------------------
(* The inductive invariant: what is typed and the calls that are open.  A    *)
(* late answer to an idle node would break the types, so the two go together. *)

LEMMA CallsUnchanged ==
  ASSUME CallsInv, UNCHANGED <<job, inbox>>
  PROVE  CallsInv'
  BY DEF CallsInv, ResolvesApart, OneRequest, RequestsAwaited, ResolvesAwaited, WaitsAsked

LEMMA IdleFields ==
  ASSUME TypeOK, NEW n \in Node, IsIdle(n)
  PROVE  job[n] = Idle /\ job[n].waiting = {} /\ job[n].origin = NoNode
  BY DEF TypeOK, IsIdle, Idle

Inv == TypeOK /\ CallsInv

LEMMA RegisterStep ==
  ASSUME Inv, NEW n \in Node, NEW m \in Node, RegisterNode(n, m)
  PROVE  Inv'
<1>1. registry' \in [Node -> SUBSET Node]
  BY DEF RegisterNode, Inv, TypeOK
<1>2. TypeOK'
  BY <1>1 DEF RegisterNode, Inv, TypeOK, IsIdle
<1>3. CallsInv'
  BY CallsUnchanged DEF RegisterNode, Inv
<1>. QED
  BY <1>2, <1>3 DEF Inv

LEMMA SubmitStep ==
  ASSUME Inv, NEW n \in Node, NEW t \in Tx, SubmitTransaction(n, t)
  PROVE  Inv'
<1>. DEFINE j == Calling("post", registry[n])
            r == [from |-> n, kind |-> "post", tx |-> {t}]
<1>0. TypeOK /\ CallsInv /\ registry[n] \in SUBSET Node /\ pool \in [Node -> Seq(Tx)]
  BY DEF Inv, TypeOK
<1>1. j \in Job /\ j.kind = "post" /\ j.waiting = registry[n] /\ j.origin = NoNode
  BY <1>0, CallingType
<1>2. r \in Request /\ r.from = n /\ r.kind = "post"
  BY RequestType
<1>3. job[n].waiting = {} /\ job[n].origin = NoNode
  BY <1>0, IdleFields DEF SubmitTransaction
<1>4. job' = [job EXCEPT ![n] = j] /\ inbox' = Send(registry[n], r)
  BY DEF SubmitTransaction
<1>. HIDE DEF j, r
<1>5. /\ job' \in [Node -> Job] /\ \A k \in Node : job'[k] = IF k = n THEN j ELSE job[k]
      /\ \A k \in Node : IsIdle(k)' => job'[k] = Idle
  BY <1>0, <1>1, <1>4, BecomesType
<1>6. inbox' \in [Node -> SUBSET Request]
  BY <1>0, <1>2, <1>4, SendType
<1>7. Append(pool[n], t) \in Seq(Tx)
  BY <1>0, AppendProperties
<1>8. pool' \in [Node -> Seq(Tx)]
  BY <1>0, <1>7 DEF SubmitTransaction
<1>9. TypeOK'
  BY <1>0, <1>5, <1>6, <1>8 DEF SubmitTransaction, TypeOK
<1>10. Makes(j.kind, r.kind)
  BY <1>1, <1>2 DEF Makes
<1>11. CallsInv'
  BY <1>0, <1>1, <1>2, <1>3, <1>4, <1>5, <1>10, SendsCalls
<1>. QED
  BY <1>9, <1>11 DEF Inv

LEMMA NotifyStep ==
  ASSUME Inv, NEW n \in Node, MineAndNotify(n)
  PROVE  Inv'
<1>. DEFINE j == Calling("notify", registry[n])
            r == [from |-> n, kind |-> "resolve", tx |-> NoTx]
<1>0. TypeOK /\ CallsInv /\ registry[n] \in SUBSET Node
  BY DEF Inv, TypeOK
<1>1. j \in Job /\ j.kind = "notify" /\ j.waiting = registry[n] /\ j.origin = NoNode
  BY <1>0, CallingType
<1>2. r \in Request /\ r.from = n /\ r.kind = "resolve"
  BY RequestType
<1>3. job[n].waiting = {} /\ job[n].origin = NoNode
  BY <1>0, IdleFields DEF MineAndNotify, MineBlock
<1>4. job' = [job EXCEPT ![n] = j] /\ inbox' = Send(registry[n], r)
  BY DEF MineAndNotify
<1>. HIDE DEF j, r
<1>5. /\ job' \in [Node -> Job] /\ \A k \in Node : job'[k] = IF k = n THEN j ELSE job[k]
      /\ \A k \in Node : IsIdle(k)' => job'[k] = Idle
  BY <1>0, <1>1, <1>4, BecomesType
<1>6. inbox' \in [Node -> SUBSET Request]
  BY <1>0, <1>2, <1>4, SendType
<1>7. /\ chain' \in [Node -> Seq(Block)] /\ pool' \in [Node -> Seq(Tx)]
      /\ \A k \in Node : chain'[k] # <<>>
  BY <1>0, MinedType DEF MineAndNotify
<1>8. TypeOK'
  BY <1>0, <1>5, <1>6, <1>7 DEF MineAndNotify, TypeOK
<1>9. Makes(j.kind, r.kind)
  BY <1>1, <1>2 DEF Makes
<1>10. CallsInv'
  BY <1>0, <1>1, <1>2, <1>3, <1>4, <1>5, <1>9, SendsCalls
<1>. QED
  BY <1>8, <1>10 DEF Inv

LEMMA LegacyStep ==
  ASSUME Inv, NEW n \in Node, LegacyMine(n)
  PROVE  Inv'
<1>0. TypeOK /\ CallsInv
  BY DEF Inv
<1>1. /\ chain' \in [Node -> Seq(Block)] /\ pool' \in [Node -> Seq(Tx)]
      /\ \A k \in Node : chain'[k] # <<>>
  BY <1>0, MinedType DEF LegacyMine
<1>2. TypeOK'
  BY <1>0, <1>1 DEF LegacyMine, TypeOK, IsIdle
<1>3. CallsInv'
  BY <1>0, CallsUnchanged DEF LegacyMine
<1>. QED
  BY <1>2, <1>3 DEF Inv

LEMMA ResolveStep ==
  ASSUME Inv, NEW n \in Node, ResolveNodes(n)
  PROVE  Inv'
<1>. DEFINE j == Resolving(n, NoNode)
<1>0. TypeOK /\ CallsInv
  BY DEF Inv
<1>1. j \in Job /\ j.kind = "resolve" /\ j.waiting = {} /\ j.origin = NoNode
  BY <1>0, ResolvingType
<1>2. job[n].waiting = {} /\ job[n].origin = NoNode
  BY <1>0, IdleFields DEF ResolveNodes
<1>3. job' = [job EXCEPT ![n] = j]
  BY DEF ResolveNodes
<1>. HIDE DEF j
<1>4. /\ job' \in [Node -> Job] /\ \A k \in Node : job'[k] = IF k = n THEN j ELSE job[k]
      /\ \A k \in Node : IsIdle(k)' => job'[k] = Idle
  BY <1>0, <1>1, <1>3, BecomesType
<1>5. TypeOK'
  BY <1>0, <1>4 DEF ResolveNodes, TypeOK
<1>6. inbox' = inbox /\ \A k \in Node : /\ job'[k].origin = job[k].origin
                                        /\ job'[k].waiting = job[k].waiting
                                        /\ k # n => job'[k] = job[k]
  BY <1>1, <1>2, <1>4 DEF ResolveNodes
<1>7. CallsInv'
  BY <1>0, <1>1, <1>2, <1>4, <1>6
  DEF CallsInv, ResolvesApart, OneRequest, RequestsAwaited, ResolvesAwaited, WaitsAsked
<1>. QED
  BY <1>5, <1>7 DEF Inv

LEMMA ServePostStep ==
  ASSUME Inv, NEW m \in Node, NEW r \in inbox[m], ServePost(m, r)
  PROVE  Inv'
<1>0. TypeOK /\ CallsInv /\ r \in Request /\ IsIdle(m) /\ Take(m, r)
  BY DEF Inv, TypeOK, ServePost
<1>1. r.from \in Node \cup {NoNode} /\ \A t \in r.tx : t \in Tx
  BY <1>0 DEF Request, NoTx
<1>2. job' = Answered(r.from, m)
  BY DEF ServePost
<1>3. /\ job' \in [Node -> Job]
      /\ \A k \in Node : /\ job'[k].kind = job[k].kind /\ job'[k].origin = job[k].origin
                         /\ \A p : p \in job'[k].waiting <=> p \in job[k].waiting /\ ~(k = r.from /\ p = m)
                         /\ IsIdle(k)' => job'[k] = Idle
  BY <1>0, <1>1, <1>2, AnsweredType DEF IsIdle
<1>4. inbox' \in [Node -> SUBSET Request]
  BY <1>0, TakeType
<1>5. PICK t \in r.tx : pool' = [pool EXCEPT ![m] = Append(pool[m], t)]
  BY <1>0 DEF ServePost, TypeOK
<1>6. pool[m] \in Seq(Tx) /\ pool \in [Node -> Seq(Tx)]
  BY <1>0 DEF TypeOK
<1>7. Append(pool[m], t) \in Seq(Tx)
  BY <1>1, <1>5, <1>6, AppendProperties
<1>8. pool' \in [Node -> Seq(Tx)]
  BY <1>5, <1>6, <1>7
<1>9. TypeOK'
  BY <1>0, <1>3, <1>4, <1>8 DEF ServePost, TypeOK
<1>10. CallsInv'
  BY <1>0, <1>3, ServesCall
<1>. QED
  BY <1>9, <1>10 DEF Inv

LEMMA ServeChainStep ==
  ASSUME Inv, NEW m \in Node, NEW r \in inbox[m], ServeChain(m, r)
  PROVE  Inv'
<1>0. TypeOK /\ CallsInv /\ r \in Request /\ IsIdle(m) /\ Take(m, r) /\ r.kind = "chain"
  BY DEF Inv, TypeOK, ServeChain
<1>1. r.from \in Node \cup {NoNode} /\ NoNode \notin Node
  BY <1>0, PeersAssumption DEF Request, NoNode
<1>2. inbox' \in [Node -> SUBSET Request]
  BY <1>0, TakeType
<1>3. CASE r.from = NoNode
  <2>1. job' = job
    BY <1>3 DEF ServeChain
  <2>2. TypeOK'
    BY <1>0, <1>2, <2>1 DEF ServeChain, TypeOK, IsIdle
  <2>3. CallsInv'
    BY <1>0, <1>1, <1>3, <2>1, ServesCall
  <2>. QED
    BY <2>2, <2>3 DEF Inv
<1>4. CASE r.from \in Node
  <2>. DEFINE n == r.from
              j == Consider(n, chain[m])
  <2>0. n \in Node /\ job[n] \in Job /\ chain[m] \in Seq(Block)
    BY <1>0, <1>4 DEF TypeOK
  <2>1. m \in job[n].waiting /\ job[n].kind = "resolve"
    BY <1>0, <1>4 DEF CallsInv, RequestsAwaited, Makes
  <2>2. \A k \in job[n].waiting : k = m
    BY <1>0, <1>4, <2>1 DEF CallsInv, ResolvesApart
  <2>3. j \in Job /\ j.kind = "resolve" /\ j.waiting = {} /\ j.origin = job[n].origin
    BY <2>0, <2>1, ConsiderType
  <2>4. job' = [job EXCEPT ![n] = j]
    BY <1>1, <1>4 DEF ServeChain
  <2>. HIDE DEF j
  <2>5. /\ job' \in [Node -> Job] /\ \A k \in Node : job'[k] = IF k = n THEN j ELSE job[k]
        /\ \A k \in Node : IsIdle(k)' => job'[k] = Idle
    BY <1>0, <2>0, <2>3, <2>4, BecomesType
  <2>6. TypeOK'
    BY <1>0, <1>2, <2>5 DEF ServeChain, TypeOK
  <2>7. \A k \in Node : /\ job'[k].kind = job[k].kind /\ job'[k].origin = job[k].origin
                        /\ \A p : p \in job'[k].waiting <=> p \in job[k].waiting /\ ~(k = r.from /\ p = m)
    BY <2>0, <2>1, <2>2, <2>3, <2>5
  <2>8. CallsInv'
    BY <1>0, <2>7, ServesCall
  <2>. QED
    BY <2>6, <2>8 DEF Inv
<1>. QED
  BY <1>1, <1>3, <1>4

LEMMA ServeResolveStep ==
  ASSUME Inv, NEW m \in Node, NEW r \in inbox[m], ServeResolve(m, r)
  PROVE  Inv'
<1>. DEFINE j == Resolving(m, r.from)
<1>0. TypeOK /\ CallsInv /\ r \in Request /\ IsIdle(m) /\ Take(m, r) /\ r.kind = "resolve"
  BY DEF Inv, TypeOK, ServeResolve
<1>c. ResolvesApart /\ OneRequest /\ RequestsAwaited /\ ResolvesAwaited /\ WaitsAsked
  BY <1>0 DEF CallsInv
<1>1. r.from \in Node \cup {NoNode} /\ NoNode \notin Node
  BY <1>0, PeersAssumption DEF Request, NoNode
<1>2. inbox' \in [Node -> SUBSET Request]
  BY <1>0, TakeType
<1>3. \A k \in Node : \A q : q \in inbox'[k] <=> q \in inbox[k] /\ ~(k = m /\ q = r)
  BY <1>0, TakeType
<1>4. j \in Job /\ j.kind = "resolve" /\ j.waiting = {} /\ j.origin = r.from
  BY <1>0, <1>1, ResolvingType
<1>5. job[m].waiting = {} /\ job[m].origin = NoNode
  BY <1>0, IdleFields
<1>6. job' = [job EXCEPT ![m] = j]
  BY DEF ServeResolve
<1>. HIDE DEF j
<1>7. /\ job' \in [Node -> Job] /\ \A k \in Node : job'[k] = IF k = m THEN j ELSE job[k]
      /\ \A k \in Node : IsIdle(k)' => job'[k] = Idle
  BY <1>0, <1>4, <1>6, BecomesType
<1>8. TypeOK'
  BY <1>0, <1>2, <1>7 DEF ServeResolve, TypeOK
<1>9. \A k \in Node :
        /\ k # m => job'[k] = job[k]
        /\ job'[k].waiting = job[k].waiting
        /\ job'[k].origin = IF k = m THEN r.from ELSE job[k].origin
  BY <1>4, <1>5, <1>7
<1>10. job'[m].kind = "resolve"
  BY <1>4, <1>7
\* The caller waits for this answer, and is another node: this one is idle.
<1>11. r.from \in Node => m \in job[r.from].waiting /\ job[r.from].kind = "notify" /\ r.from # m
  BY <1>0, <1>c, <1>5 DEF RequestsAwaited, Makes
<1>12. \A q \in inbox[m] : q.from = r.from /\ r.from \in Node => q = r
  BY <1>c DEF OneRequest
<1>13. ResolvesApart'
  BY <1>c, <1>5, <1>9, <1>10 DEF ResolvesApart
<1>14. OneRequest'
  BY <1>c, <1>3, <1>9, <1>12 DEF OneRequest
<1>15. RequestsAwaited'
  BY <1>c, <1>3, <1>5, <1>9 DEF RequestsAwaited
<1>16. ResolvesAwaited'
  BY <1>c, <1>5, <1>9, <1>11 DEF ResolvesAwaited
<1>17. WaitsAsked'
  <2>. SUFFICES ASSUME NEW n \in Node, NEW k \in Node, k \in job[n].waiting,
                       job[k].origin = n \/ \E q \in inbox[k] : q.from = n
                PROVE  job'[k].origin = n \/ \E q \in inbox'[k] : q.from = n
    BY <1>c, <1>9 DEF WaitsAsked
  <2>1. CASE job[k].origin = n
    BY <1>1, <1>5, <1>9, <2>1
  <2>2. ASSUME NEW q \in inbox[k], q.from = n
        PROVE  job'[k].origin = n \/ \E s \in inbox'[k] : s.from = n
    <3>1. CASE k = m /\ q = r
      BY <1>9, <2>2, <3>1
    <3>2. CASE ~(k = m /\ q = r)
      BY <1>3, <2>2, <3>2
    <3>. QED
      BY <3>1, <3>2
  <2>. QED
    BY <2>1, <2>2
<1>18. CallsInv'
  BY <1>13, <1>14, <1>15, <1>16, <1>17 DEF CallsInv
<1>. QED
  BY <1>8, <1>18 DEF Inv

LEMMA FetchStep ==
  ASSUME Inv, NEW n \in Node, FetchNext(n)
  PROVE  Inv'
<1>. DEFINE r == [from |-> n, kind |-> "chain", tx |-> NoTx]
<1>0. TypeOK /\ CallsInv /\ job[n] \in Job /\ job \in [Node -> Job]
  BY DEF Inv, TypeOK
<1>1. PICK m \in job[n].todo :
        /\ job' = [job EXCEPT ![n].waiting = {m}, ![n].todo = @ \ {m}]
        /\ inbox' = Send({m}, r)
  BY DEF FetchNext
<1>. DEFINE j == [job[n] EXCEPT !.waiting = {m}, !.todo = @ \ {m}]
<1>2. job' = [job EXCEPT ![n] = j]
  BY <1>0, <1>1
<1>3. {m} \in SUBSET Node /\ job[n].todo \ {m} \in SUBSET Node
  BY <1>0, <1>1 DEF Job
<1>4. j \in Job /\ j.kind = job[n].kind /\ j.waiting = {m} /\ j.origin = job[n].origin
  BY <1>0, <1>3 DEF Job
<1>5. job[n].kind = "resolve" /\ job[n].waiting = {}
  BY DEF FetchNext
<1>6. r \in Request /\ r.from = n /\ r.kind = "chain"
  BY RequestType
<1>. HIDE DEF j, r
<1>7. /\ job' \in [Node -> Job] /\ \A k \in Node : job'[k] = IF k = n THEN j ELSE job[k]
      /\ \A k \in Node : IsIdle(k)' => job'[k] = Idle
  BY <1>0, <1>2, <1>4, <1>5, BecomesType
<1>8. inbox' \in [Node -> SUBSET Request]
  BY <1>0, <1>1, <1>3, <1>6, SendType
<1>9. TypeOK'
  BY <1>0, <1>7, <1>8 DEF FetchNext, TypeOK
<1>. DEFINE peers == {m}
<1>10. /\ Makes(j.kind, r.kind) /\ \A k, p \in peers : k = p
       /\ peers \in SUBSET Node /\ j.waiting = peers /\ inbox' = Send(peers, r)
       /\ j.kind = "resolve" /\ j.origin = job[n].origin /\ job[n].waiting = {}
  BY <1>1, <1>3, <1>4, <1>5, <1>6 DEF Makes
<1>. HIDE DEF peers
<1>11. CallsInv'
  BY <1>0, <1>4, <1>6, <1>7, <1>10, SendsCalls
<1>. QED
  BY <1>9, <1>11 DEF Inv

LEMMA FailStep ==
  ASSUME Inv, NEW n \in Node, NEW m \in Node, FailCall(n, m)
  PROVE  Inv'
<1>0. TypeOK /\ CallsInv
  BY DEF Inv
<1>1. job' \in [Node -> Job] /\ \A k \in Node : IsIdle(k)' => job'[k] = Idle
  BY <1>0, FailedType
<1>2. inbox' \in [Node -> SUBSET Request] /\ CallsInv'
  BY <1>0, CallsFailed
<1>3. TypeOK'
  BY <1>0, <1>1, <1>2 DEF FailCall, TypeOK
<1>. QED
  BY <1>2, <1>3 DEF Inv

LEMMA EndResolveStep ==
  ASSUME Inv, NEW n \in Node, EndResolve(n)
  PROVE  Inv'
<1>. DEFINE answered == Answered(job[n].origin, n)
            adopted == IF job[n].best = <<>> THEN chain[n] ELSE job[n].best
<1>0. TypeOK /\ CallsInv /\ job[n] \in Job
  BY DEF Inv, TypeOK
<1>1. job[n].origin \in Node \cup {NoNode} /\ job[n].best \in Seq(Block)
  BY <1>0 DEF Job
<1>2. answered \in [Node -> Job]
  BY <1>0, <1>1, AnsweredType
<1>3. \A k \in Node : answered[k].kind = job[k].kind /\ answered[k].origin = job[k].origin
  <2>1. ASSUME NEW o \in Node \cup {NoNode}
        PROVE  \A k \in Node : /\ Answered(o, n)[k].kind = job[k].kind
                               /\ Answered(o, n)[k].origin = job[k].origin
    BY <1>0, AnsweredType
  <2>. QED
    BY <1>1, <2>1
<1>a. \A k \in Node : answered[k].kind = "idle" => answered[k] = Idle
  BY <1>0, <1>1, AnsweredType
<1>4. \A k \in Node : \A p : p \in answered[k].waiting <=>
                               p \in job[k].waiting /\ ~(k = job[n].origin /\ p = n)
  BY <1>0, <1>1, AnsweredType
<1>5. job' = [answered EXCEPT ![n] = Idle]
  BY DEF EndResolve
<1>. HIDE DEF answered
<1>6. job' \in [Node -> Job] /\ job'[n] = Idle /\ \A k \in Node : k # n => job'[k] = answered[k]
  BY <1>2, <1>5, IdleType
<1>7. chain' = [chain EXCEPT ![n] = adopted]
  BY DEF EndResolve
<1>8. adopted \in Seq(Block) /\ adopted # <<>>
  BY <1>0, <1>1 DEF TypeOK
<1>. HIDE DEF adopted
<1>9. chain' \in [Node -> Seq(Block)] /\ \A k \in Node : chain'[k] # <<>>
  BY <1>0, <1>7, <1>8 DEF TypeOK
<1>10. \A k \in Node : IsIdle(k)' => job'[k] = Idle
  BY <1>a, <1>6 DEF IsIdle
<1>11. TypeOK'
  BY <1>0, <1>6, <1>9, <1>10 DEF EndResolve, TypeOK
<1>12. job[n].waiting = {} /\ UNCHANGED inbox
  BY DEF EndResolve
<1>13. \A k \in Node : k # n =>
         /\ job'[k].kind = job[k].kind /\ job'[k].origin = job[k].origin
         /\ \A p : p \in job'[k].waiting <=> p \in job[k].waiting /\ ~(k = job[n].origin /\ p = n)
  BY <1>3, <1>4, <1>6
<1>14. CallsInv'
  BY <1>0, <1>6, <1>12, <1>13, EndsCalls
<1>. QED
  BY <1>11, <1>14 DEF Inv

LEMMA EndCallsStep ==
  ASSUME Inv, NEW n \in Node, EndCalls(n)
  PROVE  Inv'
<1>0. TypeOK /\ CallsInv /\ NoNode \notin Node
  BY PeersAssumption DEF Inv, NoNode
<1>1. /\ job' = [job EXCEPT ![n] = Idle] /\ UNCHANGED inbox
      /\ job[n].waiting = {} /\ job[n].kind # "resolve"
  BY DEF EndCalls
<1>2. /\ job' \in [Node -> Job] /\ \A k \in Node : job'[k] = IF k = n THEN Idle ELSE job[k]
      /\ \A k \in Node : IsIdle(k)' => job'[k] = Idle
  BY <1>0, <1>1, IdleType, BecomesType
<1>3. TypeOK'
  BY <1>0, <1>2 DEF EndCalls, TypeOK
<1>4. job[n].origin = NoNode
  BY <1>0, <1>1 DEF CallsInv, ResolvesApart
<1>5. \A k \in Node : k # n =>
         /\ job'[k].kind = job[k].kind /\ job'[k].origin = job[k].origin
         /\ \A p : p \in job'[k].waiting <=> p \in job[k].waiting /\ ~(k = job[n].origin /\ p = n)
  BY <1>0, <1>2, <1>4
<1>6. job'[n] = Idle
  BY <1>2
<1>7. CallsInv'
  BY <1>0, <1>1, <1>5, <1>6, EndsCalls
<1>. QED
  BY <1>3, <1>7 DEF Inv

LEMMA InvInit == Init => Inv
<1>. SUFFICES ASSUME Init PROVE Inv
  OBVIOUS
<1>0. \A n \in Node : Genesis(n) \in Block
  BY GenesisType
<1>1. \A n \in Node : << Genesis(n) >> \in Seq(Block) /\ << Genesis(n) >> # <<>>
  <2>. TAKE n \in Node
  <2>1. << Genesis(n) >> = Append(<<>>, Genesis(n))
    OBVIOUS
  <2>. QED
    BY <1>0, <2>1, EmptySeq, AppendProperties
<1>2. chain \in [Node -> Seq(Block)] /\ \A n \in Node : chain[n] # <<>>
  BY <1>1 DEF Init
<1>3. pool \in [Node -> Seq(Tx)]
  BY EmptySeq DEF Init
<1>4. job \in [Node -> Job] /\ \A n \in Node : job[n] = Idle
  BY IdleType DEF Init
<1>5. inbox \in [Node -> SUBSET Request] /\ \A n \in Node : inbox[n] = {}
  BY DEF Init
<1>6. TypeOK
  BY <1>2, <1>3, <1>4, <1>5 DEF Init, TypeOK
<1>7. Idle.kind = "idle" /\ Idle.waiting = {} /\ Idle.origin = NoNode /\ NoNode \notin Node
  BY PeersAssumption DEF Idle, NoNode
<1>8. CallsInv
  BY <1>4, <1>5, <1>7
  DEF CallsInv, ResolvesApart, OneRequest, RequestsAwaited, ResolvesAwaited, WaitsAsked
<1>. QED
  BY <1>6, <1>8 DEF Inv

LEMMA InvStep == Inv /\ [Next]_vars => Inv'
<1>. SUFFICES ASSUME Inv, [Next]_vars PROVE Inv'
  OBVIOUS
<1>1. CASE UNCHANGED vars
  <2>1. TypeOK'
    BY <1>1 DEF vars, Inv, TypeOK, IsIdle
  <2>2. CallsInv'
    BY <1>1, CallsUnchanged DEF vars, Inv
  <2>. QED
    BY <2>1, <2>2 DEF Inv
<1>. QED
  BY <1>1, RegisterStep, SubmitStep, NotifyStep, LegacyStep, ResolveStep, ServePostStep,
     ServeResolveStep, ServeChainStep, FetchStep, FailStep, EndResolveStep, EndCallsStep DEF Next

LEMMA Invariant == Spec => []Inv
  BY InvInit, InvStep, PTL DEF Spec

\* The type invariant; an idle node waits for nobody and owes nobody an answer.
THEOREM PeersTypeCorrect == Spec => []TypeOK
<1>1. Inv => TypeOK
  BY DEF Inv
<1>. QED
  BY <1>1, Invariant, PTL

\* Every handler that waits has its request open at the peer, and every open
\* request has its handler waiting, whatever calls time out.
THEOREM CallsStayPending == Spec => []CallsPending
<1>1. Inv => CallsPending
  BY OpenCallsPending DEF Inv
<1>. QED
  BY <1>1, Invariant, PTL

-----------------------------------------------------------------------------
(* Chains *)

\* No handler ever has a chain to adopt: the one it fetches has no Merkle roots.
NothingAdopted == \A n \in Node : job[n].best = <<>>

LEMMA NothingStep == Inv /\ NothingAdopted /\ [Next]_vars => NothingAdopted'
<1>. SUFFICES ASSUME Inv, NothingAdopted, [Next]_vars PROVE NothingAdopted'
  OBVIOUS
<1>0. TypeOK /\ job \in [Node -> Job] /\ inbox \in [Node -> SUBSET Request]
  BY DEF Inv, TypeOK
<1>i. Idle.best = <<>>
  BY DEF Idle
<1>1. CASE UNCHANGED job
  BY <1>1 DEF NothingAdopted
<1>2. ASSUME NEW n \in Node, NEW j, job' = [job EXCEPT ![n] = j], j.best = <<>>
      PROVE  NothingAdopted'
  BY <1>0, <1>2 DEF NothingAdopted
<1>3. ASSUME NEW n \in Node, NEW t \in Tx, SubmitTransaction(n, t) PROVE NothingAdopted'
  <2>1. registry[n] \in SUBSET Node
    BY <1>0 DEF TypeOK
  <2>2. Calling("post", registry[n]).best = <<>>
    BY <2>1, CallingType
  <2>. QED
    BY <1>2, <1>3, <2>2 DEF SubmitTransaction
<1>4. ASSUME NEW n \in Node, MineAndNotify(n) PROVE NothingAdopted'
  <2>1. registry[n] \in SUBSET Node
    BY <1>0 DEF TypeOK
  <2>2. Calling("notify", registry[n]).best = <<>>
    BY <2>1, CallingType
  <2>. QED
    BY <1>2, <1>4, <2>2 DEF MineAndNotify
<1>5. ASSUME NEW n \in Node, ResolveNodes(n) PROVE NothingAdopted'
  <2>1. Resolving(n, NoNode).best = <<>>
    BY <1>0, ResolvingType
  <2>. QED
    BY <1>2, <1>5, <2>1 DEF ResolveNodes
<1>6. ASSUME NEW o \in Node \cup {NoNode}, NEW n \in Node
      PROVE  /\ Answered(o, n) \in [Node -> Job]
             /\ \A k \in Node : Answered(o, n)[k].best = <<>>
  BY <1>0, AnsweredType DEF NothingAdopted
<1>7. ASSUME NEW m \in Node, NEW r \in inbox[m], ServePost(m, r) PROVE NothingAdopted'
  <2>1. r.from \in Node \cup {NoNode}
    BY <1>0 DEF Request
  <2>. QED
    BY <1>6, <1>7, <2>1 DEF ServePost, NothingAdopted
<1>8. ASSUME NEW m \in Node, NEW r \in inbox[m], ServeResolve(m, r) PROVE NothingAdopted'
  <2>1. r.from \in Node \cup {NoNode}
    BY <1>0 DEF Request
  <2>2. Resolving(m, r.from).best = <<>>
    BY <1>0, <2>1, ResolvingType
  <2>. QED
    BY <1>2, <1>8, <2>2 DEF ServeResolve
<1>9. ASSUME NEW m \in Node, NEW r \in inbox[m], ServeChain(m, r) PROVE NothingAdopted'
  <2>1. r.from \in Node \cup {NoNode} /\ chain[m] \in Seq(Block)
    BY <1>0 DEF Request, TypeOK
  <2>2. CASE r.from = NoNode
    BY <1>1, <1>9, <2>2 DEF ServeChain
  <2>3. CASE r.from # NoNode
    <3>1. r.from \in Node /\ job[r.from] \in Job
      BY <1>0, <2>1, <2>3
    <3>2. Consider(r.from, chain[m]).best = <<>>
      BY <2>1, <3>1, ConsiderType DEF NothingAdopted
    <3>. QED
      BY <1>2, <1>9, <2>3, <3>1, <3>2 DEF ServeChain
  <2>. QED
    BY <2>2, <2>3
<1>10. ASSUME NEW n \in Node, FetchNext(n) PROVE NothingAdopted'
  <2>0. job[n] \in Job
    BY <1>0
  <2>1. PICK m \in job[n].todo :
          job' = [job EXCEPT ![n].waiting = {m}, ![n].todo = @ \ {m}]
    BY <1>10 DEF FetchNext
  <2>. DEFINE j == [job[n] EXCEPT !.waiting = {m}, !.todo = @ \ {m}]
  <2>2. job' = [job EXCEPT ![n] = j]
    BY <1>0, <2>1
  <2>3. j.best = <<>>
    BY <2>0 DEF Job, NothingAdopted
  <2>. HIDE DEF j
  <2>. QED
    BY <1>2, <2>2, <2>3
<1>11. ASSUME NEW n \in Node, NEW m \in Node, FailCall(n, m) PROVE NothingAdopted'
  BY <1>0, <1>11, FailedType DEF NothingAdopted
<1>12. ASSUME NEW n \in Node, EndResolve(n) PROVE NothingAdopted'
  <2>1. job[n].origin \in Node \cup {NoNode}
    BY <1>0 DEF Job
  <2>. DEFINE answered == Answered(job[n].origin, n)
  <2>2. answered \in [Node -> Job] /\ \A k \in Node : answered[k].best = <<>>
    BY <1>6, <2>1
  <2>3. job' = [answered EXCEPT ![n] = Idle]
    BY <1>12 DEF EndResolve
  <2>. HIDE DEF answered
  <2>. QED
    BY <1>i, <2>2, <2>3 DEF NothingAdopted
<1>13. ASSUME NEW n \in Node, EndCalls(n) PROVE NothingAdopted'
  BY <1>2, <1>i, <1>13 DEF EndCalls
<1>14. ASSUME NEW n \in Node, NEW m \in Node, RegisterNode(n, m) PROVE NothingAdopted'
  BY <1>1, <1>14 DEF RegisterNode
<1>15. ASSUME NEW n \in Node, LegacyMine(n) PROVE NothingAdopted'
  BY <1>1, <1>15 DEF LegacyMine
<1>16. CASE UNCHANGED vars
  BY <1>1, <1>16 DEF vars
<1>. QED
  BY <1>3, <1>4, <1>5, <1>7, <1>8, <1>9, <1>10, <1>11, <1>12, <1>13, <1>14, <1>15, <1>16 DEF Next

\* However many blocks its peers have, no node ever adopts a chain of theirs.
THEOREM NoChainIsAdopted == Spec => []NothingAdopted
<1>1. Init => NothingAdopted
  BY DEF Init, NothingAdopted, Idle
<1>. QED
  BY <1>1, NothingStep, Invariant, PTL DEF Spec

\* So a chain changes only when its node mines.
Mined(n) ==
  /\ chain'[n] = Append(chain[n], BlockAfter(n, chain[n], pool[n]))
  /\ pool'[n] = <<>>

LEMMA ChainStep ==
  ASSUME Inv, NothingAdopted, [Next]_vars, NEW k \in Node
  PROVE  chain'[k] = chain[k] \/ Mined(k)
<1>0. TypeOK /\ chain \in [Node -> Seq(Block)]
  BY DEF Inv, TypeOK
<1>1. CASE UNCHANGED chain
  BY <1>1
<1>2. ASSUME NEW n \in Node, MineBlock(n) PROVE chain'[k] = chain[k] \/ Mined(k)
  BY <1>0, <1>2, MinedType DEF Mined
<1>3. ASSUME NEW n \in Node, EndResolve(n) PROVE chain'[k] = chain[k]
  BY <1>0, <1>3 DEF EndResolve, NothingAdopted
<1>. QED
  BY <1>1, <1>2, <1>3
  DEF Next, vars, RegisterNode, SubmitTransaction, MineAndNotify, LegacyMine, ResolveNodes,
      ServePost, ServeResolve, ServeChain, FetchNext, FailCall, EndCalls

LEMMA LinkedAppend ==
  ASSUME NEW c \in Seq(Block), c # <<>>, Linked(c), NEW n \in Node, NEW txs \in Seq(Tx)
  PROVE  Linked(Append(c, BlockAfter(n, c, txs)))
<1>. DEFINE b == BlockAfter(n, c, txs)
            d == Append(c, b)
<1>1. b \in Block /\ b.root = RootOf(b.txs) /\ b.previous = {HashOf(c[Len(c)])}
  BY BlockAfterType DEF BlockAfter
<1>2. Len(c) \in Nat \ {0} /\ DOMAIN c = 1..Len(c)
  BY EmptySeq, LenProperties
<1>. HIDE DEF b
<1>3. /\ d \in Seq(Block) /\ Len(d) = Len(c) + 1
      /\ \A i \in 1..Len(c) : d[i] = c[i]
      /\ d[Len(c) + 1] = b
  BY <1>1, AppendProperties
<1>4. DOMAIN d = 1..(Len(c) + 1)
  BY <1>3, LenProperties
<1>. HIDE DEF d
<1>5. \A i \in DOMAIN d : d[i].root = RootOf(d[i].txs)
  BY <1>1, <1>2, <1>3, <1>4 DEF Linked
<1>6. ASSUME NEW i \in 2..Len(d) PROVE d[i].previous = {HashOf(d[i - 1])}
  <2>1. CASE i = Len(c) + 1
    BY <1>1, <1>2, <1>3, <2>1
  <2>2. CASE i \in 2..Len(c)
    BY <1>2, <1>3, <2>2 DEF Linked
  <2>. QED
    BY <1>2, <1>3, <2>1, <2>2
<1>. QED
  BY <1>5, <1>6 DEF Linked, d, b

\* Every chain that a node serves keeps the Merkle roots and the links it was
\* mined with.
THEOREM ChainsStayLinked == Spec => []ChainsLinked
<1>1. Init => ChainsLinked
  <2>. SUFFICES ASSUME NEW n \in Node, NEW c, c = << Genesis(n) >> PROVE Linked(c)
    BY DEF Init, ChainsLinked
  <2>1. DOMAIN c = {1} /\ Len(c) = 1 /\ c[1] = Genesis(n)
    OBVIOUS
  <2>. QED
    BY <2>1, GenesisType DEF Linked
<1>2. Inv /\ NothingAdopted /\ ChainsLinked /\ [Next]_vars => ChainsLinked'
  <2>. SUFFICES ASSUME Inv, NothingAdopted, ChainsLinked, [Next]_vars, NEW n \in Node
                PROVE  Linked(chain'[n])
    BY DEF ChainsLinked
  <2>1. Linked(chain[n]) /\ chain[n] \in Seq(Block) /\ chain[n] # <<>> /\ pool[n] \in Seq(Tx)
    BY DEF ChainsLinked, Inv, TypeOK
  <2>. QED
    BY <2>1, ChainStep, LinkedAppend DEF Mined
<1>. QED
  BY <1>1, <1>2, Invariant, NoChainIsAdopted, PTL DEF Spec

\* No chain gets shorter, and no transaction that was confirmed is taken back.
THEOREM ConfirmationsStay == Spec => ConfirmedStay
<1>1. Inv /\ NothingAdopted /\ [Next]_vars =>
        [\A n \in Node : /\ Len(chain'[n]) >= Len(chain[n])
                         /\ Confirmed(chain[n]) \subseteq Confirmed(chain'[n])]_chain
  <2>. SUFFICES ASSUME Inv, NothingAdopted, [Next]_vars, NEW n \in Node
                PROVE  /\ Len(chain'[n]) >= Len(chain[n])
                       /\ Confirmed(chain[n]) \subseteq Confirmed(chain'[n])
    OBVIOUS
  <2>. DEFINE c == chain[n]
              b == BlockAfter(n, chain[n], pool[n])
  <2>0. c \in Seq(Block) /\ c # <<>> /\ pool[n] \in Seq(Tx)
    BY DEF Inv, TypeOK
  <2>1. Len(c) \in Nat /\ DOMAIN c = 1..Len(c)
    BY <2>0, LenProperties
  <2>2. CASE chain'[n] = chain[n]
    BY <2>1, <2>2
  <2>3. CASE chain'[n] = Append(c, b)
    <3>1. b \in Block
      BY <2>0, BlockAfterType
    <3>. HIDE DEF b, c
    <3>2. /\ chain'[n] \in Seq(Block) /\ Len(chain'[n]) = Len(c) + 1
          /\ \A i \in 1..Len(c) : chain'[n][i] = c[i]
      BY <2>0, <2>3, <3>1, AppendProperties
    <3>3. DOMAIN chain'[n] = 1..(Len(c) + 1)
      BY <3>2, LenProperties
    <3>4. Confirmed(c) \subseteq Confirmed(chain'[n])
      BY <2>1, <3>2, <3>3 DEF Confirmed
    <3>. QED
      BY <2>1, <3>2, <3>4 DEF c
  <2>. QED
    BY <2>2, <2>3, ChainStep DEF Mined
<1>. QED
  BY <1>1, Invariant, NoChainIsAdopted, PTL DEF Spec, ConfirmedStay

-----------------------------------------------------------------------------
(* One copy of a transaction *)

\* The propagated requests with t that are queued at n.
Posts(n, t) == {r \in inbox[n] : r.kind = "post" /\ r.tx = {t}}

AtMostOneIn(S) == \A x, y \in S : x = y

\* AtMostOnce is not inductive: a copy that is queued becomes a copy that is
\* held.  A node that is not its own peer has either one of the first kind or
\* one of the second, and nobody has one of a transaction nobody submitted.
HeldOnce ==
  \A n \in Node, t \in Tx :
    /\ t \notin submitted => Posts(n, t) = {} /\ Copies(n, t) = {}
    /\ n \notin registry[n] =>
         /\ AtMostOneIn(Posts(n, t)) /\ AtMostOneIn(Copies(n, t))
         /\ Posts(n, t) # {} => Copies(n, t) = {}

LEMMA AtMostOneIsCardinality ==
  ASSUME NEW S, AtMostOneIn(S)
  PROVE  Cardinality(S) <= 1
<1>1. CASE S = {}
  BY <1>1, FS_EmptySet
<1>2. ASSUME NEW x \in S PROVE Cardinality(S) <= 1
  <2>1. S = {x}
    BY <1>2 DEF AtMostOneIn
  <2>. QED
    BY <2>1, FS_Singleton
<1>. QED
  BY <1>1, <1>2

\* A transaction is in the mempool or in a block.
LEMMA CopiesAre ==
  ASSUME NEW n, NEW t, NEW x
  PROVE  x \in Copies(n, t) <=>
           \/ \E k \in DOMAIN pool[n] : pool[n][k] = t /\ x = <<0, k>>
           \/ \E i \in DOMAIN chain[n] : \E k \in DOMAIN chain[n][i].txs :
                chain[n][i].txs[k] = t /\ x = <<i, k>>
  BY DEF Copies

LEMMA CopiesStay ==
  ASSUME NEW n, NEW t, chain'[n] = chain[n], pool'[n] = pool[n]
  PROVE  Copies(n, t)' = Copies(n, t)
  BY DEF Copies

\* A transaction that is admitted has one copy more, the last of the mempool.
LEMMA CopiesAdmitted ==
  ASSUME TypeOK, NEW n \in Node, NEW t \in Tx, NEW u \in Tx,
         chain'[n] = chain[n], pool'[n] = Append(pool[n], u)
  PROVE  \A x \in Copies(n, t)' : x \in Copies(n, t) \/ (u = t /\ x = <<0, Len(pool[n]) + 1>>)
<1>. SUFFICES ASSUME NEW x \in Copies(n, t)'
              PROVE  x \in Copies(n, t) \/ (u = t /\ x = <<0, Len(pool[n]) + 1>>)
  OBVIOUS
<1>0. pool[n] \in Seq(Tx)
  BY DEF TypeOK
<1>1. \/ \E k \in DOMAIN pool'[n] : pool'[n][k] = t /\ x = <<0, k>>
      \/ \E i \in DOMAIN chain'[n] : \E k \in DOMAIN chain'[n][i].txs :
           chain'[n][i].txs[k] = t /\ x = <<i, k>>
  BY DEF Copies
<1>2. CASE \E i \in DOMAIN chain'[n] : \E k \in DOMAIN chain'[n][i].txs :
             chain'[n][i].txs[k] = t /\ x = <<i, k>>
  BY <1>2, CopiesAre
<1>3. ASSUME NEW k \in DOMAIN pool'[n], pool'[n][k] = t, x = <<0, k>>
      PROVE  x \in Copies(n, t) \/ (u = t /\ x = <<0, Len(pool[n]) + 1>>)
  <2>1. /\ pool'[n] \in Seq(Tx) /\ Len(pool'[n]) = Len(pool[n]) + 1
        /\ \A i \in 1..Len(pool[n]) : pool'[n][i] = pool[n][i]
        /\ pool'[n][Len(pool[n]) + 1] = u
    BY <1>0, AppendProperties
  <2>2. Len(pool[n]) \in Nat /\ DOMAIN pool[n] = 1..Len(pool[n])
    BY <1>0, LenProperties
  <2>3. DOMAIN pool'[n] = 1..(Len(pool[n]) + 1)
    BY <2>1, LenProperties
  <2>4. CASE k = Len(pool[n]) + 1
    BY <1>3, <2>1, <2>4
  <2>5. CASE k \in 1..Len(pool[n])
    BY <1>3, <2>1, <2>2, <2>5, CopiesAre
  <2>. QED
    BY <2>2, <2>3, <2>4, <2>5
<1>. QED
  BY <1>1, <1>2, <1>3

\* Mining moves each copy from the mempool to the new block.
LEMMA CopiesMined ==
  ASSUME TypeOK, NEW n \in Node, NEW t \in Tx, Mined(n)
  PROVE  /\ Copies(n, t) = {} => Copies(n, t)' = {}
         /\ AtMostOneIn(Copies(n, t)) => AtMostOneIn(Copies(n, t))'
<1>. DEFINE c == chain[n]
            b == BlockAfter(n, c, pool[n])
            at == Len(c) + 1
<1>0. pool[n] \in Seq(Tx) /\ c \in Seq(Block) /\ c # <<>>
  BY DEF TypeOK
<1>1. b \in Block /\ b.txs = pool[n]
  BY <1>0, BlockAfterType DEF BlockAfter
<1>2. chain'[n] = Append(c, b) /\ pool'[n] = <<>>
  BY DEF Mined
<1>3. Len(c) \in Nat /\ DOMAIN c = 1..Len(c)
  BY <1>0, LenProperties
<1>. HIDE DEF b, c
<1>4. /\ chain'[n] \in Seq(Block) /\ Len(chain'[n]) = Len(c) + 1
      /\ \A i \in 1..Len(c) : chain'[n][i] = c[i]
      /\ chain'[n][at] = b
  BY <1>0, <1>1, <1>2, AppendProperties
<1>5. DOMAIN chain'[n] = 1..at
  BY <1>4, LenProperties
<1>6. DOMAIN pool'[n] = {}
  BY <1>2
<1>7. ASSUME NEW x \in Copies(n, t)'
      PROVE  \/ x \in Copies(n, t) /\ \E i \in 1..Len(c) : \E k : x = <<i, k>>
             \/ \E k : x = <<at, k>> /\ <<0, k>> \in Copies(n, t)
  <2>1. PICK i \in DOMAIN chain'[n] : \E k \in DOMAIN chain'[n][i].txs :
               chain'[n][i].txs[k] = t /\ x = <<i, k>>
    BY <1>6, <1>7 DEF Copies
  <2>2. PICK k \in DOMAIN chain'[n][i].txs : chain'[n][i].txs[k] = t /\ x = <<i, k>>
    BY <2>1
  <2>3. CASE i = at
    <3>1. k \in DOMAIN pool[n] /\ pool[n][k] = t
      BY <1>1, <1>4, <2>2, <2>3
    <3>2. <<0, k>> \in Copies(n, t)
      BY <3>1, CopiesAre
    <3>. QED
      BY <2>2, <2>3, <3>2
  <2>4. CASE i \in 1..Len(c)
    <3>1. i \in DOMAIN chain[n] /\ k \in DOMAIN chain[n][i].txs /\ chain[n][i].txs[k] = t
      BY <1>3, <1>4, <2>2, <2>4 DEF c
    <3>2. x \in Copies(n, t)
      BY <2>2, <3>1, CopiesAre
    <3>. QED
      BY <2>2, <2>4, <3>2
  <2>5. i \in 1..at
    BY <1>5
  <2>6. i = at \/ i \in 1..Len(c)
    BY <1>3, <2>5
  <2>. QED
    BY <2>3, <2>4, <2>6
<1>8. Copies(n, t) = {} => Copies(n, t)' = {}
  BY <1>7
<1>9. ASSUME AtMostOneIn(Copies(n, t)), NEW x \in Copies(n, t)', NEW y \in Copies(n, t)'
      PROVE  x = y
  <2>0. \A v, w \in Copies(n, t) : v = w
    BY <1>9 DEF AtMostOneIn
  <2>1. ASSUME NEW i \in 1..Len(c), NEW k, <<i, k>> \in Copies(n, t),
               NEW l, <<0, l>> \in Copies(n, t)
        PROVE  FALSE
    <3>1. <<i, k>> = <<0, l>>
      BY <2>0, <2>1
    <3>. QED
      BY <1>3, <3>1
  <2>2. CASE x \in Copies(n, t) /\ y \in Copies(n, t)
    BY <2>0, <2>2
  <2>3. ASSUME NEW k, NEW l, x = <<at, k>>, <<0, k>> \in Copies(n, t),
               y = <<at, l>>, <<0, l>> \in Copies(n, t)
        PROVE  x = y
    <3>1. <<0, k>> = <<0, l>>
      BY <2>0, <2>3
    <3>. QED
      BY <2>3, <3>1
  <2>. QED
    BY <1>7, <2>1, <2>2, <2>3
<1>. QED
  BY <1>8, <1>9 DEF AtMostOneIn

\* Steps that queue no transaction at n and admit none there.
LEMMA HeldKept ==
  ASSUME Inv, HeldOnce, NEW n \in Node, NEW t \in Tx,
         Posts(n, t)' \subseteq Posts(n, t),
         submitted' = submitted, registry[n] \subseteq registry'[n],
         \/ chain'[n] = chain[n] /\ pool'[n] = pool[n]
         \/ Mined(n)
  PROVE  /\ t \notin submitted' => Posts(n, t)' = {} /\ Copies(n, t)' = {}
         /\ n \notin registry'[n] =>
              /\ AtMostOneIn(Posts(n, t))' /\ AtMostOneIn(Copies(n, t))'
              /\ Posts(n, t)' # {} => Copies(n, t)' = {}
<1>1. /\ Copies(n, t) = {} => Copies(n, t)' = {}
      /\ AtMostOneIn(Copies(n, t)) => AtMostOneIn(Copies(n, t))'
  BY CopiesStay, CopiesMined DEF Inv, AtMostOneIn
<1>2. AtMostOneIn(Posts(n, t)) => AtMostOneIn(Posts(n, t))'
  BY DEF AtMostOneIn
<1>3. /\ t \notin submitted => Posts(n, t) = {} /\ Copies(n, t) = {}
      /\ n \notin registry[n] =>
           /\ AtMostOneIn(Posts(n, t)) /\ AtMostOneIn(Copies(n, t))
           /\ Posts(n, t) # {} => Copies(n, t) = {}
  BY DEF HeldOnce
<1>. QED
  BY <1>1, <1>2, <1>3

\* A client submits u to n.
LEMMA HeldSubmitted ==
  ASSUME Inv, HeldOnce, NEW n \in Node, NEW u \in Tx, SubmitTransaction(n, u)
  PROVE  HeldOnce'
<1>. DEFINE r == [from |-> n, kind |-> "post", tx |-> {u}]
<1>0. TypeOK
  BY DEF Inv
<1>1. /\ submitted' = submitted \cup {u} /\ u \notin submitted
      /\ chain' = chain /\ registry' = registry
      /\ pool' = [pool EXCEPT ![n] = Append(pool[n], u)]
      /\ inbox' = Send(registry[n], r)
  BY DEF SubmitTransaction
<1>2. r.tx = {u}
  OBVIOUS
<1>. HIDE DEF r
<1>. SUFFICES ASSUME NEW m \in Node, NEW t \in Tx
              PROVE  /\ t \notin submitted' => Posts(m, t)' = {} /\ Copies(m, t)' = {}
                     /\ m \notin registry'[m] =>
                          /\ AtMostOneIn(Posts(m, t))' /\ AtMostOneIn(Copies(m, t))'
                          /\ Posts(m, t)' # {} => Copies(m, t)' = {}
  BY DEF HeldOnce
<1>3. \A q \in Posts(m, t)' : q \in Posts(m, t) \/ (q = r /\ t = u /\ m \in registry[n])
  BY <1>1, <1>2 DEF Posts, Send
<1>4. \A x \in Copies(m, t)' : x \in Copies(m, t) \/ (m = n /\ t = u /\ x = <<0, Len(pool[n]) + 1>>)
  <2>1. CASE m = n
    <3>1. chain'[n] = chain[n] /\ pool'[n] = Append(pool[n], u)
      BY <1>0, <1>1 DEF TypeOK
    <3>. QED
      BY <1>0, <2>1, <3>1, CopiesAdmitted
  <2>2. CASE m # n
    <3>1. chain'[m] = chain[m] /\ pool'[m] = pool[m]
      BY <1>0, <1>1, <2>2 DEF TypeOK
    <3>. QED
      BY <3>1, CopiesStay
  <2>. QED
    BY <2>1, <2>2
<1>5. /\ t \notin submitted => Posts(m, t) = {} /\ Copies(m, t) = {}
      /\ m \notin registry[m] =>
           /\ \A x, y \in Posts(m, t) : x = y
           /\ \A x, y \in Copies(m, t) : x = y
           /\ Posts(m, t) # {} => Copies(m, t) = {}
  BY DEF HeldOnce, AtMostOneIn
<1>6. CASE t # u
  <2>1. \A q \in Posts(m, t)' : q \in Posts(m, t)
    BY <1>3, <1>6
  <2>2. \A x \in Copies(m, t)' : x \in Copies(m, t)
    BY <1>4, <1>6
  <2>. QED
    BY <1>1, <1>5, <1>6, <2>1, <2>2 DEF AtMostOneIn
<1>7. CASE t = u
  <2>1. \A q \in Posts(m, t)' : q = r /\ m \in registry[n]
    BY <1>1, <1>3, <1>5, <1>7
  <2>2. \A x \in Copies(m, t)' : m = n /\ x = <<0, Len(pool[n]) + 1>>
    BY <1>1, <1>4, <1>5, <1>7
  <2>. QED
    BY <1>1, <1>7, <2>1, <2>2 DEF AtMostOneIn
<1>. QED
  BY <1>6, <1>7

\* The peer m admits the transaction that was propagated to it.
LEMMA HeldServed ==
  ASSUME Inv, HeldOnce, NEW m \in Node, NEW r \in inbox[m], ServePost(m, r)
  PROVE  HeldOnce'
<1>0. TypeOK /\ r \in Request /\ Take(m, r) /\ r.kind = "post"
  BY DEF Inv, TypeOK, ServePost
<1>1. PICK u \in r.tx : pool' = [pool EXCEPT ![m] = Append(pool[m], u)]
  BY <1>0 DEF ServePost, TypeOK
<1>2. u \in Tx /\ r.tx = {u}
  BY <1>0, <1>1 DEF Request, NoTx
<1>3. chain' = chain /\ registry' = registry /\ submitted' = submitted
  BY DEF ServePost
<1>. SUFFICES ASSUME NEW n \in Node, NEW t \in Tx
              PROVE  /\ t \notin submitted' => Posts(n, t)' = {} /\ Copies(n, t)' = {}
                     /\ n \notin registry'[n] =>
                          /\ AtMostOneIn(Posts(n, t))' /\ AtMostOneIn(Copies(n, t))'
                          /\ Posts(n, t)' # {} => Copies(n, t)' = {}
  BY DEF HeldOnce
<1>4. \A k \in Node : \A q : q \in inbox'[k] <=> q \in inbox[k] /\ ~(k = m /\ q = r)
  BY <1>0, TakeType
<1>5. \A q : q \in Posts(n, t)' <=> q \in Posts(n, t) /\ ~(n = m /\ q = r)
  BY <1>4 DEF Posts
<1>6. CASE n # m
  <2>1. chain'[n] = chain[n] /\ pool'[n] = pool[n]
    BY <1>0, <1>1, <1>3, <1>6 DEF TypeOK
  <2>2. Posts(n, t)' \subseteq Posts(n, t)
    BY <1>5
  <2>. QED
    BY <1>3, <2>1, <2>2, HeldKept
<1>7. CASE n = m
  <2>1. chain'[n] = chain[n] /\ pool'[n] = Append(pool[n], u)
    BY <1>0, <1>1, <1>3, <1>7 DEF TypeOK
  <2>2. \A x \in Copies(n, t)' : x \in Copies(n, t) \/ (u = t /\ x = <<0, Len(pool[n]) + 1>>)
    BY <1>0, <1>2, <2>1, CopiesAdmitted
  <2>3. /\ t \notin submitted => Posts(n, t) = {} /\ Copies(n, t) = {}
        /\ n \notin registry[n] =>
             /\ \A x, y \in Posts(n, t) : x = y
             /\ \A x, y \in Copies(n, t) : x = y
             /\ Posts(n, t) # {} => Copies(n, t) = {}
    BY DEF HeldOnce, AtMostOneIn
  <2>4. CASE t # u
    <3>1. \A x \in Copies(n, t)' : x \in Copies(n, t)
      BY <2>2, <2>4
    <3>. QED
      BY <1>3, <1>5, <2>3, <3>1 DEF AtMostOneIn
  <2>5. CASE t = u
    <3>1. r \in Posts(n, t)
      BY <1>0, <1>2, <1>7, <2>5 DEF Posts
    <3>2. t \in submitted
      BY <2>3, <3>1
    <3>3. n \notin registry[n] => Posts(n, t)' = {}
      BY <1>5, <1>7, <2>3, <3>1
    <3>4. n \notin registry[n] => \A x \in Copies(n, t)' : x = <<0, Len(pool[n]) + 1>>
      BY <2>2, <2>3, <3>1
    <3>. QED
      BY <1>3, <3>2, <3>3, <3>4 DEF AtMostOneIn
  <2>. QED
    BY <2>4, <2>5
<1>. QED
  BY <1>6, <1>7

\* The request of n at m is lost, or left there to be served for nobody: still
\* one request.
LEMMA HeldFailed ==
  ASSUME Inv, HeldOnce, NEW n \in Node, NEW m \in Node, FailCall(n, m)
  PROVE  HeldOnce'
<1>0. TypeOK /\ inbox \in [Node -> SUBSET Request] /\ NoNode \notin Node
  BY PeersAssumption DEF Inv, TypeOK, NoNode
<1>1. chain' = chain /\ pool' = pool /\ registry' = registry /\ submitted' = submitted
  BY DEF FailCall
<1>. DEFINE own == {r \in inbox[m] : r.from = n}
            orphans == {[r EXCEPT !.from = NoNode] : r \in own}
<1>2. \/ inbox' = [inbox EXCEPT ![m] = inbox[m] \ own]
      \/ inbox' = [inbox EXCEPT ![m] = (inbox[m] \ own) \cup orphans]
  BY <1>0 DEF FailCall
<1>3. ASSUME NEW q \in orphans
      PROVE  \E r \in own : q = [r EXCEPT !.from = NoNode] /\ q.kind = r.kind /\ q.tx = r.tx
  BY <1>0 DEF Request
<1>4. \A k \in Node : \A q \in inbox'[k] :
        (q \in inbox[k] /\ ~(k = m /\ q \in own)) \/ (k = m /\ q \in orphans)
  BY <1>0, <1>2
<1>. SUFFICES ASSUME NEW k \in Node, NEW t \in Tx
              PROVE  /\ t \notin submitted' => Posts(k, t)' = {} /\ Copies(k, t)' = {}
                     /\ k \notin registry'[k] =>
                          /\ AtMostOneIn(Posts(k, t))' /\ AtMostOneIn(Copies(k, t))'
                          /\ Posts(k, t)' # {} => Copies(k, t)' = {}
  BY DEF HeldOnce
\* Each propagated request that is left comes from one that was there.
<1>5. ASSUME NEW q \in Posts(k, t)'
      PROVE  \/ q \in Posts(k, t) /\ ~(k = m /\ q \in own)
             \/ k = m /\ \E r \in Posts(k, t) : r \in own /\ q = [r EXCEPT !.from = NoNode]
  <2>1. q \in inbox'[k] /\ q.kind = "post" /\ q.tx = {t}
    BY <1>5 DEF Posts
  <2>2. CASE q \in inbox[k] /\ ~(k = m /\ q \in own)
    BY <2>1, <2>2 DEF Posts
  <2>3. CASE k = m /\ q \in orphans
    <3>1. PICK r \in own : q = [r EXCEPT !.from = NoNode] /\ q.kind = r.kind /\ q.tx = r.tx
      BY <1>3, <2>3
    <3>2. r \in Posts(k, t)
      BY <2>1, <2>3, <3>1 DEF Posts
    <3>. QED
      BY <2>3, <3>1, <3>2
  <2>. QED
    BY <1>4, <2>1, <2>2, <2>3
<1>. HIDE DEF own, orphans
<1>6. Copies(k, t)' = Copies(k, t)
  BY <1>1, CopiesStay
<1>7. AtMostOneIn(Posts(k, t)) => AtMostOneIn(Posts(k, t))'
  BY <1>5 DEF AtMostOneIn
<1>8. Posts(k, t) = {} => Posts(k, t)' = {}
  BY <1>5
<1>. QED
  BY <1>1, <1>6, <1>7, <1>8 DEF HeldOnce, AtMostOneIn

LEMMA HeldStep == Inv /\ NothingAdopted /\ HeldOnce /\ [Next]_vars => HeldOnce'
<1>. SUFFICES ASSUME Inv, NothingAdopted, HeldOnce, [Next]_vars PROVE HeldOnce'
  OBVIOUS
<1>0. TypeOK /\ inbox \in [Node -> SUBSET Request] /\ registry \in [Node -> SUBSET Node]
  BY DEF Inv, TypeOK
<1>1. ASSUME submitted' = submitted,
             \A n \in Node : registry[n] \subseteq registry'[n],
             \A n \in Node : \A q \in inbox'[n] : q.kind = "post" => q \in inbox[n],
             \A n \in Node : (chain'[n] = chain[n] /\ pool'[n] = pool[n]) \/ Mined(n)
      PROVE  HeldOnce'
  <2>1. \A n \in Node, t \in Tx : Posts(n, t)' \subseteq Posts(n, t)
    BY <1>1 DEF Posts
  <2>. QED
    BY <1>1, <2>1, HeldKept DEF HeldOnce
<1>2. CASE UNCHANGED <<chain, pool, registry, inbox, submitted>>
  BY <1>1, <1>2
<1>3. ASSUME NEW n \in Node, NEW m \in Node, RegisterNode(n, m) PROVE HeldOnce'
  BY <1>0, <1>1, <1>3 DEF RegisterNode
<1>4. ASSUME NEW n \in Node, MineBlock(n) PROVE \A k \in Node : (chain'[k] = chain[k] /\ pool'[k] = pool[k]) \/ Mined(k)
  BY <1>0, <1>4, MinedType DEF Mined
<1>5. ASSUME NEW n \in Node, MineAndNotify(n) PROVE HeldOnce'
  <2>1. \A k \in Node : \A q \in inbox'[k] : q.kind = "post" => q \in inbox[k]
    BY <1>5 DEF MineAndNotify, Send
  <2>. QED
    BY <1>0, <1>1, <1>4, <1>5, <2>1 DEF MineAndNotify
<1>6. ASSUME NEW n \in Node, LegacyMine(n) PROVE HeldOnce'
  BY <1>0, <1>1, <1>4, <1>6 DEF LegacyMine
<1>7. ASSUME NEW m \in Node, NEW r \in inbox[m], ServeResolve(m, r) \/ ServeChain(m, r) PROVE HeldOnce'
  <2>1. Take(m, r) /\ UNCHANGED <<chain, pool, registry, submitted>>
    BY <1>7 DEF ServeResolve, ServeChain
  <2>2. \A k \in Node : \A q \in inbox'[k] : q \in inbox[k]
    BY <1>0, <2>1, TakeType
  <2>. QED
    BY <1>0, <1>1, <2>1, <2>2
<1>8. ASSUME NEW n \in Node, FetchNext(n) PROVE HeldOnce'
  <2>1. \A k \in Node : \A q \in inbox'[k] : q.kind = "post" => q \in inbox[k]
    BY <1>8 DEF FetchNext, Send
  <2>. QED
    BY <1>0, <1>1, <1>8, <2>1 DEF FetchNext
<1>9. ASSUME NEW n \in Node, EndResolve(n) PROVE HeldOnce'
  <2>1. chain' = chain
    BY <1>0, <1>9 DEF EndResolve, NothingAdopted, TypeOK
  <2>. QED
    BY <1>2, <1>9, <2>1 DEF EndResolve
<1>10. ASSUME NEW n \in Node, ResolveNodes(n) \/ EndCalls(n) PROVE HeldOnce'
  BY <1>2, <1>10 DEF ResolveNodes, EndCalls
<1>11. CASE UNCHANGED vars
  BY <1>2, <1>11 DEF vars
<1>. QED
  BY <1>3, <1>5, <1>6, <1>7, <1>8, <1>9, <1>10, <1>11, HeldSubmitted, HeldServed, HeldFailed DEF Next

\* Around circles of peers, and when a call that timed out is served all the
\* same, a node that is not its own peer holds a transaction once at most.
THEOREM PropagatedOnce == Spec => []AtMostOnce
<1>1. Init => HeldOnce
  <2>. SUFFICES ASSUME Init, NEW n \in Node, NEW t \in Tx
                PROVE  Posts(n, t) = {} /\ Copies(n, t) = {}
    BY DEF HeldOnce, AtMostOneIn
  <2>1. Posts(n, t) = {}
    BY DEF Init, Posts
  <2>2. DOMAIN pool[n] = {}
    BY DEF Init
  <2>3. \A i \in DOMAIN chain[n] : chain[n][i] = Genesis(n)
    BY DEF Init
  <2>4. DOMAIN Genesis(n).txs = {}
    BY DEF Genesis
  <2>5. Copies(n, t) = {}
    BY <2>2, <2>3, <2>4, CopiesAre
  <2>. QED
    BY <2>1, <2>5
<1>2. HeldOnce => AtMostOnce
  BY AtMostOneIsCardinality DEF HeldOnce, AtMostOnce
<1>. QED
  BY <1>1, <1>2, HeldStep, Invariant, NoChainIsAdopted, PTL DEF Spec
=============================================================================
