-------------------------------- MODULE Peers --------------------------------
(***************************************************************************)
(* Nodes that know each other: the registry of peers, PropagationService   *)
(* and ConsensusService, with the handlers that call them.                 *)
(*                                                                         *)
(* A node runs its handlers on one event loop, and the calls it makes to   *)
(* its peers block that loop until they are answered or fail: while a      *)
(* handler waits, the node serves nobody, and what its peers ask of it     *)
(* queues up.  Nodes are numbered in the order of their URLs.  The         *)
(* transactions here are the legacy ones, the only ones propagated.        *)
(***************************************************************************)
EXTENDS Integers, Sequences, FiniteSets

CONSTANTS
  Node,             \* the nodes
  Tx,               \* the transactions clients submit, each to one node
  MaxBlocks,        \* bound on the length of a chain a node mines on
  MaxAbandoned      \* bound on the abandoned requests queued at a node

ASSUME PeersAssumption ==
  /\ Node \subseteq Nat \ {0} /\ IsFiniteSet(Node)
  /\ MaxBlocks \in Nat
  /\ MaxAbandoned \in Nat

VARIABLES
  chain,            \* the chain of each node
  pool,             \* the mempool of each node
  registry,         \* the peers registered at each node, perhaps itself
  inbox,            \* the requests that wait for the event loop of each node
  job,              \* the handler each node is running
  submitted         \* the transactions clients have submitted

vars == <<chain, pool, registry, inbox, job, submitted>>

-----------------------------------------------------------------------------
(* Blocks *)

\* The Merkle root of a list of transactions, and the default of a field that is
\* absent.  (Two lists have one root only when one repeats the end of the other.)
RootOf(txs) == <<txs>>
NoRoot == <<>>

\* hash_block covers the header, the Merkle root included.  The first two
\* fields stand for the timestamp that makes the hash of a block its own.
HashOf(b) == [miner |-> b.miner, index |-> b.index, root |-> b.root]

\* The genesis block, stamped by each node when it starts.
Genesis(n) == [miner |-> n, index |-> 1, previous |-> {}, root |-> RootOf(<<>>), txs |-> <<>>]

BlockAfter(n, c, txs) ==
  [miner |-> n, index |-> Len(c) + 1, previous |-> {HashOf(c[Len(c)])},
   root |-> RootOf(txs), txs |-> txs]

\* The rules of _validate_blocks on Merkle roots and links.
Linked(c) ==
  /\ \A i \in DOMAIN c : c[i].root = RootOf(c[i].txs)
  /\ \A i \in 2..Len(c) : c[i].previous = {HashOf(c[i - 1])}

\* With its rule on signatures, which no legacy transaction has.
IsValidChain(c) ==
  /\ c # <<>>
  /\ Linked(c)
  /\ \A i \in DOMAIN c : c[i].txs = <<>>

\* _fetch_chain rebuilds each block from four fields of the JSON it is sent;
\* merkle_root and transactions take the defaults of the dataclass.
Fetched(c) == [i \in DOMAIN c |-> [c[i] EXCEPT !.root = NoRoot, !.txs = <<>>]]

-----------------------------------------------------------------------------
(* Requests and handlers *)

NoNode == 0         \* nobody waits for the answer
NoTx == {}

\* post: POST /transactions with X-Propagated, one transaction; resolve: GET
\* /nodes/resolve; chain: GET /chain.
Request == [from : Node \cup {NoNode}, kind : {"post", "resolve", "chain"}, tx : {NoTx} \cup {{t} : t \in Tx}]

\* waiting: the peers it waits for.  todo: the peers resolve has yet to ask.
\* best: the chain it would adopt, if any.  origin: the peer that asked for the
\* resolve.  longest: history, the longest chain a peer answered with that was
\* valid where it came from.
Idle == [kind |-> "idle", waiting |-> {}, todo |-> {}, best |-> <<>>, origin |-> NoNode, longest |-> 0]

IsIdle(n) == job[n].kind = "idle"
Calling(kind, peers) == [Idle EXCEPT !.kind = kind, !.waiting = peers]
Resolving(n, origin) ==
  [Idle EXCEPT !.kind = "resolve", !.todo = registry[n], !.origin = origin]

\* Every peer in peers gets r.
Send(peers, r) == [m \in Node |-> IF m \in peers THEN inbox[m] \cup {r} ELSE inbox[m]]

\* The handlers when m has answered n.
Answered(n, m) == IF n = NoNode THEN job ELSE [job EXCEPT ![n].waiting = @ \ {m}]

Init ==
  /\ chain = [n \in Node |-> << Genesis(n) >>]
  /\ pool = [n \in Node |-> <<>>]
  /\ registry = [n \in Node |-> {}]
  /\ inbox = [n \in Node |-> {}]
  /\ job = [n \in Node |-> Idle]
  /\ submitted = {}

-----------------------------------------------------------------------------
(* What clients ask of a node *)

\* POST /nodes/register.
RegisterNode(n, m) ==
  /\ IsIdle(n)
  /\ registry' = [registry EXCEPT ![n] = @ \cup {m}]
  /\ UNCHANGED <<chain, pool, inbox, job, submitted>>

\* POST /transactions without X-Propagated: admitted, then broadcast.
SubmitTransaction(n, t) ==
  /\ IsIdle(n)
  /\ t \notin submitted
  /\ submitted' = submitted \cup {t}
  /\ pool' = [pool EXCEPT ![n] = Append(@, t)]
  /\ job' = [job EXCEPT ![n] = Calling("post", registry[n])]
  /\ inbox' = Send(registry[n], [from |-> n, kind |-> "post", tx |-> {t}])
  /\ UNCHANGED <<chain, registry>>

\* _mine.
MineBlock(n) ==
  /\ IsIdle(n)
  /\ Len(chain[n]) < MaxBlocks
  /\ chain' = [chain EXCEPT ![n] = Append(@, BlockAfter(n, @, pool[n]))]
  /\ pool' = [pool EXCEPT ![n] = <<>>]

\* POST /mine_block tells the peers to resolve.
MineAndNotify(n) ==
  /\ MineBlock(n)
  /\ job' = [job EXCEPT ![n] = Calling("notify", registry[n])]
  /\ inbox' = Send(registry[n], [from |-> n, kind |-> "resolve", tx |-> NoTx])
  /\ UNCHANGED <<registry, submitted>>

\* The legacy GET /mine_block does not.
LegacyMine(n) ==
  /\ MineBlock(n)
  /\ UNCHANGED <<registry, inbox, job, submitted>>

\* GET /nodes/resolve from a client.
ResolveNodes(n) ==
  /\ IsIdle(n)
  /\ job' = [job EXCEPT ![n] = Resolving(n, NoNode)]
  /\ UNCHANGED <<chain, pool, registry, inbox, submitted>>

-----------------------------------------------------------------------------
(* What peers ask of a node *)

Take(m, r) == inbox' = [inbox EXCEPT ![m] = @ \ {r}]

\* Mutant: the X-Propagated header is ignored, and a peer broadcasts in turn.
ServePostAndBroadcast(m, r) ==
  /\ IsIdle(m)
  /\ r.kind = "post"
  /\ \E t \in r.tx : pool' = [pool EXCEPT ![m] = Append(@, t)]
  /\ job' = [Answered(r.from, m) EXCEPT ![m] = Calling("post", registry[m])]
  /\ inbox' = [k \in Node |-> (IF k = m THEN inbox[k] \ {r} ELSE inbox[k])
                             \cup (IF k \in registry[m] THEN {[r EXCEPT !.from = m]} ELSE {})]
  /\ UNCHANGED <<chain, registry, submitted>>

\* A transaction with X-Propagated is admitted and goes no further.
ServePost(m, r) ==
  /\ IsIdle(m)
  /\ r.kind = "post"
  /\ \E t \in r.tx : pool' = [pool EXCEPT ![m] = Append(@, t)]
  /\ job' = Answered(r.from, m)
  /\ Take(m, r)
  /\ UNCHANGED <<chain, registry, submitted>>

\* The caller is answered when resolve returns.
ServeResolve(m, r) ==
  /\ IsIdle(m)
  /\ r.kind = "resolve"
  /\ job' = [job EXCEPT ![m] = Resolving(m, r.from)]
  /\ Take(m, r)
  /\ UNCHANGED <<chain, pool, registry, submitted>>

\* Mutant: the chain of the peer is taken for valid.
ConsiderLength(n, c) ==
  LET j == job[n]
      remote == Fetched(c)
      length == IF j.best = <<>> THEN Len(chain[n]) ELSE Len(j.best)
  IN  [j EXCEPT !.waiting = {},
                !.best = IF Len(remote) > length THEN remote ELSE @]

\* How resolve of n goes on with the chain c a peer sent it: a longer one that
\* is valid becomes the best so far.
Consider(n, c) ==
  LET j == job[n]
      remote == Fetched(c)
      length == IF j.best = <<>> THEN Len(chain[n]) ELSE Len(j.best)
  IN  [j EXCEPT !.waiting = {},
                !.best = IF Len(remote) > length /\ IsValidChain(remote) THEN remote ELSE @,
                !.longest = IF IsValidChain(c) /\ Len(c) > @ THEN Len(c) ELSE @]

\* GET /chain: n, if it still waits, compares what it gets.
ServeChain(m, r) ==
  /\ IsIdle(m)
  /\ r.kind = "chain"
  /\ job' = IF r.from = NoNode THEN job ELSE [job EXCEPT ![r.from] = Consider(r.from, chain[m])]
  /\ Take(m, r)
  /\ UNCHANGED <<chain, pool, registry, submitted>>

-----------------------------------------------------------------------------
(* The calls of a node *)

\* Mutant: a peer is asked again until it answers with a chain to adopt.
FetchAgain(n) ==
  /\ job[n].kind = "resolve" /\ job[n].waiting = {}
  /\ \E m \in job[n].todo :
       /\ job' = [job EXCEPT ![n].waiting = {m}]
       /\ inbox' = Send({m}, [from |-> n, kind |-> "chain", tx |-> NoTx])
  /\ UNCHANGED <<chain, pool, registry, submitted>>

\* resolve asks its peers one at a time, in the order of their URLs.
FetchNext(n) ==
  /\ job[n].kind = "resolve" /\ job[n].waiting = {}
  /\ \E m \in job[n].todo :
       /\ \A k \in job[n].todo : m <= k
       /\ job' = [job EXCEPT ![n].waiting = {m}, ![n].todo = @ \ {m}]
       /\ inbox' = Send({m}, [from |-> n, kind |-> "chain", tx |-> NoTx])
  /\ UNCHANGED <<chain, pool, registry, submitted>>

\* Mutant: the connection of a call that timed out is kept for the next one.
FailCallKeepAlive(n, m) ==
  /\ m \in job[n].waiting
  /\ job' = [job EXCEPT ![n].waiting = @ \ {m}]
  /\ inbox' = [inbox EXCEPT ![m] = {r \in @ : r.from # n}]
  /\ UNCHANGED <<chain, pool, registry, submitted>>

\* The call of n to m ends in an error or a timeout, which _post, _get and
\* _fetch_chain swallow.  What n asked never reached m, or it did and is served
\* for nobody.
FailCall(n, m) ==
  /\ m \in job[n].waiting
  /\ job' = [k \in Node |->
               [job[k] EXCEPT !.waiting = IF k = n THEN @ \ {m} ELSE @,
                              !.origin = IF k = m /\ @ = n THEN NoNode ELSE @]]
  /\ LET own == {r \in inbox[m] : r.from = n}
         left == {r \in inbox[m] : r.from = NoNode}
     IN  \/ inbox' = [inbox EXCEPT ![m] = @ \ own]
         \/ /\ own # {} /\ Cardinality(left) < MaxAbandoned
            /\ inbox' = [inbox EXCEPT ![m] = (@ \ own) \cup {[r EXCEPT !.from = NoNode] : r \in own}]
  /\ UNCHANGED <<chain, pool, registry, submitted>>

\* Mutant: resolve keeps what it found on the service, and not in local variables.
EndResolveStateful(n) ==
  /\ job[n].kind = "resolve" /\ job[n].waiting = {} /\ job[n].todo = {}
  /\ chain' = [chain EXCEPT ![n] = IF job[n].best = <<>> THEN @ ELSE job[n].best]
  /\ job' = [Answered(job[n].origin, n) EXCEPT ![n] = [Idle EXCEPT !.longest = job[n].longest]]
  /\ UNCHANGED <<pool, registry, inbox, submitted>>

\* Mutant: the chain is replaced by what was found even when it is nothing.
EndResolveAlways(n) ==
  /\ job[n].kind = "resolve" /\ job[n].waiting = {} /\ job[n].todo = {}
  /\ chain' = [chain EXCEPT ![n] = job[n].best]
  /\ job' = [Answered(job[n].origin, n) EXCEPT ![n] = Idle]
  /\ UNCHANGED <<pool, registry, inbox, submitted>>

\* Every peer was tried: the longest valid chain found, if any, replaces the
\* node's own, and a peer that asked for the resolve has its answer.
EndResolve(n) ==
  /\ job[n].kind = "resolve" /\ job[n].waiting = {} /\ job[n].todo = {}
  /\ chain' = [chain EXCEPT ![n] = IF job[n].best = <<>> THEN @ ELSE job[n].best]
  /\ job' = [Answered(job[n].origin, n) EXCEPT ![n] = Idle]
  /\ UNCHANGED <<pool, registry, inbox, submitted>>

\* wait(futures) returns when no call is left, and the handler ends.
EndCalls(n) ==
  /\ job[n].kind \in {"post", "notify"} /\ job[n].waiting = {}
  /\ job' = [job EXCEPT ![n] = Idle]
  /\ UNCHANGED <<chain, pool, registry, inbox, submitted>>

-----------------------------------------------------------------------------

Next ==
  \E n \in Node :
    \/ \E m \in Node : RegisterNode(n, m)
    \/ \E t \in Tx : SubmitTransaction(n, t)
    \/ MineAndNotify(n)
    \/ LegacyMine(n)
    \/ ResolveNodes(n)
    \/ \E r \in inbox[n] : ServePost(n, r) \/ ServeResolve(n, r) \/ ServeChain(n, r)
    \/ FetchNext(n)
    \/ \E m \in Node : FailCall(n, m)
    \/ EndResolve(n)
    \/ EndCalls(n)

Spec == Init /\ [][Next]_vars

\* urlopen has a timeout, so a call does not stay unanswered for ever, and a
\* handler whose calls are over goes on.  Nothing is assumed of the clients, nor
\* that a peer serves anything.
Fairness ==
  \A n \in Node :
    /\ WF_vars(FetchNext(n))
    /\ WF_vars(EndResolve(n))
    /\ WF_vars(EndCalls(n))
    /\ \A m \in Node : WF_vars(FailCall(n, m))

FairSpec == Spec /\ Fairness

-----------------------------------------------------------------------------
(* Properties *)

Hash == [miner : Node, index : Nat, root : Seq(Seq(Tx))]

Block ==
  [miner : Node, index : Nat, previous : SUBSET Hash, root : Seq(Seq(Tx)), txs : Seq(Tx)]

Job ==
  [kind : {"idle", "post", "notify", "resolve"}, waiting : SUBSET Node, todo : SUBSET Node,
   best : Seq(Block), origin : Node \cup {NoNode}, longest : Nat]

TypeOK ==
  /\ chain \in [Node -> Seq(Block)]
  /\ pool \in [Node -> Seq(Tx)]
  /\ registry \in [Node -> SUBSET Node]
  /\ inbox \in [Node -> SUBSET Request]
  /\ job \in [Node -> Job]
  /\ submitted \subseteq Tx
  /\ \A n \in Node : chain[n] # <<>> /\ (IsIdle(n) => job[n] = Idle)

\* The kind of request the handler of n sends.
CallMadeBy(n) ==
  CASE job[n].kind = "post" -> "post"
    [] job[n].kind = "notify" -> "resolve"
    [] job[n].kind = "resolve" -> "chain"
    [] OTHER -> "none"

\* What n asked of m and nobody has answered: a request still queued at m, or
\* the resolve m is running for it.
OpenCalls(n, m) ==
  {r.kind : r \in {q \in inbox[m] : q.from = n}}
    \cup (IF job[m].origin = n THEN {"resolve"} ELSE {})

\* A handler waits for a peer exactly while that peer still owes it the answer
\* to the call it is making now: a late answer to a call that timed out never
\* counts for a newer one, and no handler waits for an answer nobody will send.
CallsPending ==
  \A n, m \in Node :
    OpenCalls(n, m) = IF m \in job[n].waiting THEN {CallMadeBy(n)} ELSE {}

\* Whatever resolve adopted, every chain a node serves keeps the Merkle roots
\* and the links it was mined with, although _fetch_chain drops fields.
ChainsLinked == \A n \in Node : Linked(chain[n])

Confirmed(c) == UNION {{c[i].txs[k] : k \in DOMAIN c[i].txs} : i \in DOMAIN c}

\* A resolve never shortens a chain and never takes back a transaction that the
\* node had confirmed.
ConfirmedStay ==
  [][\A n \in Node : /\ Len(chain'[n]) >= Len(chain[n])
                     /\ Confirmed(chain[n]) \subseteq Confirmed(chain'[n])]_chain

\* The places at n that hold t: in its mempool, or in a block of its chain.
Copies(n, t) ==
  {<<0, k>> : k \in {k \in DOMAIN pool[n] : pool[n][k] = t}}
    \cup UNION {{<<i, k>> : k \in {k \in DOMAIN chain[n][i].txs : chain[n][i].txs[k] = t}}
                : i \in DOMAIN chain[n]}

\* docs/business-rules.md:23, BR-TX-08: a transaction reaches the peers once and
\* a propagated one goes no further.  A node that is not its own peer holds it
\* once at most, around circles of peers and when a call that timed out is
\* served all the same.
AtMostOnce ==
  \A n \in Node, t \in Tx : n \notin registry[n] => Cardinality(Copies(n, t)) <= 1

\* docs/business-rules.md:162, BR-CS-01: consensus follows the longest valid
\* chain rule, and the node with the most blocks is authoritative.
LongestChainWins ==
  [][\A n \in Node : EndResolve(n) => Len(chain'[n]) >= job[n].longest]_vars

\* Every handler returns, although the calls that peers make to each other on
\* blocked event loops wait for one another in circles: the miner for a peer's
\* resolve, and that resolve for the miner's chain.
HandlersReturn == \A n \in Node : ~IsIdle(n) ~> IsIdle(n)
=============================================================================
