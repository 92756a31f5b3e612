---------------------------- MODULE WebSocketHub ----------------------------
(***************************************************************************)
(* The clients of src/api/websocket_hub.py and their queues.               *)
(*                                                                         *)
(* The coroutine of a client waits for its queue or for its socket; it can *)
(* be cancelled in both places.  Messages are the heights of mined blocks. *)
(***************************************************************************)
EXTENDS Naturals, Sequences

CONSTANT Client

VARIABLES
  queue,    \* client -> its queue; the domain is the connected clients
  sending,  \* client -> the message it awaits the sending of, or none
  stalled,  \* connected clients that have stopped reading from their socket
  \* History, read by properties only.
  due,      \* client -> messages broadcast since it connected
  got       \* client -> messages it was sent

hubVars == <<queue, sending, stalled, due, got>>

HubInit ==
  /\ queue = [c \in {} |-> <<>>]
  /\ sending = [c \in {} |-> <<>>]
  /\ stalled = {}
  /\ due = [c \in {} |-> <<>>]
  /\ got = [c \in {} |-> <<>>]

Connected == DOMAIN queue
WithClient(f, c) == [x \in DOMAIN f \cup {c} |-> IF x = c THEN <<>> ELSE f[x]]
WithoutClient(f, c) == [x \in DOMAIN f \ {c} |-> f[x]]

Connect(c) ==
  /\ c \notin Connected
  /\ queue' = WithClient(queue, c) /\ sending' = WithClient(sending, c)
  /\ due' = WithClient(due, c) /\ got' = WithClient(got, c)
  /\ UNCHANGED stalled

\* Mutant: a client that is being sent a message misses the broadcast.
BroadcastToWaiting(message) ==
  /\ queue' = [c \in Connected |-> IF sending[c] = <<>> THEN Append(queue[c], message) ELSE queue[c]]
  /\ due' = [c \in Connected |-> Append(due[c], message)]
  /\ UNCHANGED <<sending, stalled, got>>

\* The queues have no bound, so none is ever full.
Broadcast(message) ==
  /\ queue' = [c \in Connected |-> Append(queue[c], message)]
  /\ due' = [c \in Connected |-> Append(due[c], message)]
  /\ UNCHANGED <<sending, stalled, got>>

\* Mutant: the coroutine does not loop.
TakeOnce(c) ==
  /\ c \in Connected /\ sending[c] = <<>> /\ queue[c] # <<>>
  /\ got[c] = <<>>
  /\ sending' = [sending EXCEPT ![c] = <<Head(queue[c])>>]
  /\ queue' = [queue EXCEPT ![c] = Tail(@)]
  /\ UNCHANGED <<stalled, due, got>>

\* q.get() returns.
Take(c) ==
  /\ c \in Connected /\ sending[c] = <<>> /\ queue[c] # <<>>
  /\ sending' = [sending EXCEPT ![c] = <<Head(queue[c])>>]
  /\ queue' = [queue EXCEPT ![c] = Tail(@)]
  /\ UNCHANGED <<stalled, due, got>>

\* send_fn() returns: the socket took the message.
Send(c) ==
  /\ c \in Connected \ stalled /\ sending[c] # <<>>
  /\ got' = [got EXCEPT ![c] = @ \o sending[c]]
  /\ sending' = [sending EXCEPT ![c] = <<>>]
  /\ UNCHANGED <<queue, stalled, due>>

\* The client stops reading and keeps the connection.
Stall(c) ==
  /\ c \in Connected \ stalled
  /\ stalled' = stalled \cup {c}
  /\ UNCHANGED <<queue, sending, due, got>>

\* Cancelled, or send_fn() raised: the queue is removed.
Disconnect(c) ==
  /\ c \in Connected
  /\ queue' = WithoutClient(queue, c) /\ sending' = WithoutClient(sending, c)
  /\ due' = WithoutClient(due, c) /\ got' = WithoutClient(got, c)
  /\ stalled' = stalled \ {c}

HubNext ==
  \E c \in Client : Connect(c) \/ Take(c) \/ Send(c) \/ Stall(c) \/ Disconnect(c)

\* What a client was sent, is being sent and has queued is what was broadcast
\* since it connected, in order and without a gap.
NoGap == \A c \in Connected : got[c] \o sending[c] \o queue[c] = due[c]
=============================================================================
