------------------------------ MODULE Gateway ------------------------------
(***************************************************************************)
(* The two ways to have a block mined (src/basic-blockchain.py): POST      *)
(* /api/v1/mine_block, behind the rate limiter and announced to the        *)
(* WebSocket clients, and GET /mine_block of the old interface.            *)
(*                                                                         *)
(* The limiter, the mining and the broadcast await nothing: one step.      *)
(* What mining does to the chain is in Ledger, PgLedger and Peers.         *)
(***************************************************************************)
EXTENDS RateLimiter, WebSocketHub

CONSTANTS MaxNow, MaxHeight  \* bounds: the clock, the blocks

ASSUME GatewayBounds == MaxNow \in Nat /\ MaxHeight \in Nat

VARIABLES
  now,
  timestamps,  \* of the limiter
  height,      \* blocks mined
  admitted,    \* history: when each call was admitted
  legacy       \* history: heights of the blocks mined by the old interface

gatewayVars == <<now, timestamps, height, admitted, legacy, hubVars>>

GatewayInit ==
  /\ now = 0 /\ timestamps = <<>> /\ height = 0 /\ admitted = <<>> /\ legacy = {}
  /\ HubInit

Tick ==
  /\ now < MaxNow
  /\ now' = now + 1
  /\ UNCHANGED <<timestamps, height, admitted, legacy, hubVars>>

MineBlock ==
  /\ height < MaxHeight
  /\ Admits(timestamps, now)
  /\ timestamps' = Append(Pruned(timestamps, now), now)
  /\ height' = height + 1
  /\ admitted' = Append(admitted, now)
  /\ Broadcast(height + 1)
  /\ UNCHANGED <<now, legacy>>

\* Mutant: refused calls count, too.
MineRefusedAndCounted ==
  /\ ~Admits(timestamps, now)
  /\ timestamps' = Append(Pruned(timestamps, now), now)
  /\ UNCHANGED <<now, height, admitted, legacy, hubVars>>

\* The answer is 429; what left the window is gone all the same.
MineRefused ==
  /\ ~Admits(timestamps, now)
  /\ timestamps' = Pruned(timestamps, now)
  /\ UNCHANGED <<now, height, admitted, legacy, hubVars>>

LegacyMine ==
  /\ height < MaxHeight
  /\ height' = height + 1
  /\ legacy' = legacy \cup {height + 1}
  /\ UNCHANGED <<now, timestamps, admitted, hubVars>>

GatewayNext ==
  \/ Tick \/ MineBlock \/ MineRefused \/ LegacyMine
  \/ HubNext /\ UNCHANGED <<now, timestamps, height, admitted, legacy>>

\* The event loop resumes a coroutine whose queue or socket is ready.
HubFairness ==
  \A c \in Client : WF_gatewayVars(Take(c) /\ UNCHANGED <<now, timestamps, height, admitted, legacy>>)
                 /\ WF_gatewayVars(Send(c) /\ UNCHANGED <<now, timestamps, height, admitted, legacy>>)

GatewaySpec == GatewayInit /\ [][GatewayNext]_gatewayVars /\ HubFairness

-----------------------------------------------------------------------------
(* Properties *)

\* Type invariant; the queue of timestamps is sorted and never longer than the
\* limit.
GatewayTypeOK ==
  /\ now \in 0..MaxNow /\ height \in 0..MaxHeight /\ legacy \subseteq 1..height
  /\ timestamps \in Seq(0..now) /\ Len(timestamps) <= max_calls
  /\ Connected \subseteq Client /\ stalled \subseteq Connected
  /\ \A c \in Connected : Len(sending[c]) <= 1

\* However the calls fall, any closed period holds at most max_calls of those
\* admitted: also the one that starts or ends exactly at a call.
WindowHolds ==
  \A i \in 1..Len(admitted) :
    i + max_calls <= Len(admitted) => admitted[i + max_calls] - admitted[i] > Period

\* A client told to come back after some seconds is admitted then, if nobody
\* else was in between, and would have been refused one second earlier.
RetryAfterExact ==
  ~Admits(timestamps, now) =>
    LET seconds == RetryAfter(timestamps, now)
    IN /\ Admits(timestamps, now + seconds * TicksPerSecond)
       /\ ~Admits(timestamps, now + (seconds - 1) * TicksPerSecond)

\* A client hears of the blocks of the new interface, in order and without a
\* gap, and of no other.
BlocksHeard ==
  /\ NoGap
  /\ \A c \in Connected : \A i \in 1..Len(due[c]) :
       /\ due[c][i] \notin legacy
       /\ i > 1 => due[c][i] \in (due[c][i - 1] + 1)..height
       /\ i > 1 => (due[c][i - 1] + 1)..(due[c][i] - 1) \subseteq legacy

\* A client that keeps reading is sent what was broadcast to it, or leaves.
BlocksDelivered ==
  \A c \in Client :
    (c \in Connected /\ sending[c] \o queue[c] # <<>>)
      ~> (c \notin Connected \/ c \in stalled \/ got[c] = due[c])
=============================================================================
