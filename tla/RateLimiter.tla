---------------------------- MODULE RateLimiter ----------------------------
(***************************************************************************)
(* The sliding window of src/api/rate_limit.py, as operators over its      *)
(* queue of timestamps.  Time is counted in ticks, several to the second.  *)
(***************************************************************************)
EXTENDS Integers, Sequences, FiniteSetsExt

CONSTANTS max_calls, Period, TicksPerSecond  \* Period in ticks

ASSUME LimiterConfigured ==
  /\ max_calls \in Nat \ {0} /\ Period \in Nat \ {0} /\ TicksPerSecond \in Nat \ {0}

\* Mutant: a call exactly one period old is dropped, too.
InWindowStrictly(t, now) == t > now - Period

InWindow(t, now) == t >= now - Period

\* How many calls the code pops from the left of the queue: it stops at the first
\* one that still counts.
Popped(timestamps, now) ==
  Min({n \in 0..Len(timestamps) : n < Len(timestamps) => InWindow(timestamps[n + 1], now)})

Pruned(timestamps, now) == SubSeq(timestamps, Popped(timestamps, now) + 1, Len(timestamps))

Admits(timestamps, now) == Len(Pruned(timestamps, now)) < max_calls

\* Mutant: the rounding is left out.
RetryAfterRoundedDown(timestamps, now) ==
  (Period - (now - Head(Pruned(timestamps, now)))) \div TicksPerSecond

\* Whole seconds, of a call that is refused.
RetryAfter(timestamps, now) ==
  (Period - (now - Head(Pruned(timestamps, now)))) \div TicksPerSecond + 1
=============================================================================
