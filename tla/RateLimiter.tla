----------------------------- MODULE RateLimiter ----------------------------
(***************************************************************************)
(* The sliding window in front of the public and the login endpoints.  It  *)
(* lives in the memory of one API process; hit() has no await, so one hit  *)
(* is one step.  A key stands for an endpoint and the address (or, for the *)
(* second check of the admin login, the address and the e-mail) it counts. *)
(***************************************************************************)
EXTENDS Integers, Sequences

CONSTANTS
  Keys,     \* keys of the table of hits
  LimitOf,  \* the limit the endpoint of a key passes to hit()
  Window,   \* window_seconds
  MaxTime   \* bound: the last tick of the clock

ASSUME LimiterAssumption ==
  /\ LimitOf \in [Keys -> Nat \ {0}]
  /\ Window \in Nat
  /\ MaxTime \in Nat

VARIABLES
  clock,     \* time.monotonic()
  hits,      \* the deque of each key
  accepted   \* history: the times of the hits a key was let through with

limiterVars == <<clock, hits, accepted>>

Times == 0..MaxTime

LimiterTypeOK ==
  /\ clock \in Times
  /\ hits \in [Keys -> Seq(Times)]
  /\ accepted \in [Keys -> Seq(Times)]

LimiterInit ==
  /\ clock = 0
  /\ hits = [k \in Keys |-> <<>>]
  /\ accepted = [k \in Keys |-> <<>>]

\* Mutant of Expired: what is exactly a window old goes as well.
ExpiredTooSoon(k, n) ==
  /\ n \in 0..Len(hits[k])
  /\ \A i \in 1..n : hits[k][i] <= clock - Window
  /\ n < Len(hits[k]) => hits[k][n + 1] > clock - Window

\* The loop that pops the head while it is older than the window stops with
\* the first n entries gone.
Expired(k, n) ==
  /\ n \in 0..Len(hits[k])
  /\ \A i \in 1..n : hits[k][i] < clock - Window
  /\ n < Len(hits[k]) => hits[k][n + 1] >= clock - Window

Left(k, n) == SubSeq(hits[k], n + 1, Len(hits[k]))

\* 429; what was popped stays popped, and the attempt is not recorded.
Refused(k, n) == Expired(k, n) /\ Len(Left(k, n)) >= LimitOf[k]

\* Mutant of Refuse: a refused attempt counts.
RefuseAndRecord(k) == \E n \in 0..Len(hits[k]) :
  /\ Refused(k, n)
  /\ hits' = [hits EXCEPT ![k] = Append(Left(k, n), clock)]
  /\ UNCHANGED <<clock, accepted>>

Refuse(k) == \E n \in 0..Len(hits[k]) :
  /\ Refused(k, n)
  /\ hits' = [hits EXCEPT ![k] = Left(k, n)]
  /\ UNCHANGED <<clock, accepted>>

LetThrough(k) == \E n \in 0..Len(hits[k]) :
  /\ Expired(k, n)
  /\ Len(Left(k, n)) < LimitOf[k]
  /\ hits' = [hits EXCEPT ![k] = Append(Left(k, n), clock)]
  /\ accepted' = [accepted EXCEPT ![k] = Append(@, clock)]
  /\ UNCHANGED clock

Tick ==
  /\ clock < MaxTime
  /\ clock' = clock + 1
  /\ UNCHANGED <<hits, accepted>>

LimiterNext == Tick \/ \E k \in Keys : Refuse(k) \/ LetThrough(k)

LimiterSpec == LimiterInit /\ [][LimiterNext]_limiterVars

-----------------------------------------------------------------------------
\* No window holds more hits than the limit, wherever it begins: between a
\* hit that was let through and the one LimitOf[k] places later lies more
\* than a window (rate_limit.py:13-28).
WindowBound == \A k \in Keys : \A i, j \in 1..Len(accepted[k]) :
  j = i + LimitOf[k] => accepted[k][j] - accepted[k][i] > Window

\* A caller is refused exactly when LimitOf[k] hits that were let through are
\* not older than the window: refused attempts do not count, and a hit that
\* is exactly a window old still does (rate_limit.py:18-25).
RefusalsAreDue == \A k \in Keys :
  LET n == Len(accepted[k]) - LimitOf[k] IN
  (\E m \in 0..Len(hits[k]) : Refused(k, m)) <=>
    (n >= 0 /\ accepted[k][n + 1] >= clock - Window)

-----------------------------------------------------------------------------
\* The strengthening of WindowBound: the deque is the end of the history,
\* what was dropped from it is older than the window, and the history is
\* sorted.
Dropped(k) == Len(accepted[k]) - Len(hits[k])

DequeIsRecent(k) ==
  /\ Len(hits[k]) <= Len(accepted[k])
  /\ Len(hits[k]) <= LimitOf[k]
  /\ \A i \in 1..Len(hits[k]) : hits[k][i] = accepted[k][Dropped(k) + i]
  /\ \A i \in 1..Dropped(k) : accepted[k][i] < clock - Window

Sorted(k) ==
  /\ \A i, j \in 1..Len(accepted[k]) : i <= j => accepted[k][i] <= accepted[k][j]
  /\ \A i \in 1..Len(accepted[k]) : accepted[k][i] <= clock

LimiterInv ==
  /\ LimiterTypeOK
  /\ \A k \in Keys : DequeIsRecent(k) /\ Sorted(k)
  /\ WindowBound

=============================================================================
