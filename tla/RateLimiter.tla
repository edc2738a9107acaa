---------------------------- MODULE RateLimiter ----------------------------
(***************************************************************************)
(* AdmitRateLimiter of src/src/admit.rs as operators on its value: a fixed *)
(* window per sender, opened by the sender's first attempt, and a bounded  *)
(* table of such windows.  Admission keeps one limiter per host process.   *)
(*                                                                         *)
(* The HashMap from sender to (window_start, count) is the pair of its key *)
(* set, tracked, and two total functions; what they hold for a sender that *)
(* is not tracked is never read.                                           *)
(***************************************************************************)
EXTENDS Naturals, FiniteSets

CONSTANTS
  Nodes,      \* node ids of those who ask for admission
  Capacity,   \* attempts per window and sender
  WindowSecs, \* length of a window
  MaxTracked  \* how many senders are tracked at once

ASSUME LimiterAssumption ==
  Capacity \in Nat /\ WindowSecs \in Nat /\ MaxTracked \in Nat

\* AdmitRateLimiter::new clamps its arguments: .max(1)
AtLeastOne(n) == IF n = 0 THEN 1 ELSE n

Cap == AtLeastOne(Capacity)
Window == AtLeastOne(WindowSecs)

Limiters == [tracked : SUBSET Nodes,
             start : [Nodes -> Nat],
             count : [Nodes -> 0 .. Cap]]

NewLimiter ==
  [tracked |-> {}, start |-> [n \in Nodes |-> 0], count |-> [n \in Nodes |-> 0]]

Full(limiter) == Cardinality(limiter.tracked) >= AtLeastOne(MaxTracked)

\* Wrong variant: a window ends a second early.
ExpiredEarly(limiter, n, now) == now + 1 >= limiter.start[n] + Window

\* now.saturating_sub(start) >= window
Expired(limiter, n, now) == now >= limiter.start[n] + Window

\* Wrong variant: a full table is never cleared.
MakeRoomNever(limiter, n, now) == limiter

\* A sender that is not tracked meets a full table: windows that are over go.
MakeRoom(limiter, n, now) ==
  IF n \notin limiter.tracked /\ Full(limiter)
  THEN [limiter EXCEPT !.tracked = {m \in @ : ~Expired(limiter, m, now)}]
  ELSE limiter

\* Wrong variant: a sender that found no room is tracked all the same.
NoRoomNever(limiter, n) == FALSE

\* Still full: the sender is refused and not recorded.
NoRoom(limiter, n) == n \notin limiter.tracked /\ Full(limiter)

\* The entry of n, inserted if absent, with a new window if the old one is over.
Rolled(limiter, n, now) ==
  IF n \notin limiter.tracked \/ Expired(limiter, n, now)
  THEN [limiter EXCEPT !.tracked = @ \cup {n}, !.start[n] = now, !.count[n] = 0]
  ELSE limiter

\* check: whether an attempt of n at now is let through, and the limiter after it.
LetsThrough(limiter, n, now) ==
  LET roomy == MakeRoom(limiter, n, now)
  IN  ~NoRoom(roomy, n) /\ Rolled(roomy, n, now).count[n] < Cap

\* Wrong variant: what is refused counts too.
CheckedCountsRefused(limiter, n, now) ==
  LET roomy == MakeRoom(limiter, n, now)
  IN  IF NoRoom(roomy, n) THEN roomy
      ELSE [Rolled(roomy, n, now) EXCEPT !.count[n] = @ + 1]

Checked(limiter, n, now) ==
  LET roomy == MakeRoom(limiter, n, now)
      rolled == Rolled(roomy, n, now)
  IN  IF NoRoom(roomy, n) THEN roomy
      ELSE IF rolled.count[n] < Cap THEN [rolled EXCEPT !.count[n] = @ + 1]
      ELSE rolled
=============================================================================
