---------------------------- MODULE OrderedInbox ----------------------------
(***************************************************************************)
(* The reorder buffer for the directed signals of one peer: OrderedInbox   *)
(* of src/src/order.rs (SignalRouter keeps one per peer; they share        *)
(* nothing).  A signal is its sequence number.                             *)
(*                                                                         *)
(* offer has three outcomes, one action each: the seq is behind next, it   *)
(* is the next one, or it is ahead.  All but the first end in drain.       *)
(***************************************************************************)
EXTENDS Naturals, FiniteSets

CONSTANTS
  U64Max,   \* the largest sequence number
  Window,   \* the argument of with_window
  Offerable \* the sequence numbers the peer's signals bear

ASSUME InboxU64Assumption == U64Max \in Nat \ {0}
ASSUME WindowAssumption == Window \in Nat
\* next_outbound_seq overflows if it allocates the largest number, so no
\* peer's signal bears it.
ASSUME OfferableAssumption == Offerable \subseteq 0 .. U64Max - 1

VARIABLES
  next,     \* the seq awaited
  started,  \* whether next is anchored
  buffer,   \* the seqs held back
  offered,  \* history: every seq ever offered
  earlier,  \* history: what all calls but the last one returned
  released  \* what the last call returned

inboxVars == <<next, started, buffer, offered, earlier, released>>

Seqs == 0 .. U64Max

\* with_window(0) is with_window(1)
EffectiveWindow == IF Window = 0 THEN 1 ELSE Window

InboxTypeOK ==
  /\ next \in Seqs
  /\ started \in BOOLEAN
  /\ buffer \subseteq Offerable
  /\ offered \subseteq Offerable
  /\ earlier \subseteq Offerable
  /\ released \subseteq Offerable

InboxInit ==
  /\ next = 0
  /\ started = FALSE
  /\ buffer = {}
  /\ offered = {}
  /\ earlier = {}
  /\ released = {}

-----------------------------------------------------------------------------

\* Wrong variant: the seq after the run is passed over too.
DrainPastNext(floor, anchored, held) ==
  \E stop \in floor .. U64Max + 1 :
    /\ floor .. stop - 1 \subseteq held
    /\ stop \notin held
    /\ next' = stop + 1
    /\ started' = (anchored \/ stop > floor)
    /\ buffer' = held \ (floor .. stop - 1)
    /\ released' = floor .. stop - 1
    /\ earlier' = earlier \cup released

\* drain: release the consecutive seqs held from floor on, up to the first
\* one that is missing (stop); next is then stop, saturating.
Drain(floor, anchored, held) ==
  \E stop \in floor .. U64Max + 1 :
    /\ floor .. stop - 1 \subseteq held
    /\ stop \notin held
    /\ next' = IF stop > U64Max THEN U64Max ELSE stop
    /\ started' = (anchored \/ stop > floor)
    /\ buffer' = held \ (floor .. stop - 1)
    /\ released' = floor .. stop - 1
    /\ earlier' = earlier \cup released

IsLeast(t, set) == t \in set /\ \A u \in set : t <= u

\* Wrong variants: a full buffer waits for one more; gives up one too early.
OverfullLate(held, floor) ==
  Cardinality(held) > EffectiveWindow /\ \A t \in held : t > floor
OverfullEarly(held, floor) ==
  Cardinality(held) + 1 >= EffectiveWindow /\ \A t \in held : t > floor

\* The condition of enforce_window, with floor for self.next.
Overfull(held, floor) ==
  Cardinality(held) >= EffectiveWindow /\ \A t \in held : t > floor

\* A call that returns nothing and leaves the buffer alone.
ReturnNothing ==
  /\ released' = {}
  /\ earlier' = earlier \cup released
  /\ UNCHANGED <<next, started, buffer>>

OfferBehind(s) ==
  /\ started /\ s < next
  /\ ReturnNothing

\* Wrong variant: what was delivered before is delivered again.
OfferExpectedReplays(s) ==
  /\ s <= next
  /\ Drain(s, TRUE, buffer \cup {s})

\* The very first signal anchors next at its own seq.
OfferExpected(s) ==
  /\ s = next \/ (~started /\ s < next)
  /\ Drain(s, TRUE, buffer \cup {s})

\* Wrong variant: only the seq right after the gap is kept.
OfferAheadDrops(s) ==
  /\ s > next
  /\ Drain(next, started, IF s = next + 1 THEN buffer \cup {s} ELSE buffer)

\* A full buffer gives up on the gap: the least seq held becomes the floor.
OfferAhead(s) ==
  /\ s > next
  /\ LET held == buffer \cup {s}
     IN  IF Overfull(held, next)
         THEN \E t \in held : IsLeast(t, held) /\ Drain(t, TRUE, held)
         ELSE Drain(next, started, held)

Offer(s) ==
  /\ offered' = offered \cup {s}
  /\ OfferBehind(s) \/ OfferExpected(s) \/ OfferAhead(s)

\* Wrong variant: the floor also moves backwards.
SkipToBackward(s) ==
  /\ Drain(s, TRUE, {t \in buffer : t >= s})
  /\ UNCHANGED offered

\* skip_to moves forward only, and forgets what is held below the new floor.
SkipTo(s) ==
  /\ IF s > next \/ ~started
     THEN Drain(s, TRUE, {t \in buffer : t >= s})
     ELSE Drain(next, started, buffer)
  /\ UNCHANGED offered

InboxNext ==
  \/ \E s \in Offerable : Offer(s)
  \/ \E s \in Seqs : SkipTo(s)

InboxSpec == InboxInit /\ [][InboxNext]_inboxVars

-----------------------------------------------------------------------------
(* Properties *)

(* No signal is handed out after a later one or a second time, over all    *)
(* calls of offer and skip_to (order.rs:15-18).                            *)
Ascending == \A s \in released : \A t \in earlier : t < s

(* The buffer never holds a window of signals when a call returns, and     *)
(* only signals beyond the awaited one: nothing is stuck behind the floor  *)
(* (enforce_window, skip_to).                                              *)
BufferBounded ==
  /\ Cardinality(buffer) < EffectiveWindow
  /\ \A t \in buffer : t > next

(* Whatever was offered and is neither handed out nor held lies behind the *)
(* floor, and every seq handed out does: a signal can only be lost by a    *)
(* gap that was given up.                                                  *)
NothingLostAhead ==
  /\ \A s \in offered : s \in earlier \cup released \cup buffer \/ s < next
  /\ \A s \in earlier \cup released : s < next

(* An offer passes over a seq that never came only when the buffer is full *)
(* (gap tolerance, order.rs:19-21).                                        *)
GapGivenUpOnlyWhenFull ==
  [][\A s \in Offerable :
       Offer(s) /\ (\E t \in next .. next' - 1 : t \notin offered')
         => Cardinality(buffer \cup {s}) >= EffectiveWindow]_inboxVars

Stream == INSTANCE InOrderStream WITH Signals <- Offerable

(* The buffer implements the stream its consumer relies on. *)
ImplementsStream == Stream!StreamSpec
=============================================================================
