-------------------------- MODULE SignalFlowProofs --------------------------
(***************************************************************************)
(* Proofs about SignalFlow, for any window, any freshness and any number   *)
(* of signals: they rest on the invariant of the buffer that               *)
(* OrderedInboxProofs establishes, and on two facts about its use: what    *)
(* was offered was fresh then, and an offer leaves the floor right after   *)
(* something that was handed out.  The flow implements the buffer, hence   *)
(* the in-order stream; and while nothing disturbs it, no gap is given up  *)
(* and nothing that has all before it waits.                               *)
(***************************************************************************)
EXTENDS SignalFlow, OrderedInboxProofs

\* The floor is where it began, or right after what was handed out.
FloorReached == next = 0 \/ next - 1 \in earlier \cup released

FlowInv ==
  /\ FlowTypeOK
  /\ InboxInv
  /\ Cardinality(buffer) < EffectiveWindow
  /\ FloorReached
  /\ \A s \in sent \cup elsewhere : s < next_seq
  /\ FreshnessSecs > 0 => \A s \in offered : sent_at[s] <= now + SkewSlack
  /\ NotFromTheFuture

-----------------------------------------------------------------------------
(* What one call does to the buffer *)

LEMMA EndsBelow ==
  ASSUME NEW a \in Nat, NEW b \in Nat, a <= b
  PROVE  b = a \/ b - 1 \in a .. b - 1
  OBVIOUS

LEMMA DrainReaches ==
  ASSUME NEW floor \in Seqs, NEW anchored \in BOOLEAN, NEW held \in SUBSET Offerable,
         Drain(floor, anchored, held)
  PROVE  /\ next' = floor \/ next' - 1 \in released'
         /\ floor \in held => next' - 1 \in released'
         /\ earlier' = earlier \cup released
<1>1. /\ next' \in floor .. U64Max /\ released' = floor .. next' - 1
      /\ next' \notin held /\ earlier' = earlier \cup released
  BY DrainFacts
<1>2. /\ floor \in Nat /\ U64Max \in Nat
      /\ next' \in Nat /\ floor <= next'
  BY <1>1, InboxU64Assumption DEF Seqs
<1>3. next' = floor \/ next' - 1 \in floor .. next' - 1
  BY <1>2, EndsBelow
<1> QED  BY <1>1, <1>3

LEMMA OfferReachesFloor ==
  ASSUME InboxInv, FloorReached, NEW s \in Offerable, Offer(s)
  PROVE  FloorReached'
<1>0. /\ next \in Seqs /\ started \in BOOLEAN /\ buffer \cup {s} \in SUBSET Offerable
      /\ Offerable \subseteq Seqs /\ TRUE \in BOOLEAN
  BY OfferableAssumption, InboxU64Assumption DEF InboxInv, InboxTypeOK, Seqs
<1>1. CASE OfferBehind(s)
  BY <1>1 DEF OfferBehind, ReturnNothing, FloorReached
<1>2. CASE OfferExpected(s)
  <2>1. Drain(s, TRUE, buffer \cup {s})
    BY <1>2 DEF OfferExpected
  <2>2. s \in Seqs
    BY <1>0
  <2> QED  BY <2>1, <2>2, <1>0, DrainReaches DEF FloorReached
<1>3. CASE OfferAhead(s)
  <2> DEFINE held == buffer \cup {s}
  <2>1. CASE Overfull(held, next)
    <3>1. PICK t \in held : Drain(t, TRUE, held)
      BY <1>3, <2>1 DEF OfferAhead
    <3>2. t \in Seqs /\ held \in SUBSET Offerable
      BY <1>0
    <3> QED  BY <3>1, <3>2, <1>0, DrainReaches DEF FloorReached
  <2>2. CASE ~Overfull(held, next)
    <3>1. Drain(next, started, held) /\ held \in SUBSET Offerable
      BY <1>0, <1>3, <2>2 DEF OfferAhead
    <3>2. /\ next' = next \/ next' - 1 \in released'
          /\ earlier' = earlier \cup released
      BY <3>1, <1>0, DrainReaches
    <3> QED  BY <3>2 DEF FloorReached
  <2> QED  BY <2>1, <2>2
<1> QED  BY <1>1, <1>2, <1>3 DEF Offer

\* A call that hands out nothing, whether it is dropped or not for us.
LEMMA NothingReturned ==
  ASSUME InboxInv, FloorReached, Cardinality(buffer) < EffectiveWindow,
         ReturnNothing, UNCHANGED offered
  PROVE  InboxInv' /\ FloorReached' /\ Cardinality(buffer') < EffectiveWindow
<1>1. /\ released' = {} /\ earlier' = earlier \cup released
      /\ next' = next /\ started' = started /\ buffer' = buffer /\ offered' = offered
  BY DEF ReturnNothing
<1>2. InboxTypeOK'
  BY <1>1 DEF InboxInv, InboxTypeOK
<1>3. Ascending'
  BY <1>1 DEF Ascending
<1> QED  BY <1>1, <1>2, <1>3 DEF InboxInv, FloorReached

LEMMA OfferKeepsBuffer ==
  ASSUME InboxInv, FloorReached, Cardinality(buffer) < EffectiveWindow,
         NEW s \in Offerable, Offer(s)
  PROVE  InboxInv' /\ FloorReached' /\ Cardinality(buffer') < EffectiveWindow
<1>1. InboxNext
  BY DEF InboxNext
<1>2. InboxInv'
  BY <1>1, InboxInvStep
<1>3. Cardinality(buffer') < EffectiveWindow
  BY <1>1, SizeStep
<1> QED  BY <1>2, <1>3, OfferReachesFloor

\* A step of the peer or of the clock.
LEMMA BufferUntouched ==
  ASSUME InboxInv, FloorReached, Cardinality(buffer) < EffectiveWindow,
         UNCHANGED inboxVars
  PROVE  InboxInv' /\ FloorReached' /\ Cardinality(buffer') < EffectiveWindow
<1>1. InboxInv'
  BY InboxInvStep
<1> QED  BY <1>1 DEF inboxVars, FloorReached

-----------------------------------------------------------------------------
(* The invariant *)

LEMMA FlowInvInit == FlowInit => FlowInv
<1> SUFFICES ASSUME FlowInit PROVE FlowInv
  OBVIOUS
<1>1. InboxInv
  BY InboxInvInit DEF FlowInit
<1>2. Cardinality(buffer) < EffectiveWindow
  BY FS_EmptySet, WindowAssumption DEF FlowInit, InboxInit, EffectiveWindow
<1>3. FlowTypeOK
  BY <1>1, FlowAssumption DEF FlowInit, InboxInit, FlowTypeOK, InboxInv
<1>4. FloorReached /\ NotFromTheFuture
  BY DEF FlowInit, InboxInit, FloorReached, NotFromTheFuture
<1> QED  BY <1>1, <1>2, <1>3, <1>4 DEF FlowInit, InboxInit, FlowInv

LEMMA FlowInvStep == FlowInv /\ [FlowNext]_flowVars => FlowInv'
<1> SUFFICES ASSUME FlowInv, [FlowNext]_flowVars PROVE FlowInv'
  OBVIOUS
<1>0. /\ FlowTypeOK /\ InboxInv /\ FloorReached /\ Cardinality(buffer) < EffectiveWindow
      /\ InboxTypeOK /\ released \subseteq offered /\ offered \subseteq sent
      /\ next_seq \in Nat /\ elsewhere \subseteq Offerable /\ sent \subseteq Offerable \ elsewhere
      /\ arrived \subseteq Offerable /\ sent_at \in [Offerable -> Nat]
      /\ now \in 0 .. MaxTime /\ releasedAt \in 0 .. MaxTime
      /\ Offerable \subseteq Nat /\ SkewSlack \in Nat /\ MaxTime \in Nat /\ Skews \subseteq Nat
      /\ FreshnessSecs \in Nat
  BY OfferableAssumption, FlowAssumption DEF FlowInv, FlowTypeOK, InboxInv
<1>1. CASE SignalUs
  <2>1. /\ next_seq \in Offerable /\ next_seq' = next_seq + 1
        /\ sent' = sent \cup {next_seq} /\ elsewhere' = elsewhere
        /\ now' = now /\ arrived' = arrived /\ releasedAt' = releasedAt
        /\ offered' = offered /\ released' = released
        /\ UNCHANGED inboxVars
    BY <1>1 DEF SignalUs, TakeSeq, inboxVars
  <2>2. PICK skew \in Skews : sent_at' = [sent_at EXCEPT ![next_seq] = now + skew]
    BY <1>1 DEF SignalUs
  <2>3. InboxInv' /\ FloorReached' /\ Cardinality(buffer') < EffectiveWindow
    BY <2>1, <1>0, BufferUntouched
  <2>4. next_seq \notin sent \cup elsewhere
    BY <1>0 DEF FlowInv
  <2>5. sent_at' \in [Offerable -> Nat]
    BY <1>0, <2>1, <2>2
  <2>6. FlowTypeOK'
    BY <1>0, <2>1, <2>3, <2>4, <2>5 DEF FlowTypeOK, InboxInv
  <2>7. \A s \in offered : sent_at'[s] = sent_at[s]
    BY <1>0, <2>1, <2>2, <2>4
  <2>8. NotFromTheFuture'
    BY <1>0, <2>1, <2>7 DEF FlowInv, NotFromTheFuture
  <2>9. \A s \in sent' \cup elsewhere' : s < next_seq'
    BY <1>0, <2>1 DEF FlowInv
  <2> QED  BY <1>0, <2>1, <2>3, <2>6, <2>7, <2>8, <2>9 DEF FlowInv
<1>2. CASE SpendElsewhere
  <2>1. /\ next_seq \in Offerable /\ next_seq' = next_seq + 1
        /\ elsewhere' = elsewhere \cup {next_seq} /\ sent' = sent /\ sent_at' = sent_at
        /\ now' = now /\ arrived' = arrived /\ releasedAt' = releasedAt
        /\ offered' = offered /\ released' = released
        /\ UNCHANGED inboxVars
    BY <1>2 DEF SpendElsewhere, TakeSeq, inboxVars
  <2>2. InboxInv' /\ FloorReached' /\ Cardinality(buffer') < EffectiveWindow
    BY <2>1, <1>0, BufferUntouched
  <2>3. next_seq \notin sent
    BY <1>0 DEF FlowInv
  <2>4. FlowTypeOK'
    BY <1>0, <2>1, <2>2, <2>3 DEF FlowTypeOK, InboxInv
  <2>5. \A s \in sent' \cup elsewhere' : s < next_seq'
    BY <1>0, <2>1 DEF FlowInv
  <2> QED  BY <1>0, <2>1, <2>2, <2>4, <2>5 DEF FlowInv, NotFromTheFuture
<1>3. CASE Tick
  <2>1. /\ now' = now + 1 /\ now < MaxTime
        /\ next_seq' = next_seq /\ elsewhere' = elsewhere /\ sent' = sent
        /\ sent_at' = sent_at /\ arrived' = arrived /\ releasedAt' = releasedAt
        /\ offered' = offered /\ released' = released
        /\ UNCHANGED inboxVars
    BY <1>3 DEF Tick, inboxVars
  <2>2. InboxInv' /\ FloorReached' /\ Cardinality(buffer') < EffectiveWindow
    BY <2>1, <1>0, BufferUntouched
  <2>3. FlowTypeOK'
    BY <1>0, <2>1, <2>2 DEF FlowTypeOK, InboxInv
  <2>4. FreshnessSecs > 0 => \A s \in offered : sent_at[s] <= (now + 1) + SkewSlack
    BY <1>0 DEF FlowInv
  <2> QED  BY <1>0, <2>1, <2>2, <2>3, <2>4 DEF FlowInv, NotFromTheFuture
<1>4. ASSUME NEW s \in Offerable, Ingest(s)  PROVE FlowInv'
  <2>1. /\ arrived' = arrived \cup {s} /\ releasedAt' = now
        /\ next_seq' = next_seq /\ elsewhere' = elsewhere /\ sent' = sent
        /\ sent_at' = sent_at /\ now' = now
    BY <1>4 DEF Ingest
  <2>2. CASE s \in sent /\ IsFresh(sent_at[s])
    <3>1. Offer(s) /\ offered' = offered \cup {s}
      BY <1>4, <2>2 DEF Ingest, Offer
    <3>2. InboxInv' /\ FloorReached' /\ Cardinality(buffer') < EffectiveWindow
      BY <3>1, <1>0, OfferKeepsBuffer
    <3>3. FlowTypeOK'
      BY <1>0, <2>1, <2>2, <3>1, <3>2 DEF FlowTypeOK, InboxInv
    <3>4. FreshnessSecs > 0 => \A t \in offered' : sent_at[t] <= now + SkewSlack
      BY <1>0, <2>2, <3>1 DEF FlowInv, IsFresh
    <3>5. released' \subseteq offered'
      BY <3>2 DEF InboxInv
    <3>6. NotFromTheFuture'
      BY <2>1, <3>4, <3>5 DEF NotFromTheFuture
    <3> QED  BY <2>1, <3>2, <3>3, <3>4, <3>6 DEF FlowInv
  <2>3. CASE ~(s \in sent /\ IsFresh(sent_at[s]))
    <3>1. ReturnNothing /\ offered' = offered /\ released' = {}
      BY <1>4, <2>3 DEF Ingest, ReturnNothing
    <3>2. InboxInv' /\ FloorReached' /\ Cardinality(buffer') < EffectiveWindow
      BY <3>1, <1>0, NothingReturned
    <3>3. FlowTypeOK'
      BY <1>0, <2>1, <3>1, <3>2 DEF FlowTypeOK, InboxInv
    <3>4. NotFromTheFuture'
      BY <3>1 DEF NotFromTheFuture
    <3> QED  BY <2>1, <3>1, <3>2, <3>3, <3>4 DEF FlowInv
  <2> QED  BY <2>2, <2>3
<1>5. CASE UNCHANGED flowVars
  <2>1. /\ next_seq' = next_seq /\ elsewhere' = elsewhere /\ sent' = sent
        /\ sent_at' = sent_at /\ arrived' = arrived /\ releasedAt' = releasedAt
        /\ now' = now /\ offered' = offered /\ released' = released
        /\ UNCHANGED inboxVars
    BY <1>5 DEF flowVars, inboxVars
  <2>2. InboxInv' /\ FloorReached' /\ Cardinality(buffer') < EffectiveWindow
    BY <2>1, <1>0, BufferUntouched
  <2>3. FlowTypeOK'
    BY <1>0, <2>1, <2>2 DEF FlowTypeOK, InboxInv
  <2> QED  BY <1>0, <2>1, <2>2, <2>3 DEF FlowInv, NotFromTheFuture
<1> QED  BY <1>1, <1>2, <1>3, <1>4, <1>5 DEF FlowNext

LEMMA FlowInvariant == FlowSpec => []FlowInv
  BY FlowInvInit, FlowInvStep, PTL DEF FlowSpec

-----------------------------------------------------------------------------

(* Only signals that were addressed to us, each under a number of its own, *)
(* ever reach the buffer, and the buffer keeps its types.                  *)
THEOREM FlowTypeCorrect == FlowSpec => []FlowTypeOK
<1>1. FlowInv => FlowTypeOK  BY DEF FlowInv
<1> QED  BY <1>1, FlowInvariant, PTL

(* With freshness on, nothing is handed out that is from further in the    *)
(* future than the slack, however long it was held back.                   *)
THEOREM NothingFromTheFuture == FlowSpec => []NotFromTheFuture
<1>1. FlowInv => NotFromTheFuture  BY DEF FlowInv
<1> QED  BY <1>1, FlowInvariant, PTL

(* Fewer than a window of the signals that arrived wait behind what was    *)
(* handed out, whatever numbers the peer spends elsewhere.                 *)
THEOREM BacklogBounded == FlowSpec => []FewerThanAWindowWait
<1>1. FlowInv => FewerThanAWindowWait
  <2> SUFFICES ASSUME FlowInv PROVE FewerThanAWindowWait
    OBVIOUS
  <2> DEFINE waiting == {s \in offered : \A t \in earlier \cup released : t < s}
  <2>1. /\ offered \subseteq Nat /\ next \in Nat /\ buffer \subseteq Offerable
        /\ earlier \cup released \subseteq Nat
    BY OfferableAssumption, InboxU64Assumption
    DEF FlowInv, FlowTypeOK, InboxTypeOK, Seqs
  <2>2. waiting \subseteq buffer
    <3> SUFFICES ASSUME NEW s \in offered, s \notin buffer,
                        \A t \in earlier \cup released : t < s
                 PROVE  FALSE
      OBVIOUS
    <3>1. s \notin earlier \cup released
      BY <2>1
    <3>2. s < next
      BY <3>1 DEF FlowInv, InboxInv
    <3>3. next - 1 \in earlier \cup released
      BY <2>1, <3>2 DEF FlowInv, FloorReached
    <3> QED  BY <2>1, <3>2, <3>3
  <2>3. Cardinality(waiting) < EffectiveWindow
    BY <2>1, <2>2, SmallerStaysBelow DEF FlowInv
  <2> QED  BY <2>3 DEF FewerThanAWindowWait
<1> QED  BY <1>1, FlowInvariant, PTL

-----------------------------------------------------------------------------
(* The flow uses the buffer as OrderedInbox says *)

\* A call that hands out nothing is a skip to the floor, or no call at all.
LEMMA ReturningNothing ==
  ASSUME InboxInv, ReturnNothing, UNCHANGED offered
  PROVE  InboxNext \/ UNCHANGED inboxVars
<1>0. /\ next \in Seqs /\ next \in Nat /\ U64Max \in Nat /\ next <= U64Max
      /\ \A t \in buffer : t > next
      /\ \A t \in earlier \cup released : t < next
      /\ earlier \cup released \subseteq Nat
      /\ started \in BOOLEAN
  BY OfferableAssumption, InboxU64Assumption DEF InboxInv, InboxTypeOK, Seqs
<1>1. /\ released' = {} /\ earlier' = earlier \cup released /\ offered' = offered
      /\ next' = next /\ started' = started /\ buffer' = buffer
  BY DEF ReturnNothing
<1>2. CASE ~started
  <2>1. next = 0
    BY <1>2 DEF InboxInv
  <2>2. earlier \cup released = {}
    BY <1>0, <2>1
  <2> QED  BY <1>1, <2>2 DEF inboxVars
<1>3. CASE started
  <2>1. next .. next - 1 = {} /\ next \in next .. U64Max + 1 /\ next \notin buffer
    BY <1>0
  <2>2. buffer \ (next .. next - 1) = buffer
    BY <2>1
  <2>3. next' = (IF next > U64Max THEN U64Max ELSE next)
    BY <1>0, <1>1
  <2>4. started' = (started \/ next > next)
    BY <1>1, <1>3
  <2>5. Drain(next, started, buffer)
    BY <1>1, <2>1, <2>2, <2>3, <2>4 DEF Drain
  <2>6. SkipTo(next)
    <3>1. ~(next > next)
      BY <1>0
    <3> QED  BY <1>1, <1>3, <2>5, <3>1 DEF SkipTo
  <2> QED  BY <1>0, <2>6 DEF InboxNext
<1> QED  BY <1>0, <1>2, <1>3

(* However the peer numbers its signals and whatever goes stale, the       *)
(* buffer for the peer takes only steps of OrderedInbox: what is proved of *)
(* it alone holds of it here (ingest_ordered).                             *)
THEOREM FlowImplementsInbox == FlowSpec => InboxSpec
<1>1. FlowInit => InboxInit
  BY DEF FlowInit
<1>2. FlowInv /\ [FlowNext]_flowVars => [InboxNext]_inboxVars
  <2> SUFFICES ASSUME FlowInv, [FlowNext]_flowVars PROVE [InboxNext]_inboxVars
    OBVIOUS
  <2>1. CASE UNCHANGED inboxVars
    BY <2>1
  <2>2. ASSUME NEW s \in Offerable, Ingest(s) PROVE InboxNext \/ UNCHANGED inboxVars
    <3>1. CASE Offer(s)
      BY <3>1 DEF InboxNext
    <3>2. CASE ReturnNothing /\ UNCHANGED offered
      BY <3>2, ReturningNothing DEF FlowInv
    <3> QED  BY <2>2, <3>1, <3>2 DEF Ingest
  <2> QED
    BY <2>1, <2>2 DEF FlowNext, SignalUs, SpendElsewhere, Tick, flowVars
<1> QED  BY <1>1, <1>2, FlowInvariant, PTL DEF FlowSpec, InboxSpec

(* What ingest_ordered returns of a peer's signals is an in-order stream   *)
(* without duplicates.                                                     *)
THEOREM FlowIsInOrder == FlowSpec => ImplementsStream
  BY FlowImplementsInbox, InboxImplementsStream, PTL

-----------------------------------------------------------------------------
(* Why an undisturbed signal is handed out *)

\* The peer's numbers are taken one by one, and only what arrived is offered.
NumbersInv ==
  /\ sent \cup elsewhere = 0 .. next_seq - 1
  /\ offered \subseteq arrived

LEMMA NumbersStep == FlowInv /\ NumbersInv /\ [FlowNext]_flowVars => NumbersInv'
<1> SUFFICES ASSUME FlowInv, NumbersInv, [FlowNext]_flowVars PROVE NumbersInv'
  OBVIOUS
<1>0. next_seq \in Nat
  BY DEF FlowInv, FlowTypeOK
<1>1. ASSUME next_seq' = next_seq + 1,
             sent' \cup elsewhere' = sent \cup elsewhere \cup {next_seq},
             offered' = offered, arrived' = arrived
      PROVE  NumbersInv'
  <2>1. 0 .. next_seq' - 1 = 0 .. next_seq - 1 \cup {next_seq}
    BY <1>0, <1>1
  <2> QED  BY <1>1, <2>1 DEF NumbersInv
<1>2. CASE SignalUs
  BY <1>1, <1>2 DEF SignalUs, TakeSeq, inboxVars
<1>3. CASE SpendElsewhere
  BY <1>1, <1>3 DEF SpendElsewhere, TakeSeq, inboxVars
<1>4. CASE Tick \/ UNCHANGED flowVars
  BY <1>4 DEF Tick, flowVars, inboxVars, NumbersInv
<1>5. ASSUME NEW s \in Offerable, Ingest(s) PROVE NumbersInv'
  BY <1>5 DEF Ingest, Offer, NumbersInv
<1> QED  BY <1>2, <1>3, <1>4, <1>5 DEF FlowNext

\* Everything below the floor was handed out: no gap was given up.
NoGap == 0 .. next - 1 \subseteq earlier \cup released

\* The number awaited never arrived, or it would not be awaited.
LEMMA AwaitedIsMissing ==
  ASSUME FlowInv
  PROVE  next \notin offered
<1>1. /\ next \in Nat
      /\ \A t \in buffer : t > next
      /\ \A t \in earlier \cup released : t < next
      /\ \A s \in offered : s \in earlier \cup released \cup buffer \/ s < next
  BY InboxU64Assumption DEF FlowInv, InboxInv, InboxTypeOK, Seqs
<1>2. \A t \in Nat : ~ (t > t) /\ ~ (t < t)
  OBVIOUS
<1> QED  BY <1>1, <1>2

\* A drain from the floor opens no gap.
LEMMA DrainFromFloor ==
  ASSUME FlowInv, NoGap, NEW anchored \in BOOLEAN, NEW held \in SUBSET Offerable,
         Drain(next, anchored, held)
  PROVE  NoGap'
<1>1. /\ next' \in next .. U64Max /\ released' = next .. next' - 1
      /\ earlier' = earlier \cup released
  <2>1. next \in Seqs
    BY DEF FlowInv, InboxInv, InboxTypeOK
  <2> QED  BY <2>1, DrainFacts
<1>2. next \in Nat /\ next' \in Nat
  BY <1>1, InboxU64Assumption DEF FlowInv, InboxInv, InboxTypeOK, Seqs
<1>3. \A t \in 0 .. next' - 1 : t \in 0 .. next - 1 \/ t \in next .. next' - 1
  <2>1. \A a, b \in Nat : \A t \in 0 .. b - 1 : t \in 0 .. a - 1 \/ t \in a .. b - 1
    OBVIOUS
  <2> QED  BY <1>2, <2>1
<1> QED  BY <1>1, <1>3 DEF NoGap

\* A buffer that fills up behind the number awaited has overtaken it by a window.
LEMMA NeverFull ==
  ASSUME FlowInv, NumbersInv, elsewhere = {}, NEW s \in sent, s > next,
         NEW now_arrived \in SUBSET Offerable, arrived \cup {s} \subseteq now_arrived,
         next \notin now_arrived,
         Cardinality({t \in now_arrived : next < t}) < EffectiveWindow
  PROVE  /\ ~Overfull(buffer \cup {s}, next)
<1> DEFINE later == {t \in now_arrived : next < t}
<1>1. buffer \cup {s} \subseteq later
  BY DEF FlowInv, InboxInv, NumbersInv, FlowTypeOK
<1>2. later \in SUBSET Offerable
  OBVIOUS
<1>3. Cardinality(later) < EffectiveWindow
  OBVIOUS
<1> HIDE DEF later
<1>4. Cardinality(buffer \cup {s}) < EffectiveWindow
  BY <1>1, <1>2, <1>3, SmallerStaysBelow
<1>5. Cardinality(buffer \cup {s}) \in Nat /\ EffectiveWindow \in Nat
  <2>1. IsFiniteSet(buffer \cup {s})
    BY <1>1, <1>2, OfferableFinite
  <2> QED  BY <2>1, FS_CardinalityType, WindowAssumption DEF EffectiveWindow
<1> QED  BY <1>4, <1>5 DEF Overfull

LEMMA NoGapStep ==
  ASSUME FlowInv, NumbersInv, NoGap, Undisturbed', [FlowNext]_flowVars
  PROVE  NoGap'
<1>0. /\ next \in Nat /\ next \in Seqs /\ started \in BOOLEAN /\ buffer \subseteq Offerable
      /\ Offerable \subseteq Nat /\ sent \subseteq Offerable
      /\ (~started => next = 0)
      /\ next_seq \in Nat
  BY InboxU64Assumption, OfferableAssumption
  DEF FlowInv, FlowTypeOK, InboxInv, InboxTypeOK, Seqs
<1>1. ASSUME next' = next, earlier' \cup released' = earlier \cup released
      PROVE  NoGap'
  BY <1>1 DEF NoGap
<1>2. ASSUME NEW s \in Offerable, Ingest(s), s \in sent, Offer(s)
      PROVE  NoGap'
  <2>0. /\ arrived' = arrived \cup {s} /\ sent' = sent /\ elsewhere' = elsewhere
        /\ buffer \cup {s} \in SUBSET Offerable
    BY <1>0, <1>2 DEF Ingest
  <2>1. CASE OfferBehind(s)
    BY <1>1, <2>1 DEF OfferBehind, ReturnNothing
  <2>2. CASE OfferExpected(s)
    <3>1. s = next
      <4>1. s = next \/ (~started /\ s < next)
        BY <2>2 DEF OfferExpected
      <4>2. s \in Nat
        BY <1>0
      <4> QED  BY <1>0, <4>1, <4>2
    <3>2. Drain(next, TRUE, buffer \cup {s}) /\ TRUE \in BOOLEAN
      BY <2>2, <3>1 DEF OfferExpected
    <3> QED  BY <2>0, <3>2, DrainFromFloor
  <2>3. CASE OfferAhead(s)
    <3>1. s > next
      BY <2>3 DEF OfferAhead
    <3>2. elsewhere = {} /\ arrived' \subseteq offered' /\ arrived' \in SUBSET Offerable
      <4>1. arrived \subseteq Offerable
        BY DEF FlowInv, FlowTypeOK
      <4> QED  BY <2>0, <4>1 DEF Undisturbed
    <3>3. next \in sent
      <4>1. sent = 0 .. next_seq - 1
        BY <3>2 DEF NumbersInv
      <4> QED  BY <1>0, <1>2, <3>1, <4>1
    <3>4. next \notin arrived'
      <4>1. offered' = offered \cup {s}
        BY <1>2 DEF Offer
      <4>2. next \notin offered
        BY AwaitedIsMissing
      <4>3. next # s
        BY <1>0, <3>1
      <4> QED  BY <3>2, <4>1, <4>2, <4>3
    <3>5. Cardinality({t \in arrived' : next < t}) < EffectiveWindow
      BY <2>0, <3>3, <3>4 DEF Undisturbed
    <3>6. arrived \cup {s} \subseteq arrived'
      BY <2>0
    <3>7. ~Overfull(buffer \cup {s}, next)
      BY <1>2, <3>1, <3>2, <3>4, <3>5, <3>6, NeverFull
    <3>8. Drain(next, started, buffer \cup {s})
      BY <2>3, <3>7 DEF OfferAhead
    <3> QED  BY <1>0, <2>0, <3>8, DrainFromFloor
  <2> QED  BY <1>2, <2>1, <2>2, <2>3 DEF Offer
<1>3. ASSUME NEW s \in Offerable, Ingest(s)  PROVE NoGap'
  <2>1. CASE ReturnNothing
    BY <1>1, <2>1 DEF ReturnNothing
  <2>2. CASE s \in sent /\ Offer(s)
    BY <1>2, <1>3, <2>2
  <2> QED  BY <1>3, <2>1, <2>2 DEF Ingest
<1> QED
  BY <1>1, <1>3 DEF FlowNext, SignalUs, SpendElsewhere, Tick, flowVars, inboxVars

\* All that the peer sent us up to s has arrived.
ArrivedUpTo(s) == s \in sent /\ \A t \in sent : t <= s => t \in arrived

HandedOutOnArrival == \A s \in Offerable : ArrivedUpTo(s) => s \in earlier \cup released

(* As long as the counter is ours alone and nothing arrives stale or a     *)
(* whole window late, no signal waits once those before it have arrived:   *)
(* the call that ingests the last of them hands it out (offer, drain).     *)
THEOREM NothingWaitsUndisturbed ==
  FlowSpec => ([]Undisturbed => []HandedOutOnArrival)
<1>1. FlowInit => NumbersInv /\ NoGap
  <2> SUFFICES ASSUME FlowInit PROVE NumbersInv /\ NoGap
    OBVIOUS
  <2>1. next = 0 /\ next_seq = 0 /\ sent \cup elsewhere = {} /\ offered = {}
    BY DEF FlowInit, InboxInit
  <2>2. 0 .. 0 - 1 = {}
    OBVIOUS
  <2> QED  BY <2>1, <2>2 DEF NumbersInv, NoGap
<1>2. FlowInv /\ NumbersInv /\ NoGap /\ Undisturbed' /\ [FlowNext]_flowVars => NoGap'
  BY NoGapStep
<1>3. FlowInv /\ NumbersInv /\ NoGap /\ Undisturbed => HandedOutOnArrival
  <2> SUFFICES ASSUME FlowInv, NumbersInv, NoGap, Undisturbed,
                      NEW s \in Offerable, ArrivedUpTo(s)
               PROVE  s \in earlier \cup released
    BY DEF HandedOutOnArrival
  <2>1. /\ next \in Nat /\ s \in Nat /\ next_seq \in Nat
        /\ sent = 0 .. next_seq - 1 /\ arrived \subseteq offered
    BY InboxU64Assumption, OfferableAssumption
    DEF FlowInv, FlowTypeOK, InboxInv, InboxTypeOK, Seqs, Undisturbed, NumbersInv
  <2>2. s < next
    <3> SUFFICES ASSUME s >= next PROVE FALSE
      BY <2>1
    <3>1. s \in sent
      BY DEF ArrivedUpTo
    <3>2. next \in sent
      BY <2>1, <3>1
    <3>3. next \in offered
      BY <2>1, <3>2 DEF ArrivedUpTo
    <3> QED  BY <3>3, AwaitedIsMissing
  <2> QED  BY <2>1, <2>2 DEF NoGap
<1> QED
  BY <1>1, <1>2, <1>3, NumbersStep, FlowInvariant, PTL DEF FlowSpec

(* So a network that in the end delivers what precedes a signal, and the   *)
(* signal itself, makes every undisturbed signal come out.                 *)
THEOREM DeliveredIsHandedOut ==
  FlowSpec /\ (\A s \in Offerable : s \in sent ~> ArrivedUpTo(s))
    => HandedOutWhenUndisturbed
<1>1. ASSUME NEW s \in Offerable
      PROVE  [](HandedOutOnArrival) /\ (s \in sent ~> ArrivedUpTo(s))
               => (s \in sent ~> s \in earlier \cup released)
  <2>1. HandedOutOnArrival /\ ArrivedUpTo(s) => s \in earlier \cup released
    BY DEF HandedOutOnArrival
  <2> QED  BY <2>1, PTL
<1>2. []HandedOutOnArrival /\ (\A s \in Offerable : s \in sent ~> ArrivedUpTo(s))
        => EverySignalHandedOut
  BY <1>1 DEF EverySignalHandedOut
<1> QED  BY <1>2, NothingWaitsUndisturbed, PTL DEF HandedOutWhenUndisturbed
=============================================================================
