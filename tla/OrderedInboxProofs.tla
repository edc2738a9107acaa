------------------------- MODULE OrderedInboxProofs -------------------------
(***************************************************************************)
(* The reorder buffer is correct for every window, every set of sequence   *)
(* numbers and every order of offers and skips.  One inductive invariant,  *)
(* InboxInv, carries all the theorems: what was handed out lies below      *)
(* next, what is held above it, and both were offered.                     *)
(***************************************************************************)
EXTENDS OrderedInbox, FiniteSetTheorems, TLAPS

InboxInv ==
  /\ InboxTypeOK
  /\ ~started => next = 0
  /\ \A t \in buffer : t > next
  /\ \A t \in earlier \cup released : t < next
  /\ Ascending
  /\ \A s \in offered : s \in earlier \cup released \cup buffer \/ s < next
  /\ buffer \cup earlier \cup released \subseteq offered

-----------------------------------------------------------------------------

LEMMA Below ==
  ASSUME NEW a \in Nat, NEW b \in Nat
  PROVE  \A t : t \in a .. b - 1 <=> t \in Nat /\ a <= t /\ t < b
  OBVIOUS

LEMMA StartsBelow ==
  ASSUME NEW a \in Nat, NEW b \in Nat, a <= b, a # b
  PROVE  a \in a .. b - 1
  OBVIOUS

(* drain stops at a number that can be represented, so the saturation of   *)
(* next never shows, and returns exactly the numbers from floor to next.   *)
LEMMA DrainFacts ==
  ASSUME NEW floor \in Seqs, NEW anchored \in BOOLEAN,
         NEW held \in SUBSET Offerable,
         Drain(floor, anchored, held)
  PROVE  /\ next' \in floor .. U64Max
         /\ released' = floor .. next' - 1
         /\ released' \subseteq held
         /\ next' \notin held
         /\ buffer' = held \ released'
         /\ started' \in BOOLEAN
         /\ ~started' => ~anchored /\ next' = floor
         /\ earlier' = earlier \cup released
<1>1. PICK stop \in floor .. U64Max + 1 :
        /\ floor .. stop - 1 \subseteq held
        /\ stop \notin held
        /\ next' = IF stop > U64Max THEN U64Max ELSE stop
        /\ started' = (anchored \/ stop > floor)
        /\ buffer' = held \ (floor .. stop - 1)
        /\ released' = floor .. stop - 1
        /\ earlier' = earlier \cup released
  BY DEF Drain
<1>2. U64Max \notin held
  BY OfferableAssumption, InboxU64Assumption
<1>3. stop # U64Max + 1
  <2>1. SUFFICES ASSUME stop = U64Max + 1 PROVE FALSE
    OBVIOUS
  <2>2. U64Max \in floor .. stop - 1
    BY <2>1, InboxU64Assumption DEF Seqs
  <2> QED BY <2>2, <1>1, <1>2
<1>4. stop \in floor .. U64Max /\ next' = stop
  BY <1>1, <1>3, InboxU64Assumption DEF Seqs
<1>5. started' \in BOOLEAN /\ (~started' => ~anchored /\ ~(stop > floor))
  BY <1>1, Zenon
<1>6. ~started' => ~anchored /\ next' = floor
  BY <1>4, <1>5, InboxU64Assumption DEF Seqs
<1> QED BY <1>1, <1>4, <1>5, <1>6

(* A drain from a floor that is not behind next, of numbers held from that *)
(* floor on, keeps the invariant, whatever was forgotten below the floor.  *)
LEMMA DrainKeepsInv ==
  ASSUME InboxInv,
         NEW floor \in Seqs, NEW anchored \in BOOLEAN,
         NEW held \in SUBSET Offerable,
         floor >= next,
         ~anchored => floor = 0,
         offered \subseteq offered', offered' \subseteq Offerable,
         held \subseteq offered',
         \A t \in held : t >= floor,
         \A t \in offered' : t \in offered \cup held,
         \A t \in buffer : t \in held \/ t < floor,
         Drain(floor, anchored, held)
  PROVE  InboxInv'
<1>1. /\ next' \in floor .. U64Max
      /\ released' = floor .. next' - 1
      /\ released' \subseteq held
      /\ next' \notin held
      /\ buffer' = held \ released'
      /\ started' \in BOOLEAN
      /\ ~started' => ~anchored /\ next' = floor
      /\ earlier' = earlier \cup released
  BY DrainFacts
<1>2. /\ held \subseteq Nat /\ offered' \subseteq Nat
      /\ floor \in Nat /\ next \in Nat /\ next' \in Nat /\ next' >= floor
      /\ buffer \subseteq Nat /\ earlier \subseteq Nat /\ released \subseteq Nat
  BY <1>1, OfferableAssumption, InboxU64Assumption DEF InboxInv, InboxTypeOK, Seqs
<1>r. \A t : t \in released' <=> t \in Nat /\ floor <= t /\ t < next'
  BY <1>1, <1>2, Below
<1>3. InboxTypeOK'
  <2>1. next' \in Seqs
    BY <1>1, InboxU64Assumption DEF Seqs
  <2>2. buffer' \subseteq Offerable /\ released' \subseteq Offerable
    BY <1>1
  <2>3. earlier' \subseteq Offerable
    BY <1>1 DEF InboxInv, InboxTypeOK
  <2> QED BY <2>1, <2>2, <2>3, <1>1 DEF InboxTypeOK
<1>4. ~started' => next' = 0
  BY <1>1
<1>5. \A t \in buffer' : t > next'
  <2>1. SUFFICES ASSUME NEW t \in buffer' PROVE t > next'
    OBVIOUS
  <2>2. t \in held /\ t \notin released' /\ t # next'
    BY <1>1
  <2>3. t >= floor /\ t \in Nat
    BY <2>2, <1>2
  <2> QED BY <2>2, <2>3, <1>2, <1>r
<1>6. \A t \in earlier' : t < floor
  BY <1>1, <1>2 DEF InboxInv
<1>7. \A t \in released' : t \in Nat /\ t >= floor /\ t < next'
  BY <1>r, <1>2
<1>8. \A t \in earlier' \cup released' : t < next'
  <2>1. \A t \in earlier' : t \in Nat
    BY <1>1, <1>2
  <2> QED BY <2>1, <1>2, <1>6, <1>7
<1>9. Ascending'
  <2>1. \A t \in earlier' : t \in Nat
    BY <1>1, <1>2
  <2> QED BY <2>1, <1>2, <1>6, <1>7 DEF Ascending
<1>10. \A s \in offered' : s \in earlier' \cup released' \cup buffer' \/ s < next'
  <2>1. SUFFICES ASSUME NEW s \in offered'
                 PROVE  s \in earlier' \cup released' \cup buffer' \/ s < next'
    OBVIOUS
  <2>2. CASE s \in held
    BY <2>2, <1>1
  <2>3. CASE s \notin held
    <3>1. s \in offered /\ s \in Nat
      BY <2>3, <1>2
    <3>2. s \in earlier \cup released \cup buffer \/ s < next
      BY <3>1 DEF InboxInv
    <3>3. CASE s \in earlier \cup released
      BY <3>3, <1>1
    <3>4. CASE s \in buffer
      <4>1. s < floor
        BY <3>4, <2>3
      <4> QED BY <4>1, <3>1, <1>2
    <3>5. CASE s < next
      BY <3>5, <3>1, <1>2
    <3> QED BY <3>2, <3>3, <3>4, <3>5
  <2> QED BY <2>2, <2>3
<1>11. buffer' \cup earlier' \cup released' \subseteq offered'
  BY <1>1 DEF InboxInv
<1> QED BY <1>3, <1>4, <1>5, <1>8, <1>9, <1>10, <1>11 DEF InboxInv

(* What every call of offer and skip_to boils down to: nothing is returned *)
(* and nothing moves, or the buffer is drained from an admissible floor.   *)
Drains ==
  \E floor \in Seqs, anchored \in BOOLEAN, held \in SUBSET Offerable :
    /\ floor >= next
    /\ ~anchored => floor = 0
    /\ held \subseteq offered'
    /\ \A t \in held : t >= floor
    /\ \A t \in offered' : t \in offered \cup held
    /\ \A t \in buffer : t \in held \/ t < floor
    /\ Drain(floor, anchored, held)

LEMMA DrainsFrom ==
  ASSUME NEW floor \in Seqs, NEW held \in SUBSET Offerable,
         floor >= next,
         held \subseteq offered',
         \A t \in held : t >= floor,
         \A t \in offered' : t \in offered \cup held,
         \A t \in buffer : t \in held \/ t < floor,
         Drain(floor, TRUE, held)
  PROVE  Drains
<1>1. TRUE \in BOOLEAN
  OBVIOUS
<1> QED BY <1>1, Zenon DEF Drains

LEMMA StepDrainsOrReturns ==
  ASSUME InboxInv, InboxNext
  PROVE  /\ offered \subseteq offered' /\ offered' \subseteq Offerable
         /\ \/ Drains
            \/ /\ ReturnNothing
               /\ \A s \in offered' : s \in offered \/ s < next
<1> USE DEF Seqs
<1>0. /\ next \in Seqs /\ started \in BOOLEAN /\ buffer \subseteq offered
      /\ offered \subseteq Offerable /\ Offerable \subseteq Seqs
      /\ (~started => next = 0)
      /\ \A t \in buffer : t > next
  BY OfferableAssumption, InboxU64Assumption DEF InboxInv, InboxTypeOK
<1>1. ASSUME NEW s \in Offerable, Offer(s)
      PROVE  /\ offered \subseteq offered' /\ offered' \subseteq Offerable
             /\ \/ Drains
                \/ ReturnNothing /\ \A t \in offered' : t \in offered \/ t < next
  <2>1. offered' = offered \cup {s}
    BY <1>1 DEF Offer
  <2>2. CASE OfferBehind(s)
    BY <2>1, <2>2, <1>0 DEF OfferBehind
  <2>3. CASE OfferExpected(s)
    <3> DEFINE held == buffer \cup {s}
    <3>1. s = next
      BY <2>3, <1>0 DEF OfferExpected
    <3>2. Drain(next, TRUE, held)
      BY <2>3, <3>1 DEF OfferExpected
    <3>3. held \in SUBSET Offerable /\ \A t \in held : t >= next
      BY <3>1, <1>0
    <3>4. held \subseteq offered' /\ \A t \in offered' : t \in offered \cup held
      BY <2>1, <1>0
    <3>5. \A t \in buffer : t \in held
      OBVIOUS
    <3> HIDE DEF held
    <3>6. next >= next
      BY <1>0, InboxU64Assumption
    <3>7. Drains
      BY <3>2, <3>3, <3>4, <3>5, <3>6, <1>0, DrainsFrom
    <3> QED BY <3>7, <2>1, <1>0
  <2>4. CASE OfferAhead(s)
    <3> DEFINE held == buffer \cup {s}
    <3>1. s > next /\ held \in SUBSET Offerable /\ \A t \in held : t > next
      BY <2>4, <1>0 DEF OfferAhead
    <3>2. CASE Overfull(held, next)
      <4>1. PICK floor \in held : IsLeast(floor, held) /\ Drain(floor, TRUE, held)
        BY <2>4, <3>2 DEF OfferAhead, IsLeast
      <4>2. floor \in Seqs /\ floor >= next /\ \A t \in held : t >= floor
        BY <4>1, <3>1, <1>0 DEF IsLeast
      <4> HIDE DEF held
      <4>3. held = buffer \cup {s}
        BY DEF held
      <4> QED BY <4>1, <4>2, <4>3, <3>1, <2>1, <1>0 DEF Drains
    <3>3. CASE ~Overfull(held, next)
      <4>1. Drain(next, started, held)
        BY <2>4, <3>3 DEF OfferAhead
      <4> HIDE DEF held
      <4>2. held = buffer \cup {s} /\ \A t \in held : t >= next
        BY <3>1, <1>0 DEF held
      <4> QED BY <4>1, <4>2, <3>1, <2>1, <1>0 DEF Drains
    <3> QED BY <3>2, <3>3
  <2> QED BY <1>1, <2>2, <2>3, <2>4 DEF Offer
<1>2. ASSUME NEW s \in Seqs, SkipTo(s)
      PROVE  offered' = offered /\ Drains
  <2>1. offered' = offered
    BY <1>2 DEF SkipTo
  <2>2. CASE s > next \/ ~started
    <3> DEFINE held == {t \in buffer : t >= s}
    <3>1. Drain(s, TRUE, held)
      BY <1>2, <2>2 DEF SkipTo
    <3>2. s >= next
      BY <2>2, <1>0, InboxU64Assumption
    <3>3. held \in SUBSET Offerable /\ \A t \in held : t >= s
      BY <1>0
    <3>4. held \subseteq offered' /\ \A t \in offered' : t \in offered \cup held
      BY <2>1, <1>0
    <3>5. \A t \in buffer : t \in held \/ t < s
      BY <1>0, OfferableAssumption, InboxU64Assumption
    <3> HIDE DEF held
    <3>6. Drains
      BY <3>1, <3>2, <3>3, <3>4, <3>5, DrainsFrom
    <3> QED BY <3>6, <2>1
  <2>3. CASE ~(s > next \/ ~started)
    <3>1. Drain(next, started, buffer)
      BY <1>2, <2>3 DEF SkipTo
    <3> QED BY <3>1, <2>1, <1>0 DEF Drains
  <2> QED BY <2>2, <2>3
<1> QED BY <1>1, <1>2, <1>0 DEF InboxNext

LEMMA InboxInvInit == InboxInit => InboxInv
<1>1. SUFFICES ASSUME InboxInit PROVE InboxInv
  OBVIOUS
<1>2. next \in Seqs
  BY <1>1, InboxU64Assumption DEF InboxInit, Seqs
<1>3. started \in BOOLEAN
  BY <1>1, Zenon DEF InboxInit
<1>4. InboxTypeOK
  BY <1>1, <1>2, <1>3 DEF InboxInit, InboxTypeOK
<1> QED BY <1>1, <1>4 DEF InboxInit, InboxInv, Ascending

LEMMA InboxInvStep == InboxInv /\ [InboxNext]_inboxVars => InboxInv'
<1>1. SUFFICES ASSUME InboxInv, [InboxNext]_inboxVars PROVE InboxInv'
  OBVIOUS
<1>2. CASE InboxNext
  <2>1. offered \subseteq offered' /\ offered' \subseteq Offerable
    BY <1>1, <1>2, StepDrainsOrReturns
  <2>2. CASE Drains
    BY <1>1, <2>1, <2>2, DrainKeepsInv DEF Drains
  <2>3. CASE ReturnNothing /\ \A s \in offered' : s \in offered \/ s < next
    <3>1. InboxTypeOK'
      BY <1>1, <2>1, <2>3 DEF InboxInv, InboxTypeOK, ReturnNothing
    <3> QED BY <1>1, <2>1, <2>3, <3>1 DEF InboxInv, Ascending, ReturnNothing
  <2> QED BY <1>1, <1>2, <2>2, <2>3, StepDrainsOrReturns
<1>3. CASE UNCHANGED inboxVars
  BY <1>1, <1>3 DEF InboxInv, InboxTypeOK, Ascending, inboxVars
<1> QED BY <1>1, <1>2, <1>3

LEMMA InboxInvariant == InboxSpec => []InboxInv
  BY InboxInvInit, InboxInvStep, PTL DEF InboxSpec

-----------------------------------------------------------------------------

(* The variables of the buffer keep their types: next never leaves u64.    *)
THEOREM InboxTypeCorrect == InboxSpec => []InboxTypeOK
<1>1. InboxInv => InboxTypeOK
  BY DEF InboxInv
<1> QED BY <1>1, InboxInvariant, PTL

(* Over all calls of offer and skip_to, no signal is handed out after a    *)
(* later one or twice.                                                     *)
THEOREM HandsOutInOrder == InboxSpec => []Ascending
<1>1. InboxInv => Ascending
  BY DEF InboxInv
<1> QED BY <1>1, InboxInvariant, PTL

(* A signal that was offered is handed out, held, or behind the floor.     *)
THEOREM LosesNothingAhead == InboxSpec => []NothingLostAhead
<1>1. InboxInv => NothingLostAhead
  BY DEF InboxInv, NothingLostAhead
<1> QED BY <1>1, InboxInvariant, PTL

(* The reorder buffer implements the in-order stream: each of its calls is *)
(* a Take or a Skip of the abstract stream.                                *)
THEOREM InboxImplementsStream == InboxSpec => ImplementsStream
<1>1. InboxInit => Stream!StreamInit
  BY DEF InboxInit, Stream!StreamInit
<1>2. InboxInv /\ InboxInv' /\ [InboxNext]_inboxVars
        => [Stream!StreamNext]_(Stream!streamVars)
  <2>1. SUFFICES ASSUME InboxInv, InboxInv', [InboxNext]_inboxVars
                 PROVE  [Stream!StreamNext]_(Stream!streamVars)
    OBVIOUS
  <2>2. CASE UNCHANGED inboxVars
    BY <2>2 DEF inboxVars, Stream!streamVars
  <2>3. CASE InboxNext
    <3>1. earlier' = earlier \cup released
      BY <2>1, <2>3, StepDrainsOrReturns, DrainFacts DEF Drains, ReturnNothing
    <3>2. \A s, t \in released' : s .. t \subseteq released'
      <4>1. CASE Drains
        <5>1. PICK floor \in Seqs, anchored \in BOOLEAN, held \in SUBSET Offerable :
                Drain(floor, anchored, held)
          BY <4>1 DEF Drains
        <5>2. next' \in floor .. U64Max /\ released' = floor .. next' - 1
          BY <5>1, DrainFacts
        <5>3. floor \in Nat /\ next' \in Nat
          BY <5>2, InboxU64Assumption DEF Seqs
        <5>4. ASSUME NEW s \in released', NEW t \in released', NEW u \in s .. t
              PROVE  u \in released'
          <6>1. \A v : v \in released' <=> v \in Nat /\ floor <= v /\ v < next'
            BY <5>2, <5>3, Below
          <6>2. s \in Nat /\ t \in Nat /\ u \in Nat /\ s <= u /\ u <= t
            BY <6>1, <5>4
          <6> QED BY <6>1, <6>2, <5>3
        <5> QED BY <5>4
      <4>2. CASE ReturnNothing
        BY <4>2 DEF ReturnNothing
      <4> QED BY <4>1, <4>2, <2>1, <2>3, StepDrainsOrReturns
    <3>3. Stream!Release
      BY <3>1, <3>2, <2>1 DEF Stream!Release, InboxInv, Ascending
    <3>4. Stream!Take \/ Stream!Skip
      BY <3>3, <2>3 DEF InboxNext, Offer, SkipTo, Stream!Take, Stream!Skip
    <3> QED BY <3>4 DEF Stream!StreamNext
  <2> QED BY <2>1, <2>2, <2>3
<1> QED
  BY <1>1, <1>2, InboxInvariant, PTL DEF InboxSpec, ImplementsStream, Stream!StreamSpec
-----------------------------------------------------------------------------

LEMMA OfferableFinite == \A set \in SUBSET Offerable : IsFiniteSet(set)
<1>1. IsFiniteSet(0 .. U64Max - 1)
  BY InboxU64Assumption, FS_Interval
<1> QED BY <1>1, OfferableAssumption, FS_Subset

LEMMA SmallerStaysBelow ==
  ASSUME NEW set \in SUBSET Offerable, NEW part \in SUBSET set,
         Cardinality(set) < EffectiveWindow
  PROVE  Cardinality(part) < EffectiveWindow
<1>1. IsFiniteSet(set) /\ IsFiniteSet(part)
  BY OfferableFinite
<1>2. Cardinality(part) <= Cardinality(set)
  BY <1>1, FS_Subset
<1>3. Cardinality(part) \in Nat /\ Cardinality(set) \in Nat
  BY <1>1, FS_CardinalityType
<1>4. EffectiveWindow \in Nat
  BY WindowAssumption DEF EffectiveWindow
<1> QED BY <1>2, <1>3, <1>4

(* A full buffer that gives up a gap releases the least number it holds,   *)
(* so it holds no more than before the offer.                              *)
LEMMA AddThenRelease ==
  ASSUME NEW set \in SUBSET Offerable, NEW s \in Offerable, NEW t \in set \cup {s},
         Cardinality(set) < EffectiveWindow
  PROVE  Cardinality((set \cup {s}) \ {t}) < EffectiveWindow
<1>1. IsFiniteSet(set) /\ IsFiniteSet(set \cup {s})
  BY OfferableFinite
<1>2. Cardinality(set) \in Nat /\ Cardinality(set \cup {s}) \in Nat
  BY <1>1, FS_CardinalityType
<1>3. Cardinality(set \cup {s}) <= Cardinality(set) + 1
  BY <1>1, <1>2, FS_AddElement
<1>4. Cardinality((set \cup {s}) \ {t}) = Cardinality(set \cup {s}) - 1
  BY <1>1, FS_RemoveElement
<1>5. EffectiveWindow \in Nat
  BY WindowAssumption DEF EffectiveWindow
<1> QED BY <1>2, <1>3, <1>4, <1>5

LEMMA SizeStep ==
  ASSUME InboxInv, Cardinality(buffer) < EffectiveWindow, InboxNext
  PROVE  Cardinality(buffer') < EffectiveWindow
<1>0. /\ buffer \in SUBSET Offerable /\ next \in Seqs /\ started \in BOOLEAN
      /\ Offerable \subseteq Seqs /\ Seqs \subseteq Nat
      /\ ~started => next = 0
      /\ \A t \in buffer : t > next
  BY OfferableAssumption, InboxU64Assumption DEF InboxInv, InboxTypeOK, Seqs
<1>1. ASSUME NEW s \in Offerable, OfferBehind(s)
      PROVE  Cardinality(buffer') < EffectiveWindow
  BY <1>1 DEF OfferBehind, ReturnNothing
<1>2. ASSUME NEW s \in Offerable, OfferExpected(s)
      PROVE  Cardinality(buffer') < EffectiveWindow
  <2> DEFINE held == buffer \cup {s}
  <2>1. Drain(s, TRUE, held) /\ s \in Seqs /\ held \in SUBSET Offerable
    BY <1>2, <1>0 DEF OfferExpected
  <2> HIDE DEF held
  <2>2. /\ next' \in s .. U64Max /\ released' = s .. next' - 1
        /\ next' \notin held /\ buffer' = held \ released'
    BY <2>1, DrainFacts
  <2>3. s \in released'
    <3>1. s \in Nat /\ next' \in Nat /\ s <= next' /\ s # next'
      BY <2>2, <1>0, InboxU64Assumption DEF held
    <3>2. s \in s .. next' - 1
      BY <3>1, StartsBelow
    <3> QED BY <3>2, <2>2
  <2>4. buffer' \subseteq buffer
    BY <2>2, <2>3 DEF held
  <2> QED BY <2>4, <1>0, SmallerStaysBelow
<1>3. ASSUME NEW s \in Offerable, OfferAhead(s)
      PROVE  Cardinality(buffer') < EffectiveWindow
  <2> DEFINE held == buffer \cup {s}
  <2>1. held \in SUBSET Offerable /\ \A t \in held : t > next
    BY <1>3, <1>0 DEF OfferAhead
  <2>2. CASE Overfull(held, next)
    <3>1. PICK t \in held : IsLeast(t, held) /\ Drain(t, TRUE, held)
      BY <1>3, <2>2 DEF OfferAhead, IsLeast
    <3>2. t \in Seqs
      BY <2>1, <3>1, <1>0
    <3> HIDE DEF held
    <3>3. /\ next' \in t .. U64Max /\ released' = t .. next' - 1
          /\ next' \notin held /\ buffer' = held \ released'
      BY <2>1, <3>1, <3>2, DrainFacts
    <3>4. t \in released'
      <4>1. t \in Nat /\ next' \in Nat /\ t <= next' /\ t # next'
        BY <3>1, <3>2, <3>3, <1>0, InboxU64Assumption
      <4>2. t \in t .. next' - 1
        BY <4>1, StartsBelow
      <4> QED BY <4>2, <3>3
    <3>5. buffer' \subseteq held \ {t}
      BY <3>3, <3>4
    <3>6. Cardinality(held \ {t}) < EffectiveWindow
      BY <1>0, <3>1, AddThenRelease DEF held
    <3> QED BY <3>5, <3>6, <2>1, SmallerStaysBelow
  <2>3. CASE ~Overfull(held, next)
    <3>1. Drain(next, started, held)
      BY <1>3, <2>3 DEF OfferAhead
    <3>2. buffer' \subseteq held
      BY <3>1, <2>1, <1>0, DrainFacts
    <3>3. ~(Cardinality(held) >= EffectiveWindow)
      BY <2>1, <2>3 DEF Overfull
    <3>4. Cardinality(held) \in Nat /\ EffectiveWindow \in Nat
      BY <2>1, OfferableFinite, FS_CardinalityType, WindowAssumption DEF EffectiveWindow
    <3> HIDE DEF held
    <3>5. Cardinality(held) < EffectiveWindow
      BY <3>3, <3>4
    <3> QED BY <3>2, <3>5, <2>1, SmallerStaysBelow
  <2> QED BY <2>2, <2>3
<1>4. ASSUME NEW s \in Seqs, SkipTo(s)
      PROVE  Cardinality(buffer') < EffectiveWindow
  <2>1. buffer' \subseteq buffer
    <3>1. CASE s > next \/ ~started
      <4> DEFINE held == {t \in buffer : t >= s}
      <4>1. Drain(s, TRUE, held) /\ held \in SUBSET Offerable
        BY <1>4, <3>1, <1>0 DEF SkipTo
      <4>2. held \subseteq buffer
        OBVIOUS
      <4> HIDE DEF held
      <4> QED BY <4>1, <4>2, DrainFacts
    <3>2. CASE ~(s > next \/ ~started)
      <4>1. Drain(next, started, buffer)
        BY <1>4, <3>2 DEF SkipTo
      <4> QED BY <4>1, <1>0, DrainFacts
    <3> QED BY <3>1, <3>2
  <2> QED BY <2>1, <1>0, SmallerStaysBelow
<1> QED BY <1>1, <1>2, <1>3, <1>4 DEF InboxNext, Offer

(* The memory bound: whatever is offered, a call never returns with a      *)
(* window of signals held back, nor with one held at or below next.        *)
THEOREM BufferStaysBounded == InboxSpec => []BufferBounded
<1> DEFINE Inv == InboxInv /\ Cardinality(buffer) < EffectiveWindow
<1>1. InboxInit => Inv
  <2>1. SUFFICES ASSUME InboxInit PROVE Cardinality(buffer) < EffectiveWindow
    BY InboxInvInit
  <2>2. Cardinality(buffer) = 0
    BY <2>1, FS_EmptySet DEF InboxInit
  <2> QED BY <2>2, WindowAssumption DEF EffectiveWindow
<1>2. Inv /\ [InboxNext]_inboxVars => Inv'
  <2>1. SUFFICES ASSUME Inv, [InboxNext]_inboxVars PROVE Inv'
    OBVIOUS
  <2>2. InboxInv'
    BY <2>1, InboxInvStep
  <2>3. CASE InboxNext
    BY <2>1, <2>2, <2>3, SizeStep
  <2>4. CASE UNCHANGED inboxVars
    BY <2>1, <2>2, <2>4 DEF inboxVars
  <2> QED BY <2>1, <2>3, <2>4
<1>3. Inv => BufferBounded
  BY DEF InboxInv, BufferBounded
<1> QED BY <1>1, <1>2, <1>3, PTL DEF InboxSpec

(* Offering passes over a number that never came only if the buffer, with  *)
(* the offered number, holds a window: a short gap is always waited for.   *)
THEOREM GapsAreWaitedFor == InboxSpec => GapGivenUpOnlyWhenFull
<1> DEFINE Full == \A s \in Offerable :
             Offer(s) /\ (\E t \in next .. next' - 1 : t \notin offered')
               => Cardinality(buffer \cup {s}) >= EffectiveWindow
<1>1. InboxInv /\ [InboxNext]_inboxVars => [Full]_inboxVars
  <2>1. SUFFICES ASSUME InboxInv,
                        NEW s \in Offerable, Offer(s),
                        NEW t \in next .. next' - 1, t \notin offered'
                 PROVE  Cardinality(buffer \cup {s}) >= EffectiveWindow
    OBVIOUS
  <2>2. /\ buffer \in SUBSET Offerable /\ next \in Seqs /\ started \in BOOLEAN
        /\ Offerable \subseteq Seqs /\ Seqs \subseteq Nat
        /\ ~started => next = 0
    BY <2>1, OfferableAssumption, InboxU64Assumption DEF InboxInv, InboxTypeOK, Seqs
  <2> DEFINE held == buffer \cup {s}
  <2>3. held \subseteq offered' /\ held \in SUBSET Offerable
    BY <2>1, <2>2 DEF Offer, InboxInv
  <2>4. ASSUME NEW anchored \in BOOLEAN, Drain(next, anchored, held) PROVE FALSE
    <3> HIDE DEF held
    <3>1. released' = next .. next' - 1 /\ released' \subseteq held
      BY <2>2, <2>3, <2>4, DrainFacts
    <3> QED BY <3>1, <2>1, <2>3
  <2>5. ~OfferBehind(s)
    <3>1. SUFFICES ASSUME next' = next PROVE FALSE
      BY DEF OfferBehind, ReturnNothing
    <3>2. next \in Nat
      BY <2>2
    <3> QED BY <3>1, <3>2, <2>1
  <2>6. ~OfferExpected(s)
    <3>1. SUFFICES ASSUME OfferExpected(s) PROVE FALSE
      OBVIOUS
    <3>2. s = next
      BY <3>1, <2>2, InboxU64Assumption DEF OfferExpected
    <3>3. Drain(next, TRUE, held)
      BY <3>1, <3>2 DEF OfferExpected
    <3> HIDE DEF held
    <3> QED BY <3>3, <2>4
  <2>7. OfferAhead(s)
    BY <2>1, <2>5, <2>6 DEF Offer
  <2>8. Overfull(held, next)
    <3>1. SUFFICES ASSUME ~Overfull(held, next) PROVE FALSE
      OBVIOUS
    <3>2. Drain(next, started, held)
      BY <3>1, <2>7 DEF OfferAhead
    <3> HIDE DEF held
    <3> QED BY <3>2, <2>2, <2>4
  <2> QED BY <2>8 DEF Overfull
<1> QED BY <1>1, InboxInvariant, PTL DEF InboxSpec, GapGivenUpOnlyWhenFull
=============================================================================
