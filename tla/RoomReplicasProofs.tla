------------------------- MODULE RoomReplicasProofs -------------------------
(***************************************************************************)
(* For every set of participants, every cap and every bound: the rooms are *)
(* well typed, and each is the last word of what its replica heard.        *)
(***************************************************************************)
EXTENDS RoomReplicas, RosterProofs

-----------------------------------------------------------------------------
(* Types *)

LEMMA SendStep ==
  ASSUME TypeOK, NEW n \in Nodes, AllocateSeq(n)
  PROVE  /\ room' \in [Nodes -> Rooms]
         /\ room[n].next_seq \in Seqs
         /\ room'[n].next_seq = room[n].next_seq + 1
         /\ \A r \in Nodes : /\ room'[r].known = room[r].known
                             /\ room'[r].members = room[r].members
                             /\ room'[r].max_members = room[r].max_members
                             /\ r # n => room'[r].next_seq = room[r].next_seq
<1> DEFINE next == room[n].next_seq + 1
           ro == [room[n] EXCEPT !.next_seq = next]
<1>1. room \in [Nodes -> Rooms] /\ room[n] \in Rooms /\ room[n].next_seq \in Seqs
  BY RoomFields DEF TypeOK
<1>2. next \in Seqs
  <2>1. MaxSends[n] \in 0 .. U64Max
    BY SendsAssumption
  <2>2. room[n].next_seq < MaxSends[n]
    BY DEF AllocateSeq
  <2> QED BY <1>1, <2>1, <2>2, U64Assumption DEF Seqs
<1>3. room' = [room EXCEPT ![n] = ro]
  BY DEF AllocateSeq
<1> HIDE DEF next
<1>4. /\ ro \in Rooms /\ ro.known = room[n].known /\ ro.members = room[n].members
      /\ ro.max_members = room[n].max_members /\ ro.next_seq = next
  BY <1>1, <1>2 DEF Rooms
<1> HIDE DEF ro
<1> QED BY <1>1, <1>3, <1>4 DEF next

LEMMA SentEnvelope ==
  ASSUME TypeOK, NEW n \in Nodes, NEW kind \in SpokenKinds[n],
         NEW body \in BodiesOf(kind), NEW at \in Times
  PROVE  [from |-> n, seq |-> room[n].next_seq, sent_at |-> at,
          kind |-> kind, body |-> body] \in Envelopes
<1>1. room[n].next_seq \in Seqs
  BY RoomFields DEF TypeOK
<1>2. kind \in Kinds /\ at \in Nat
  <2>1. SpokenKinds[n] \subseteq Kinds
    BY KindsAssumption
  <2> QED BY <2>1, TimesAssumption
<1>3. body \in Payloads
  BY DEF BodiesOf, Payloads
<1> QED BY <1>1, <1>2, <1>3 DEF Envelopes

LEMMA ReceiveStep ==
  ASSUME TypeOK, NEW r \in Nodes, NEW e \in published, Receive(r, e)
  PROVE  /\ e \in Envelopes /\ e.from \in Nodes /\ room[r] \in Rooms
         /\ room'[r] = Apply(room[r], e)
         /\ heard'[r] = heard[r] \cup Absorbed(r, e)
         /\ shown'[r] = Tiles(shown[r], Effect(room[r], e), e.from)
         /\ \A q \in Nodes \ {r} : /\ room'[q] = room[q]
                                   /\ heard'[q] = heard[q]
                                   /\ shown'[q] = shown[q]
         /\ TouchesOnly(room[r], room'[r], e.from)
         /\ Absorbed(r, e) \subseteq {e}
<1>1. e \in Envelopes /\ e.from \in Nodes /\ room[r] \in Rooms
  BY EnvelopeFields DEF TypeOK
<1>2. /\ room' = [room EXCEPT ![r] = Apply(room[r], e)]
      /\ heard' = [heard EXCEPT ![r] = heard[r] \cup Absorbed(r, e)]
      /\ shown' = [shown EXCEPT ![r] = Tiles(shown[r], Effect(room[r], e), e.from)]
  BY DEF Receive, TypeOK
<1>3. TouchesOnly(room[r], Apply(room[r], e), e.from)
  BY <1>1, ApplyFacts
<1> QED BY <1>1, <1>2, <1>3 DEF TypeOK, Absorbed

LEMMA TypeInit == Init => TypeOK
<1>1. SUFFICES ASSUME Init PROVE TypeOK
  OBVIOUS
<1>2. ASSUME NEW max \in Nat PROVE NewRoom(max) \in Rooms
  <2>1. 0 \in Seqs /\ [n \in Nodes |-> Blank] \in [Nodes -> Members]
    BY BlankType, U64Assumption DEF Seqs
  <2>2. (IF max = 0 THEN 1 ELSE max) \in Nat \ {0}
    OBVIOUS
  <2> QED BY <2>1, <2>2 DEF NewRoom, Rooms
<1>3. room \in [Nodes -> Rooms]
  BY <1>1, <1>2, CapsAssumption DEF Init
<1> QED BY <1>1, <1>3 DEF Init, TypeOK

LEMMA TypeStep == TypeOK /\ [Next]_vars => TypeOK'
<1>1. SUFFICES ASSUME TypeOK, [Next]_vars PROVE TypeOK'
  OBVIOUS
<1>2. ASSUME NEW n \in Speakers, Send(n) PROVE TypeOK'
  <2>1. n \in Nodes
    BY SpeakersAssumption
  <2>2. room' \in [Nodes -> Rooms]
    BY <1>1, <1>2, <2>1, SendStep DEF Send
  <2>3. published' \subseteq Envelopes
    BY <1>1, <1>2, <2>1, SentEnvelope DEF Send, TypeOK
  <2> QED BY <1>1, <1>2, <2>2, <2>3 DEF Send, TypeOK
<1>3. ASSUME NEW n \in Speakers, SendFails(n) PROVE TypeOK'
  <2>1. n \in Nodes
    BY SpeakersAssumption
  <2>2. room' \in [Nodes -> Rooms]
    BY <1>1, <1>3, <2>1, SendStep DEF SendFails
  <2> QED BY <1>1, <1>3, <2>2 DEF SendFails, TypeOK
<1>4. ASSUME NEW r \in Nodes, NEW e \in published, Receive(r, e) PROVE TypeOK'
  <2>1. /\ e \in Envelopes /\ e.from \in Nodes
        /\ room'[r] \in Rooms /\ Absorbed(r, e) \subseteq {e}
    BY <1>1, <1>4, ReceiveStep DEF TouchesOnly
  <2>2. Tiles(shown[r], Effect(room[r], e), e.from) \in SUBSET Nodes
    BY <1>1, <2>1 DEF Tiles, TypeOK
  <2>3. room' \in [Nodes -> Rooms]
    BY <1>1, <1>4, <2>1 DEF Receive, TypeOK
  <2>4. heard' \in [Nodes -> SUBSET Envelopes]
    BY <1>1, <1>4, <2>1 DEF Receive, TypeOK
  <2>5. shown' \in [Nodes -> SUBSET Nodes]
    BY <1>1, <1>4, <2>2 DEF Receive, TypeOK
  <2> QED BY <1>1, <1>4, <2>3, <2>4, <2>5 DEF Receive, TypeOK
<1>5. CASE UNCHANGED vars
  BY <1>1, <1>5 DEF vars, TypeOK
<1> QED BY <1>1, <1>2, <1>3, <1>4, <1>5 DEF Next

(* Every room, envelope and tile has its type: no sequence number leaves   *)
(* u64, and a member's name and media are what a signal can carry.         *)
THEOREM TypeCorrect == Spec => []TypeOK
  BY TypeInit, TypeStep, PTL DEF Spec

-----------------------------------------------------------------------------
(* Presence *)

Said(set, n) == {e \in set : e.from = n /\ e.kind \in PresenceKinds}

(* The member m is the last word of what its node said.                    *)
Reflects(m, said) ==
  /\ \A e \in said : e.seq <= m.last_seq
  /\ m.last_seq > 0 \/ m.present => \E e \in said : e.seq = m.last_seq
  /\ m.present => \A e \in said : e.seq = m.last_seq => AssertsPresent(e)
  /\ m.last_seq > 0 /\ ~m.present =>
       \E e \in said : e.seq = m.last_seq /\ ~AssertsPresent(e)

LEMMA ReflectsSame ==
  ASSUME NEW m, NEW k, NEW said, Reflects(m, said), SamePresence(k, m)
  PROVE  Reflects(k, said)
  BY DEF Reflects, SamePresence

LEMMA ReflectsLww ==
  ASSUME NEW m \in Members, NEW e \in Envelopes, NEW said \in SUBSET Envelopes,
         Reflects(m, said)
  PROVE  Reflects(LwwMember(m, e), said \cup {e})
<1> DEFINE k == LwwMember(m, e)
           all == said \cup {e}
<1>1. /\ m.last_seq \in Nat /\ e.seq \in Nat /\ k.last_seq = Later(m.last_seq, e.seq)
      /\ \A f \in said : f.seq \in Nat
  BY MemberFields, EnvelopeFields, SeqsAreNat, LwwMemberFacts
<1>2. CASE e.seq > m.last_seq
  <2>1. k.last_seq = e.seq /\ (k.present <=> AssertsPresent(e))
    BY <1>1, <1>2, LwwMemberFacts DEF Later
  <2>2. \A f \in said : f.seq < e.seq
    BY <1>1, <1>2 DEF Reflects
  <2> HIDE DEF k
  <2> QED BY <1>1, <2>1, <2>2 DEF Reflects, k
<1>3. CASE e.seq = m.last_seq
  <2>1. k.last_seq = m.last_seq /\ (k.present <=> m.present /\ AssertsPresent(e))
    BY <1>1, <1>3, LwwMemberFacts DEF Later
  <2> HIDE DEF k
  <2> QED BY <1>1, <1>3, <2>1 DEF Reflects, k
<1>4. CASE e.seq < m.last_seq
  <2>1. k.last_seq = m.last_seq /\ (k.present <=> m.present)
    BY <1>1, <1>4, LwwMemberFacts DEF Later
  <2> HIDE DEF k
  <2> QED BY <1>1, <1>4, <2>1 DEF Reflects, k
<1> QED BY <1>1, <1>2, <1>3, <1>4

LEMMA ReflectsFirst ==
  ASSUME NEW e \in Envelopes
  PROVE  Reflects(FirstPresence(e), {e})
<1> DEFINE k == FirstPresence(e)
<1>1. k.last_seq = e.seq /\ (k.present <=> AssertsPresent(e)) /\ e.seq \in Nat
  BY FirstPresenceFacts, EnvelopeFields, SeqsAreNat
<1> HIDE DEF k
<1>2. Reflects(k, {e})
  BY <1>1 DEF Reflects
<1> QED BY <1>2 DEF k

(* A roster is the last word of a set of envelopes, all of known members.  *)
RosterReflects(ro, set) ==
  /\ \A e \in set : e.from \in ro.known
  /\ \A n \in ro.known : Reflects(ro.members[n], Said(set, n))

LEMMA ApplyReflects ==
  ASSUME NEW ro \in Rooms, NEW e \in Envelopes, NEW set \in SUBSET Envelopes,
         RosterReflects(ro, set)
  PROVE  LET after == Apply(ro, e)
             absorbed == IF e.kind \in PresenceKinds \cup MediaKinds /\ e.from \in after.known
                         THEN {e} ELSE {}
         IN  RosterReflects(after, set \cup absorbed)
<1> DEFINE after == Apply(ro, e)
           absorbed == IF e.kind \in PresenceKinds \cup MediaKinds /\ e.from \in after.known
                       THEN {e} ELSE {}
           all == set \cup absorbed
<1>0. /\ e.from \in Nodes /\ ro.known \subseteq Nodes
      /\ ro.members[e.from] \in Members
  BY EnvelopeFields, RoomFields
<1>1. /\ TouchesOnly(ro, after, e.from)
      /\ e.kind \in PresenceKinds => AsPresence(ro, after, e)
      /\ e.kind \notin PresenceKinds \cup MediaKinds => AsPassing(ro, after, e)
  BY ApplyFacts
<1>2. e.kind \in MediaKinds =>
        /\ e.from \in ro.known => after.members[e.from] = MediaMember(ro.members[e.from], e)
        /\ e.from \in after.known \ ro.known => after.members[e.from] = Placeholder(e)
  BY MediaRoom, ApplyArms
<1>3. e.kind \in MediaKinds => e.kind \notin PresenceKinds
  BY DEF MediaKinds, PresenceKinds
<1> HIDE DEF after
<1>4. \A f \in all : f.from \in after.known
  BY <1>1 DEF TouchesOnly, RosterReflects
<1>5. ASSUME NEW n \in after.known, n # e.from
      PROVE  Reflects(after.members[n], Said(all, n))
  <2>1. n \in ro.known /\ after.members[n] = ro.members[n]
    BY <1>0, <1>1, <1>5 DEF TouchesOnly
  <2>2. Said(all, n) = Said(set, n)
    BY <1>5 DEF Said
  <2> QED BY <2>1, <2>2 DEF RosterReflects
<1>6. ASSUME e.from \in after.known
      PROVE  Reflects(after.members[e.from], Said(all, e.from))
  <2> DEFINE n == e.from
             said == Said(set, n)
  <2>0. said \subseteq Envelopes /\ (n \notin ro.known => said = {})
    BY DEF Said, RosterReflects
  <2>1. CASE e.kind \in PresenceKinds
    <3>1. Said(all, n) = said \cup {e}
      BY <1>6, <2>1 DEF Said
    <3>2. CASE n \in ro.known
      <4>1. Reflects(LwwMember(ro.members[n], e), said \cup {e})
        BY <1>0, <2>0, <3>2, ReflectsLww DEF RosterReflects
      <4> QED BY <1>1, <2>1, <3>1, <3>2, <4>1, ReflectsSame DEF AsPresence
    <3>3. CASE n \notin ro.known
      <4>1. SamePresence(after.members[n], FirstPresence(e)) /\ Said(all, n) = {e}
        BY <1>1, <1>6, <2>0, <2>1, <3>1, <3>3 DEF AsPresence
      <4> QED BY <4>1, ReflectsFirst, ReflectsSame
    <3> QED BY <3>2, <3>3
  <2>2. CASE e.kind \in MediaKinds
    <3>1. Said(all, n) = said
      BY <1>3, <2>2 DEF Said
    <3>2. CASE n \in ro.known
      <4>1. SamePresence(after.members[n], ro.members[n])
        <5> DEFINE m == ro.members[n]
                   k == MediaMember(m, e)
        <5>1. k.present = m.present /\ k.last_seq = m.last_seq
          BY <1>0, <2>2, MediaMemberFacts
        <5>2. after.members[n] = k
          BY <1>2, <2>2, <3>2
        <5> HIDE DEF k
        <5> QED BY <5>1, <5>2 DEF SamePresence
      <4> QED BY <3>1, <3>2, <4>1, ReflectsSame DEF RosterReflects
    <3>3. CASE n \notin ro.known
      <4>1. ~after.members[n].present /\ after.members[n].last_seq = 0
        BY <1>2, <1>6, <2>2, <3>3, PlaceholderFacts
      <4> QED BY <2>0, <3>1, <3>3, <4>1 DEF Reflects
    <3> QED BY <3>2, <3>3
  <2>3. CASE e.kind \notin PresenceKinds \cup MediaKinds
    <3>1. Said(all, n) = said /\ n \in ro.known /\ SamePresence(after.members[n], ro.members[n])
      BY <1>1, <1>6, <2>3 DEF Said, AsPassing
    <3> QED BY <3>1, ReflectsSame DEF RosterReflects
  <2> QED BY <2>1, <2>2, <2>3
<1> QED BY <1>4, <1>5, <1>6 DEF RosterReflects, after

(* The inductive invariant: every roster is the last word of what its      *)
(* replica heard, and it heard only of members.                            *)
PresenceInv ==
  /\ TypeOK
  /\ \A r \in Nodes : RosterReflects(room[r], heard[r])

LEMMA PresenceInvInit == Init => PresenceInv
  BY TypeInit DEF Init, PresenceInv, RosterReflects, NewRoom

LEMMA PresenceInvStep == PresenceInv /\ [Next]_vars => PresenceInv'
<1>1. SUFFICES ASSUME PresenceInv, [Next]_vars PROVE PresenceInv'
  OBVIOUS
<1>2. TypeOK /\ TypeOK'
  BY <1>1, TypeStep DEF PresenceInv
<1>3. ASSUME NEW n \in Speakers, AllocateSeq(n), UNCHANGED heard
      PROVE  \A r \in Nodes : RosterReflects(room'[r], heard'[r])
  <2>1. \A r \in Nodes : room'[r].known = room[r].known /\ room'[r].members = room[r].members
    BY <1>2, <1>3, SpeakersAssumption, SendStep
  <2> QED BY <1>1, <1>3, <2>1 DEF PresenceInv, RosterReflects
<1>4. ASSUME NEW r \in Nodes, NEW e \in published, Receive(r, e)
      PROVE  \A q \in Nodes : RosterReflects(room'[q], heard'[q])
  <2>1. /\ e \in Envelopes /\ room[r] \in Rooms /\ heard[r] \in SUBSET Envelopes
        /\ room'[r] = Apply(room[r], e)
        /\ heard'[r] = heard[r] \cup Absorbed(r, e)
        /\ \A q \in Nodes \ {r} : room'[q] = room[q] /\ heard'[q] = heard[q]
    BY <1>2, <1>4, ReceiveStep DEF TypeOK
  <2>2. RosterReflects(room[r], heard[r])
    BY <1>1 DEF PresenceInv
  <2>3. RosterReflects(Apply(room[r], e), heard[r] \cup Absorbed(r, e))
    BY <2>1, <2>2, ApplyReflects DEF Absorbed
  <2> QED BY <1>1, <2>1, <2>3 DEF PresenceInv
<1>5. CASE UNCHANGED vars
  BY <1>1, <1>2, <1>5 DEF vars, PresenceInv
<1>6. \A r \in Nodes : RosterReflects(room'[r], heard'[r])
  BY <1>1, <1>3, <1>4, <1>5 DEF Next, Send, SendFails, PresenceInv
<1> QED BY <1>2, <1>6 DEF PresenceInv

LEMMA PresenceInvariant == Spec => []PresenceInv
  BY PresenceInvInit, PresenceInvStep, PTL DEF Spec

(* In whatever order and however often envelopes arrive, a member's        *)
(* presence is the last word of its node among what was heard.             *)
THEOREM RosterIsLastWord == Spec => []PresenceIsLastWord
<1>1. PresenceInv => PresenceIsLastWord
  BY DEF PresenceInv, RosterReflects, Reflects, PresenceIsLastWord, Assertions, Said
<1> QED BY <1>1, PresenceInvariant, PTL

(* Replicas that heard the same presence assertions of a member, one of    *)
(* them above seq 0, agree on its digest entry.                            *)
THEOREM ReplicasConverge == Spec => []Convergence
<1>1. PresenceInv => Convergence
  <2>1. SUFFICES ASSUME PresenceInv, NEW r \in Nodes, NEW q \in Nodes,
                        NEW n \in room[r].known \cap room[q].known,
                        Assertions(r, n) = Assertions(q, n),
                        NEW e \in Assertions(r, n), e.seq > 0
                 PROVE  Digest(room[r])[n] = Digest(room[q])[n]
    BY DEF Convergence
  <2> DEFINE said == Assertions(r, n)
             a == room[r].members[n]
             b == room[q].members[n]
  <2>2. /\ n \in Nodes /\ a \in Members /\ b \in Members
        /\ a.last_seq \in Nat /\ b.last_seq \in Nat
        /\ a.present \in BOOLEAN /\ b.present \in BOOLEAN
        /\ \A f \in said : f.seq \in Nat
    <3>1. room[r] \in Rooms /\ room[q] \in Rooms /\ heard[r] \subseteq Envelopes
      BY <2>1 DEF PresenceInv, TypeOK
    <3>2. n \in Nodes /\ a \in Members /\ b \in Members
      BY <3>1, RoomFields
    <3>3. \A f \in said : f \in Envelopes
      BY <3>1 DEF Assertions
    <3> QED BY <3>2, <3>3, MemberFields, EnvelopeFields, SeqsAreNat
  <2>3. Reflects(a, said) /\ Reflects(b, said)
    BY <2>1 DEF PresenceInv, RosterReflects, Said, Assertions
  <2> HIDE DEF a, b, said
  <2>4. e \in said /\ e.seq > 0
    BY <2>1 DEF said
  <2>5. a.last_seq > 0 /\ b.last_seq > 0
    BY <2>2, <2>3, <2>4 DEF Reflects
  <2>6. a.last_seq = b.last_seq
    <3>1. a.last_seq <= b.last_seq
      BY <2>3, <2>5 DEF Reflects
    <3>2. b.last_seq <= a.last_seq
      BY <2>3, <2>5 DEF Reflects
    <3> QED BY <2>2, <3>1, <3>2
  <2>7. a.present <=> b.present
    BY <2>2, <2>3, <2>5, <2>6 DEF Reflects
  <2>8. a.present = b.present
    BY <2>2, <2>7
  <2> QED BY <2>6, <2>8 DEF Digest, a, b
<1> QED BY <1>1, PresenceInvariant, PTL

-----------------------------------------------------------------------------
(* Sequence numbers, the cap and the registers *)

SeqInv == TypeOK /\ SeqNamesOneSignal

LEMMA SeqInvariant == Spec => []SeqInv
<1>1. Init => SeqInv
  BY TypeInit DEF Init, SeqInv, SeqNamesOneSignal
<1>2. SeqInv /\ [Next]_vars => SeqInv'
  <2>1. SUFFICES ASSUME SeqInv, [Next]_vars PROVE SeqInv'
    OBVIOUS
  <2>2. TypeOK /\ TypeOK'
    BY <2>1, TypeStep DEF SeqInv
  <2>3. /\ \A r \in Nodes : room[r].next_seq \in Nat
        /\ \A e \in published : e.from \in Nodes /\ e.seq \in Nat
    <3>1. \A r \in Nodes : room[r] \in Rooms
      BY <2>2 DEF TypeOK
    <3> QED BY <2>2, <3>1, RoomFields, EnvelopeFields, SeqsAreNat DEF TypeOK
  <2>4. ASSUME NEW n \in Speakers, Send(n) PROVE SeqNamesOneSignal'
    <3>1. PICK new : /\ new.from = n /\ new.seq = room[n].next_seq
                     /\ published' = published \cup {new}
      BY <2>4 DEF Send
    <3>2. /\ n \in Nodes
          /\ room'[n].next_seq = room[n].next_seq + 1
          /\ \A r \in Nodes : r # n => room'[r].next_seq = room[r].next_seq
      BY <2>2, <2>4, SpeakersAssumption, SendStep DEF Send
    <3>3. \A e \in published : e.from = n => e.seq < new.seq
      BY <2>1, <3>1 DEF SeqInv, SeqNamesOneSignal
    <3>4. \A e \in published' : e.seq < room'[e.from].next_seq
      BY <2>1, <2>3, <3>1, <3>2 DEF SeqInv, SeqNamesOneSignal
    <3>5. \A e, f \in published' : e.from = f.from /\ e.seq = f.seq => e = f
      BY <2>1, <2>3, <3>1, <3>3 DEF SeqInv, SeqNamesOneSignal
    <3> QED BY <3>4, <3>5 DEF SeqNamesOneSignal
  <2>5. ASSUME NEW n \in Speakers, SendFails(n) PROVE SeqNamesOneSignal'
    <3>1. /\ n \in Nodes
          /\ room'[n].next_seq = room[n].next_seq + 1
          /\ \A r \in Nodes : r # n => room'[r].next_seq = room[r].next_seq
      BY <2>2, <2>5, SpeakersAssumption, SendStep DEF SendFails
    <3>2. published' = published
      BY <2>5 DEF SendFails
    <3>3. \A e \in published' : e.seq < room'[e.from].next_seq
      BY <2>1, <2>3, <3>1, <3>2 DEF SeqInv, SeqNamesOneSignal
    <3> QED BY <2>1, <3>2, <3>3 DEF SeqInv, SeqNamesOneSignal
  <2>6. ASSUME NEW r \in Nodes, NEW e \in published, Receive(r, e)
        PROVE  SeqNamesOneSignal'
    <3>1. /\ room'[r].next_seq = room[r].next_seq
          /\ \A q \in Nodes \ {r} : room'[q] = room[q]
      BY <2>2, <2>6, ReceiveStep DEF TouchesOnly
    <3>2. published' = published
      BY <2>6 DEF Receive
    <3>3. \A f \in published' : f.seq < room'[f.from].next_seq
      BY <2>1, <2>3, <3>1, <3>2 DEF SeqInv, SeqNamesOneSignal
    <3> QED BY <2>1, <3>2, <3>3 DEF SeqInv, SeqNamesOneSignal
  <2>7. ASSUME UNCHANGED vars PROVE SeqNamesOneSignal'
    <3>1. room' = room /\ published' = published
      BY <2>7 DEF vars
    <3> QED BY <2>1, <3>1 DEF SeqInv, SeqNamesOneSignal
  <2>8. SeqNamesOneSignal'
    BY <2>1, <2>4, <2>5, <2>6, <2>7 DEF Next
  <2> QED BY <2>2, <2>8 DEF SeqInv
<1> QED BY <1>1, <1>2, PTL DEF Spec

(* next_outbound_seq never numbers two signals alike.                      *)
THEOREM SeqsAreUnique == Spec => []SeqNamesOneSignal
<1>1. SeqInv => SeqNamesOneSignal
  BY DEF SeqInv
<1> QED BY <1>1, SeqInvariant, PTL

(* The caps hold of every participant, and the rosters are finite.         *)
CapInv ==
  /\ TypeOK
  /\ \A r \in Nodes : IsFiniteSet(room[r].known)
  /\ RosterWithinCap

LEMMA AddWithinCap ==
  ASSUME NEW set, NEW x, IsFiniteSet(set), NEW max \in Nat, Cardinality(set) < max
  PROVE  IsFiniteSet(set \cup {x}) /\ Cardinality(set \cup {x}) <= max
<1>1. Cardinality(set) \in Nat
  BY FS_CardinalityType
<1>2. /\ IsFiniteSet(set \cup {x})
      /\ Cardinality(set \cup {x}) = IF x \in set THEN Cardinality(set) ELSE Cardinality(set) + 1
  BY FS_AddElement
<1> QED BY <1>1, <1>2

(* No flood of senders makes a roster outgrow its cap, as long as rosters  *)
(* change by hearing alone.                                                *)
THEOREM HearingStaysWithinCap == Spec => []RosterWithinCap
<1>1. Init => CapInv
  <2>1. SUFFICES ASSUME Init PROVE CapInv
    OBVIOUS
  <2>2. \A r \in Nodes : room[r].known = {} /\ room[r].max_members \in Nat
    BY <2>1, CapsAssumption DEF Init, NewRoom
  <2>3. IsFiniteSet({}) /\ Cardinality({}) = 0
    BY FS_EmptySet
  <2>4. \A r \in Nodes : Cardinality(room[r].known) <= room[r].max_members
    <3>1. SUFFICES ASSUME NEW r \in Nodes
                   PROVE  Cardinality(room[r].known) <= room[r].max_members
      OBVIOUS
    <3>2. room[r].known = {} /\ room[r].max_members \in Nat
      BY <2>2
    <3>3. Cardinality(room[r].known) = 0
      BY <2>3, <3>2
    <3> QED BY <3>2, <3>3
  <2> QED BY <2>1, <2>2, <2>3, <2>4, TypeInit DEF CapInv, RosterWithinCap
<1>2. CapInv /\ [Next]_vars => CapInv'
  <2>1. SUFFICES ASSUME CapInv, [Next]_vars PROVE CapInv'
    OBVIOUS
  <2>2. TypeOK /\ TypeOK'
    BY <2>1, TypeStep DEF CapInv
  <2> DEFINE Fits(ro) == IsFiniteSet(ro.known) /\ Cardinality(ro.known) <= ro.max_members
  <2>3. \A r \in Nodes : Fits(room[r])
    BY <2>1 DEF CapInv, RosterWithinCap
  <2>4. ASSUME NEW n \in Speakers, AllocateSeq(n)
        PROVE  \A r \in Nodes : Fits(room'[r])
    BY <2>2, <2>3, <2>4, SpeakersAssumption, SendStep
  <2>5. ASSUME NEW r \in Nodes, NEW e \in published, Receive(r, e)
        PROVE  \A q \in Nodes : Fits(room'[q])
    <3>1. /\ \A q \in Nodes \ {r} : room'[q] = room[q]
          /\ room[r] \in Rooms /\ TouchesOnly(room[r], room'[r], e.from)
      BY <2>2, <2>5, ReceiveStep
    <3>2. CASE room'[r].known = room[r].known
      BY <2>3, <3>1, <3>2 DEF TouchesOnly
    <3>3. CASE room'[r].known # room[r].known
      <4>1. /\ room'[r].known = room[r].known \cup {e.from}
            /\ room'[r].max_members = room[r].max_members
            /\ Cardinality(room[r].known) < room[r].max_members
        BY <3>1, <3>3 DEF TouchesOnly, HasSlot
      <4>2. IsFiniteSet(room[r].known) /\ room[r].max_members \in Nat
        BY <2>3, <3>1, RoomFields
      <4>3. Fits(room'[r])
        <5> DEFINE grown == room[r].known \cup {e.from}
                   max == room[r].max_members
        <5>1. IsFiniteSet(grown) /\ Cardinality(grown) <= max
          BY <4>1, <4>2, AddWithinCap
        <5>2. room'[r].known = grown /\ room'[r].max_members = max
          BY <4>1
        <5> HIDE DEF grown, max
        <5> QED BY <5>1, <5>2
      <4> QED BY <2>3, <3>1, <4>3
    <3> QED BY <3>2, <3>3
  <2>6. ASSUME UNCHANGED vars PROVE \A r \in Nodes : Fits(room'[r])
    BY <2>3, <2>6 DEF vars
  <2>7. \A r \in Nodes : Fits(room'[r])
    BY <2>1, <2>4, <2>5, <2>6 DEF Next, Send, SendFails
  <2> QED BY <2>2, <2>7 DEF CapInv, RosterWithinCap
<1>3. CapInv => RosterWithinCap
  BY DEF CapInv
<1> QED BY <1>1, <1>2, <1>3, PTL DEF Spec

-----------------------------------------------------------------------------

(* The registers of a member that a later version of it may not take back. *)
NotBehind(m, k) ==
  /\ m.last_seq <= k.last_seq
  /\ m.last_seen <= k.last_seen
  /\ \A d \in MediaKinds : m.floor[d] <= k.floor[d]

LEMMA SameIsNotBehind ==
  ASSUME NEW m \in Members, NEW k,
         k.last_seq >= m.last_seq, k.last_seen >= m.last_seen, k.floor = m.floor
  PROVE  NotBehind(m, k)
<1>1. m.last_seq \in Nat /\ m.last_seen \in Nat /\ \A d \in MediaKinds : m.floor[d] \in Nat
  BY MemberFields, SeqsAreNat
<1> QED BY <1>1 DEF NotBehind

LEMMA ApplyNeverGoesBack ==
  ASSUME NEW ro \in Rooms, NEW e \in Envelopes, NEW n \in ro.known
  PROVE  NotBehind(ro.members[n], Apply(ro, e).members[n])
<1> DEFINE after == Apply(ro, e)
           m == ro.members[n]
           k == after.members[n]
<1>0. /\ n \in Nodes /\ m \in Members /\ m.last_seq \in Nat /\ m.last_seen \in Nat
      /\ e.seq \in Nat /\ e.seq \in Seqs
      /\ m.floor \in [MediaKinds -> Seqs] /\ Seqs \subseteq Nat
  BY RoomFields, MemberFields, EnvelopeFields, SeqsAreNat
<1>1. /\ TouchesOnly(ro, after, e.from)
      /\ e.kind \in PresenceKinds => AsPresence(ro, after, e)
      /\ e.kind \notin PresenceKinds \cup MediaKinds => AsPassing(ro, after, e)
  BY ApplyFacts
<1>2. CASE n # e.from
  <2>1. k = m
    BY <1>0, <1>1, <1>2 DEF TouchesOnly
  <2> HIDE DEF k, m
  <2>2. NotBehind(m, k)
    BY <1>0, <2>1, SameIsNotBehind
  <2> QED BY <2>2 DEF m, k
<1>3. CASE n = e.from /\ e.kind \in PresenceKinds
  <2>1. k.last_seq = LwwMember(m, e).last_seq /\ k.floor = m.floor /\ k.last_seen >= m.last_seen
    BY <1>1, <1>3 DEF AsPresence, SamePresence, SameMedia
  <2>2. LwwMember(m, e).last_seq >= m.last_seq
    BY <1>0, LwwMemberFacts, LaterFacts
  <2> HIDE DEF k, m
  <2>3. NotBehind(m, k)
    BY <1>0, <2>1, <2>2, SameIsNotBehind
  <2> QED BY <2>3 DEF m, k
<1>4. CASE n = e.from /\ e.kind \in MediaKinds
  <2> DEFINE mm == MediaMember(m, e)
  <2>1. k = mm
    BY <1>4, MediaRoom, ApplyArms
  <2> HIDE DEF m, k
  <2>2. /\ k.last_seq = m.last_seq /\ k.last_seen >= m.last_seen
        /\ e.seq < m.floor[e.kind] => k.floor = m.floor
        /\ ~(e.seq < m.floor[e.kind]) => k.floor = [m.floor EXCEPT ![e.kind] = NextAfter(e.seq)]
    <3>1. /\ mm.last_seq = m.last_seq /\ mm.last_seen >= m.last_seen
          /\ e.seq < m.floor[e.kind] => mm.floor = m.floor
          /\ ~(e.seq < m.floor[e.kind]) =>
               mm.floor = [m.floor EXCEPT ![e.kind] = NextAfter(e.seq)]
      BY <1>0, <1>4, MediaMemberFacts
    <3> QED BY <2>1, <3>1
  <2> HIDE DEF mm
  <2>3. CASE e.seq < m.floor[e.kind]
    <3>1. NotBehind(m, k)
      BY <1>0, <2>2, <2>3, SameIsNotBehind
    <3> QED BY <3>1 DEF m, k
  <2>4. CASE ~(e.seq < m.floor[e.kind])
    <3>1. NextAfter(e.seq) \in Nat /\ NextAfter(e.seq) >= e.seq
      BY <1>0, NextAfterFacts
    <3>2. m.floor[e.kind] \in Nat /\ m.floor[e.kind] <= NextAfter(e.seq)
      <4>1. m.floor[e.kind] \in Nat
        BY <1>0, <1>4
      <4> QED BY <1>0, <2>4, <3>1, <4>1
    <3>3. ASSUME NEW d \in MediaKinds PROVE m.floor[d] <= k.floor[d]
      <4>1. CASE d = e.kind
        BY <1>0, <2>2, <2>4, <3>2, <4>1
      <4>2. CASE d # e.kind
        <5>1. k.floor[d] = m.floor[d] /\ m.floor[d] \in Nat
          BY <1>0, <2>2, <2>4, <4>2
        <5> QED BY <5>1
      <4> QED BY <4>1, <4>2
    <3>4. NotBehind(m, k)
      BY <1>0, <2>2, <3>3 DEF NotBehind
    <3> QED BY <3>4 DEF m, k
  <2> QED BY <2>3, <2>4
<1>5. CASE n = e.from /\ e.kind \notin PresenceKinds \cup MediaKinds
  <2>1. k.last_seq = m.last_seq /\ k.floor = m.floor /\ k.last_seen >= m.last_seen
    BY <1>1, <1>5 DEF AsPassing, SamePresence, SameMedia
  <2> HIDE DEF k, m
  <2>2. NotBehind(m, k)
    BY <1>0, <2>1, SameIsNotBehind
  <2> QED BY <2>2 DEF m, k
<1> QED BY <1>2, <1>3, <1>4, <1>5

(* Whatever arrives, no register of a roster moves back and no member is   *)
(* forgotten.                                                              *)
THEOREM RegistersAdvance == Spec => RegistersOnlyAdvance
<1> DEFINE Advances(a, b) ==
             /\ a.known \subseteq b.known
             /\ a.next_seq <= b.next_seq
             /\ \A n \in a.known : NotBehind(a.members[n], b.members[n])
<1>1. ASSUME NEW ro \in Rooms, NEW later,
             later.known = ro.known, later.members = ro.members,
             later.next_seq >= ro.next_seq
      PROVE  Advances(ro, later)
  <2>1. ro.next_seq \in Nat /\ \A n \in ro.known : ro.members[n] \in Members
    BY RoomFields, SeqsAreNat
  <2>2. \A n \in ro.known : NotBehind(ro.members[n], ro.members[n])
    <3>1. SUFFICES ASSUME NEW n \in ro.known PROVE NotBehind(ro.members[n], ro.members[n])
      OBVIOUS
    <3>2. ro.members[n].last_seq \in Nat /\ ro.members[n].last_seen \in Nat
      BY <2>1, MemberFields, SeqsAreNat
    <3> QED BY <2>1, <3>2, SameIsNotBehind
  <2> QED BY <1>1, <2>1, <2>2
<1>2. TypeOK /\ [Next]_vars => \A r \in Nodes : Advances(room[r], room'[r])
  <2>1. SUFFICES ASSUME TypeOK, [Next]_vars, NEW r \in Nodes
                 PROVE  Advances(room[r], room'[r])
    OBVIOUS
  <2> HIDE DEF Advances
  <2>2. room[r] \in Rooms /\ room[r].next_seq \in Nat
    BY <2>1, RoomFields, SeqsAreNat DEF TypeOK
  <2>3. ASSUME NEW n \in Speakers, AllocateSeq(n) PROVE Advances(room[r], room'[r])
    <3>1. /\ room'[r].known = room[r].known /\ room'[r].members = room[r].members
          /\ room'[r].next_seq >= room[r].next_seq
      BY <2>1, <2>2, <2>3, SpeakersAssumption, SendStep
    <3> QED BY <1>1, <2>2, <3>1
  <2>4. ASSUME NEW q \in Nodes, NEW e \in published, Receive(q, e)
        PROVE  Advances(room[r], room'[r])
    <3>1. /\ e \in Envelopes /\ room'[q] = Apply(room[q], e)
          /\ TouchesOnly(room[q], room'[q], e.from)
          /\ q # r => room'[r] = room[r]
      BY <2>1, <2>4, ReceiveStep
    <3>2. CASE q = r
      <4>1. \A n \in room[r].known : NotBehind(room[r].members[n], room'[r].members[n])
        BY <2>2, <3>1, <3>2, ApplyNeverGoesBack
      <4> QED BY <2>2, <3>1, <3>2, <4>1 DEF Advances, TouchesOnly
    <3>3. CASE q # r
      BY <1>1, <2>2, <3>1, <3>3
    <3> QED BY <3>2, <3>3
  <2>5. CASE UNCHANGED vars
    <3>1. room'[r] = room[r]
      BY <2>5 DEF vars
    <3> QED BY <1>1, <2>2, <3>1
  <2> QED BY <2>1, <2>3, <2>4, <2>5 DEF Next, Send, SendFails
<1> QED BY <1>2, TypeCorrect, PTL DEF Spec, RegistersOnlyAdvance, NotBehind

-----------------------------------------------------------------------------
(* Effects and keepalives *)

LEMMA LwwEffectFacts ==
  ASSUME NEW ro \in Rooms, NEW e \in Envelopes
  PROVE  LET after == Lww(ro, e)
             n == e.from
             effect == LwwEffect(ro, e)
         IN  /\ effect \in {"Joined", "Left", "NoChange"}
             /\ effect = "Joined" => n \in Present(after)
             /\ effect = "Left" => n \notin Present(after)
             /\ effect = "NoChange" => (n \in Present(after) <=> n \in Present(ro))
             /\ effect # "NoChange" /\ n \in after.known =>
                  after.members[n].last_seen >= e.sent_at
<1> DEFINE after == Lww(ro, e)
           n == e.from
           m == ro.members[n]
           effect == LwwEffect(ro, e)
           asserts == AssertsPresent(e)
<1>0. /\ n \in Nodes /\ m \in Members /\ ro.known \subseteq Nodes
      /\ m.last_seq \in Nat /\ e.seq \in Nat /\ e.sent_at \in Nat
      /\ asserts \in BOOLEAN /\ m.present \in BOOLEAN
  <2>1. n \in Nodes /\ e.seq \in Nat /\ e.sent_at \in Nat
    BY EnvelopeFields, SeqsAreNat
  <2>2. m \in Members /\ ro.known \subseteq Nodes
    BY <2>1, RoomFields
  <2>3. m.last_seq \in Nat /\ m.present \in BOOLEAN
    BY <2>2, MemberFields, SeqsAreNat
  <2>4. asserts \in BOOLEAN
    BY DEF AssertsPresent
  <2> QED BY <2>1, <2>2, <2>3, <2>4
<1>1. CASE n \notin ro.known
  <2>1. effect = IF HasSlot(ro) /\ asserts THEN "Joined" ELSE "NoChange"
    BY <1>1 DEF LwwEffect
  <2>2. CASE HasSlot(ro)
    <3> DEFINE k == FirstPresence(e)
    <3>1. k \in Members /\ (k.present <=> asserts) /\ k.last_seen = e.sent_at
      BY FirstPresenceFacts
    <3>2. after = Put(ro, n, k)
      BY <1>1, <2>2 DEF Lww
    <3> HIDE DEF k, after
    <3>3. after.known = ro.known \cup {n} /\ after.members[n] = k
      BY <1>0, <3>1, <3>2, PutFacts
    <3>4. n \in Present(after) <=> asserts
      BY <3>1, <3>3 DEF Present
    <3>5. n \notin Present(ro)
      BY <1>1 DEF Present
    <3> HIDE DEF effect, asserts
    <3> QED BY <1>0, <2>1, <2>2, <3>1, <3>3, <3>4, <3>5 DEF after, effect
  <2>3. CASE ~HasSlot(ro)
    <3>1. after = ro
      BY <1>1, <2>3 DEF Lww
    <3> QED BY <2>1, <2>3, <3>1
  <2> QED BY <2>2, <2>3
<1>2. CASE n \in ro.known
  <2> DEFINE k == LwwMember(m, e)
  <2>1. /\ k \in Members
        /\ e.seq > m.last_seq => (k.present <=> asserts)
        /\ e.seq = m.last_seq => (k.present <=> m.present /\ asserts)
        /\ e.seq < m.last_seq => (k.present <=> m.present)
        /\ e.seq >= m.last_seq => k.last_seen >= e.sent_at
    BY <1>0, LwwMemberFacts
  <2>2. after = Put(ro, n, k)
    BY <1>2 DEF Lww
  <2>3. /\ e.seq < m.last_seq => effect = "NoChange"
        /\ e.seq = m.last_seq =>
             effect = IF ~asserts /\ m.present THEN "Left" ELSE "NoChange"
        /\ e.seq > m.last_seq =>
             effect = IF asserts = m.present THEN "NoChange"
                      ELSE IF asserts THEN "Joined" ELSE "Left"
    BY <1>0, <1>2 DEF LwwEffect
  <2> HIDE DEF k, after
  <2>4. after.known = ro.known /\ after.members[n] = k
    <3>1. after.known = ro.known \cup {n} /\ after.members[n] = k
      BY <1>0, <2>1, <2>2, PutFacts
    <3> QED BY <1>2, <3>1
  <2>5. /\ n \in Present(after) <=> k.present
        /\ n \in Present(ro) <=> m.present
    BY <1>2, <2>4 DEF Present
  <2> HIDE DEF effect, asserts, m
  <2>6. CASE e.seq < m.last_seq
    BY <2>1, <2>3, <2>5, <2>6 DEF after, effect
  <2>7. CASE e.seq = m.last_seq
    BY <1>0, <2>1, <2>3, <2>4, <2>5, <2>7 DEF after, effect
  <2>8. CASE e.seq > m.last_seq
    BY <1>0, <2>1, <2>3, <2>4, <2>5, <2>8 DEF after, effect
  <2> QED BY <1>0, <2>6, <2>7, <2>8
<1> QED BY <1>1, <1>2

LEMMA EffectArms ==
  ASSUME NEW ro, NEW e \in Envelopes
  PROVE  /\ e.kind = "Keepalive" => Effect(ro, e) = KeepaliveEffect(ro, e)
         /\ e.kind \in {"Join", "Leave"} => Effect(ro, e) = LwwEffect(ro, e)
         /\ e.kind \in MediaKinds => Effect(ro, e) = MediaEffect(ro, e)
         /\ e.kind \notin PresenceKinds \cup MediaKinds => Effect(ro, e) \notin {"Joined", "Left"}
  BY EnvelopeFields
     DEF Effect, Kinds, PresenceKinds, MediaKinds, TransientKinds, DirectedKind

(* What an effect says of presence is what happened to it.                 *)
LEMMA EffectFacts ==
  ASSUME NEW ro \in Rooms, NEW e \in Envelopes
  PROVE  LET after == Apply(ro, e)
             n == e.from
             effect == Effect(ro, e)
         IN  /\ effect = "Joined" => n \in Present(after)
             /\ effect = "Left" => n \notin Present(after)
             /\ effect \notin {"Joined", "Left"} =>
                  (n \in Present(after) <=> n \in Present(ro))
<1> DEFINE after == Apply(ro, e)
           n == e.from
           effect == Effect(ro, e)
<1>0. /\ n \in Nodes /\ e.sent_at \in Nat /\ ro.members[n] \in Members
      /\ e.kind \in Kinds
  BY EnvelopeFields, RoomFields
<1>1. CASE e.kind \in {"Join", "Leave"}
  <2>1. after = Lww(ro, e) /\ effect = LwwEffect(ro, e)
    BY <1>1, ApplyArms, EffectArms
  <2> QED BY <2>1, LwwEffectFacts
<1>2. CASE e.kind = "Keepalive"
  <2> DEFINE lww == Lww(ro, e)
             le == LwwEffect(ro, e)
  <2>1. after = lww \/ after = Touch(lww, n, e.sent_at)
    BY <1>2, ApplyArms DEF Keepalive
  <2>2. effect = IF le = "NoChange" THEN "Refreshed" ELSE le
    BY <1>2, EffectArms DEF KeepaliveEffect
  <2>3. lww \in Rooms
    BY LwwRoom DEF TouchesOnly
  <2>4. /\ le \in {"Joined", "Left", "NoChange"}
        /\ le = "Joined" => n \in Present(lww)
        /\ le = "Left" => n \notin Present(lww)
        /\ le = "NoChange" => (n \in Present(lww) <=> n \in Present(ro))
    BY LwwEffectFacts
  <2> HIDE DEF lww, le, after, effect
  <2>5. n \in Present(after) <=> n \in Present(lww)
    <3>1. CASE after = lww
      BY <3>1
    <3>2. CASE after = Touch(lww, n, e.sent_at)
      <4>1. after.known = lww.known /\ after.members[n].present = lww.members[n].present
        BY <1>0, <2>3, <3>2, TouchFacts
      <4> QED BY <4>1 DEF Present
    <3> QED BY <2>1, <3>1, <3>2
  <2> QED BY <2>2, <2>4, <2>5 DEF after, effect
<1>3. CASE e.kind \in MediaKinds
  <2>1. effect \in {"MediaChanged", "NoChange"}
    BY <1>3, EffectArms DEF MediaEffect
  <2>2. n \in Present(after) <=> n \in Present(ro)
    <3>1. after = MediaLww(ro, e)
      BY <1>3, ApplyArms
    <3> HIDE DEF after
    <3>2. /\ TouchesOnly(ro, after, n)
          /\ n \in ro.known =>
               after.known = ro.known /\ after.members[n] = MediaMember(ro.members[n], e)
          /\ n \in after.known \ ro.known => after.members[n] = Placeholder(e)
      BY <1>3, <3>1, MediaRoom
    <3>3. CASE n \in ro.known
      <4>1. MediaMember(ro.members[n], e).present = ro.members[n].present
        BY <1>0, <1>3, MediaMemberFacts
      <4> QED BY <3>2, <3>3, <4>1 DEF Present
    <3>4. CASE n \notin ro.known
      <4>1. ~Placeholder(e).present
        BY <1>3, PlaceholderFacts
      <4> QED BY <3>2, <3>4, <4>1 DEF Present
    <3> QED BY <3>3, <3>4
  <2> QED BY <2>1, <2>2
<1>4. CASE e.kind \notin PresenceKinds \cup MediaKinds
  <2>1. effect \notin {"Joined", "Left"}
    BY <1>4, EffectArms
  <2>2. AsPassing(ro, after, e)
    BY <1>4, ApplyFacts
  <2> HIDE DEF after
  <2>3. n \in Present(after) <=> n \in Present(ro)
    BY <2>2 DEF AsPassing, SamePresence, Present
  <2> QED BY <2>1, <2>3 DEF after
<1> QED BY <1>1, <1>2, <1>3, <1>4 DEF PresenceKinds

TileInv == TypeOK /\ EffectsTrackPresence

LEMMA TileStep == TileInv /\ [Next]_vars => TileInv'
<1>1. SUFFICES ASSUME TileInv, [Next]_vars PROVE TileInv'
  OBVIOUS
<1>2. TypeOK /\ TypeOK' /\ \A r \in Nodes : shown[r] = Present(room[r])
  BY <1>1, TypeStep DEF TileInv, EffectsTrackPresence
<1>3. ASSUME NEW n \in Speakers, AllocateSeq(n), UNCHANGED shown
      PROVE  \A r \in Nodes : shown'[r] = Present(room'[r])
  <2>1. \A r \in Nodes : room'[r].known = room[r].known /\ room'[r].members = room[r].members
    BY <1>2, <1>3, SpeakersAssumption, SendStep
  <2> QED BY <1>2, <1>3, <2>1 DEF Present
<1>4. ASSUME NEW r \in Nodes, NEW e \in published, Receive(r, e)
      PROVE  \A q \in Nodes : shown'[q] = Present(room'[q])
  <2> DEFINE ro == room[r]
             after == Apply(ro, e)
             effect == Effect(ro, e)
             n == e.from
  <2>1. /\ e \in Envelopes /\ n \in Nodes /\ ro \in Rooms
        /\ room'[r] = after
        /\ shown'[r] = Tiles(shown[r], effect, n)
        /\ \A q \in Nodes \ {r} : room'[q] = room[q] /\ shown'[q] = shown[q]
    BY <1>2, <1>4, ReceiveStep
  <2>2. /\ effect = "Joined" => n \in Present(after)
        /\ effect = "Left" => n \notin Present(after)
        /\ effect \notin {"Joined", "Left"} => (n \in Present(after) <=> n \in Present(ro))
    BY <2>1, EffectFacts
  <2>3. TouchesOnly(ro, after, n)
    BY <2>1, ApplyFacts
  <2> HIDE DEF after, effect
  <2>4. \A k \in Nodes \ {n} : k \in Present(after) <=> k \in Present(ro)
    BY <2>3 DEF TouchesOnly, Present
  <2>5. Present(ro) \subseteq Nodes /\ Present(after) \subseteq Nodes
    BY <2>1, <2>3, RoomFields DEF Present, TouchesOnly
  <2>6. Present(after) = Tiles(Present(ro), effect, n)
    <3> HIDE DEF ro, n
    <3>1. CASE effect = "Joined"
      BY <2>1, <2>2, <2>4, <2>5, <3>1 DEF Tiles
    <3>2. CASE effect = "Left"
      BY <2>1, <2>2, <2>4, <2>5, <3>2 DEF Tiles
    <3>3. CASE effect \notin {"Joined", "Left"}
      BY <2>1, <2>2, <2>4, <2>5, <3>3 DEF Tiles
    <3> QED BY <3>1, <3>2, <3>3
  <2> QED BY <1>2, <2>1, <2>6
<1>5. ASSUME UNCHANGED vars PROVE \A r \in Nodes : shown'[r] = Present(room'[r])
  BY <1>2, <1>5 DEF vars
<1>6. \A r \in Nodes : shown'[r] = Present(room'[r])
  BY <1>1, <1>3, <1>4, <1>5 DEF Next, Send, SendFails
<1> QED BY <1>2, <1>6 DEF TileInv, EffectsTrackPresence

(* An application that follows the effects shows exactly who is present.   *)
THEOREM TilesFollowEffects == Spec => []EffectsTrackPresence
<1>1. Init => TileInv
  <2>1. SUFFICES ASSUME Init PROVE EffectsTrackPresence
    BY TypeInit DEF TileInv
  <2> QED BY <2>1 DEF Init, EffectsTrackPresence, Present, NewRoom
<1>2. TileInv => EffectsTrackPresence
  BY DEF TileInv
<1> QED BY <1>1, TileStep, <1>2, PTL DEF Spec

(* Whatever keepalive may still arrive, processing it leaves its sender    *)
(* absent, or seen no earlier than the keepalive was sent.                 *)
THEOREM KeepalivesCount == Spec => []EveryKeepaliveCounts
<1>1. TypeOK => EveryKeepaliveCounts
  <2>1. SUFFICES ASSUME TypeOK, NEW r \in Nodes, NEW e \in published,
                        e.kind = "Keepalive", e.from \in Present(Apply(room[r], e))
                 PROVE  e.sent_at <= Apply(room[r], e).members[e.from].last_seen
    BY DEF EveryKeepaliveCounts
  <2> DEFINE ro == room[r]
             n == e.from
             lww == Lww(ro, e)
             after == Apply(ro, e)
             effect == LwwEffect(ro, e)
  <2>2. e \in Envelopes /\ ro \in Rooms /\ n \in Nodes /\ e.sent_at \in Nat
    BY <2>1, EnvelopeFields DEF TypeOK
  <2>3. after = IF effect = "NoChange" /\ n \in Present(lww)
                THEN Touch(lww, n, e.sent_at) ELSE lww
    BY <2>1, <2>2, ApplyArms DEF Keepalive
  <2>4. lww \in Rooms
    BY <2>2, LwwRoom DEF TouchesOnly
  <2>5. effect # "NoChange" /\ n \in lww.known => lww.members[n].last_seen >= e.sent_at
    BY <2>2, LwwEffectFacts
  <2>6. lww.members[n].last_seen \in Nat
    BY <2>2, <2>4, RoomFields, MemberFields
  <2>7. n \in Present(after)
    BY <2>1
  <2> HIDE DEF ro, lww, effect, after, n
  <2>8. e.sent_at <= after.members[n].last_seen
    <3>1. CASE effect = "NoChange" /\ n \in Present(lww)
      <4>1. n \in lww.known /\ after = Touch(lww, n, e.sent_at)
        BY <2>3, <3>1 DEF Present
      <4>2. after.members[n].last_seen >= e.sent_at /\ after \in Rooms
        BY <2>2, <2>4, <4>1, TouchFacts
      <4>3. after.members[n].last_seen \in Nat
        BY <2>2, <4>2, RoomFields, MemberFields
      <4> QED BY <2>2, <4>2, <4>3
    <3>2. CASE ~(effect = "NoChange" /\ n \in Present(lww))
      <4>1. after = lww /\ effect # "NoChange" /\ n \in lww.known
        BY <2>3, <2>7, <3>2 DEF Present
      <4> QED BY <2>2, <2>5, <2>6, <4>1
    <3> QED BY <3>1, <3>2
  <2> QED BY <2>8 DEF after, ro, n
<1> QED BY <1>1, TypeCorrect, PTL

-----------------------------------------------------------------------------
(* Media *)

SaidOn(set, n, d) == {e \in set : e.from = n /\ e.kind = d}

(* One dimension of a member is what the latest signal said of it.         *)
DimReflects(value, floor, said) ==
  /\ said = {} => floor = 0 /\ value = DefaultValue
  /\ said # {} => \E f \in said :
       IsLatest(f, said) /\ floor = NextAfter(f.seq) /\ value = f.body

MediaReflects(ro, set) ==
  \A n \in ro.known : \A d \in MediaKinds :
    DimReflects(ro.members[n].value[d], ro.members[n].floor[d], SaidOn(set, n, d))

(* The floor rejects what is not later than the latest signal heard, and   *)
(* accepts what is; at u64::MAX it accepts the latest one once more.       *)
LEMMA DimStep ==
  ASSUME NEW e \in Envelopes, NEW said \in SUBSET Envelopes,
         NEW value, NEW floor \in Seqs,
         DimReflects(value, floor, said)
  PROVE  /\ e.seq < floor => DimReflects(value, floor, said \cup {e})
         /\ ~(e.seq < floor) => DimReflects(e.body, NextAfter(e.seq), said \cup {e})
<1>0. e.seq \in Nat /\ e.seq <= U64Max /\ \A f \in said : f.seq \in Nat /\ f.seq <= U64Max
  BY EnvelopeFields, U64Assumption DEF Seqs
<1>1. CASE said = {}
  <2>1. floor = 0
    BY <1>1 DEF DimReflects
  <2>2. DimReflects(e.body, NextAfter(e.seq), {e})
    BY <1>0 DEF DimReflects, IsLatest
  <2> QED BY <1>0, <1>1, <2>1, <2>2
<1>2. CASE said # {}
  <2>1. PICK f \in said : /\ IsLatest(f, said)
                          /\ floor = NextAfter(f.seq) /\ value = f.body
    BY <1>2 DEF DimReflects
  <2>2. \A g \in said : g.seq <= f.seq
    BY <2>1 DEF IsLatest
  <2>3. f.seq \in Nat /\ f.seq <= U64Max /\ U64Max \in Nat
    BY <1>0, U64Assumption
  <2>4. ASSUME e.seq < floor PROVE DimReflects(value, floor, said \cup {e})
    <3>1. e.seq <= f.seq
      BY <1>0, <2>1, <2>3, <2>4 DEF NextAfter
    <3>2. IsLatest(f, said \cup {e})
      BY <2>2, <3>1 DEF IsLatest
    <3> QED BY <2>1, <3>2 DEF DimReflects
  <2>5. ASSUME ~(e.seq < floor)
        PROVE  DimReflects(e.body, NextAfter(e.seq), said \cup {e})
    <3>1. f.seq <= e.seq
      BY <1>0, <2>1, <2>3, <2>5 DEF NextAfter
    <3>2. \A g \in said : g.seq <= e.seq
      BY <1>0, <2>2, <2>3, <3>1
    <3>3. IsLatest(e, said \cup {e})
      BY <1>0, <3>2 DEF IsLatest
    <3> QED BY <3>3 DEF DimReflects
  <2> QED BY <2>4, <2>5
<1> QED BY <1>1, <1>2

LEMMA ApplyMedia ==
  ASSUME NEW ro \in Rooms, NEW e \in Envelopes, NEW set \in SUBSET Envelopes,
         \A f \in set : f.from \in ro.known,
         MediaReflects(ro, set)
  PROVE  LET after == Apply(ro, e)
             absorbed == IF e.kind \in PresenceKinds \cup MediaKinds /\ e.from \in after.known
                         THEN {e} ELSE {}
         IN  MediaReflects(after, set \cup absorbed)
<1> DEFINE after == Apply(ro, e)
           absorbed == IF e.kind \in PresenceKinds \cup MediaKinds /\ e.from \in after.known
                       THEN {e} ELSE {}
           all == set \cup absorbed
           m == ro.members[e.from]
           k == after.members[e.from]
<1>0. e.from \in Nodes /\ ro.known \subseteq Nodes /\ m \in Members
  BY EnvelopeFields, RoomFields
<1>1. /\ TouchesOnly(ro, after, e.from)
      /\ e.kind \in PresenceKinds => AsPresence(ro, after, e)
      /\ e.kind \notin PresenceKinds \cup MediaKinds => AsPassing(ro, after, e)
  BY ApplyFacts
<1>2. e.kind \in MediaKinds =>
        /\ e.from \in ro.known => k = MediaMember(m, e)
        /\ e.from \in after.known \ ro.known => k = Placeholder(e)
  BY MediaRoom, ApplyArms
<1>3. PresenceKinds \cap MediaKinds = {}
  BY DEF MediaKinds, PresenceKinds
<1>4. \A d \in MediaKinds : Blank.value[d] = DefaultValue /\ Blank.floor[d] = 0
  BY DEF Blank
<1> HIDE DEF after
<1>5. ASSUME NEW n \in after.known, NEW d \in MediaKinds, n # e.from
      PROVE  DimReflects(after.members[n].value[d], after.members[n].floor[d],
                         SaidOn(all, n, d))
  <2>1. n \in ro.known /\ after.members[n] = ro.members[n]
    BY <1>0, <1>1, <1>5 DEF TouchesOnly
  <2>2. SaidOn(all, n, d) = SaidOn(set, n, d)
    BY <1>5 DEF SaidOn
  <2> QED BY <2>1, <2>2 DEF MediaReflects
<1>6. ASSUME e.from \in after.known, NEW d \in MediaKinds
      PROVE  DimReflects(k.value[d], k.floor[d], SaidOn(all, e.from, d))
  <2> DEFINE n == e.from
             said == SaidOn(set, n, d)
  <2>1. CASE n \in ro.known
    <3>0. DimReflects(m.value[d], m.floor[d], said)
      BY <2>1 DEF MediaReflects
    <3>1. CASE e.kind = d
      <4>1. SaidOn(all, n, d) = said \cup {e}
        BY <1>6, <3>1 DEF SaidOn
      <4>2. k = MediaMember(m, e)
        BY <1>2, <2>1, <3>1
      <4>3. /\ e.seq < m.floor[d] => k.value = m.value /\ k.floor = m.floor
            /\ ~(e.seq < m.floor[d]) =>
                 k.value[d] = e.body /\ k.floor[d] = NextAfter(e.seq)
        <5> DEFINE mm == MediaMember(m, e)
        <5>1. /\ e.seq < m.floor[e.kind] => mm.value = m.value /\ mm.floor = m.floor
              /\ ~(e.seq < m.floor[e.kind]) =>
                   /\ mm.value = [m.value EXCEPT ![e.kind] = e.body]
                   /\ mm.floor = [m.floor EXCEPT ![e.kind] = NextAfter(e.seq)]
          BY <1>0, <3>1, MediaMemberFacts
        <5>2. m.value \in [MediaKinds -> MediaValues] /\ m.floor \in [MediaKinds -> Seqs]
          BY <1>0, MemberFields
        <5> HIDE DEF mm, m, k
        <5>3. k = mm
          BY <4>2 DEF mm
        <5> QED BY <3>1, <5>1, <5>2, <5>3
      <4>4. m.floor[d] \in Seqs /\ said \in SUBSET Envelopes
        BY <1>0, MemberFields DEF SaidOn
      <4>5. /\ e.seq < m.floor[d] => DimReflects(m.value[d], m.floor[d], said \cup {e})
            /\ ~(e.seq < m.floor[d]) => DimReflects(e.body, NextAfter(e.seq), said \cup {e})
        BY <3>0, <4>4, DimStep
      <4> HIDE DEF m, k, said
      <4> QED BY <4>1, <4>3, <4>5
    <3>2. CASE e.kind # d
      <4>1. SaidOn(all, n, d) = said
        BY <3>2 DEF SaidOn
      <4>2. k.value[d] = m.value[d] /\ k.floor[d] = m.floor[d]
        <5>1. CASE e.kind \in MediaKinds
          <6> DEFINE mm == MediaMember(m, e)
          <6>1. /\ e.seq < m.floor[e.kind] => mm.value = m.value /\ mm.floor = m.floor
                /\ ~(e.seq < m.floor[e.kind]) =>
                     /\ mm.value = [m.value EXCEPT ![e.kind] = e.body]
                     /\ mm.floor = [m.floor EXCEPT ![e.kind] = NextAfter(e.seq)]
            BY <1>0, <5>1, MediaMemberFacts
          <6>2. m.value \in [MediaKinds -> MediaValues] /\ m.floor \in [MediaKinds -> Seqs]
            BY <1>0, MemberFields
          <6>3. k = mm
            BY <1>2, <2>1, <5>1
          <6> HIDE DEF mm, m, k
          <6> QED BY <3>2, <6>1, <6>2, <6>3
        <5>2. CASE e.kind \in PresenceKinds
          BY <1>1, <2>1, <5>2 DEF AsPresence, SameMedia
        <5>3. CASE e.kind \notin PresenceKinds \cup MediaKinds
          BY <1>1, <5>3 DEF AsPassing, SameMedia
        <5> QED BY <5>1, <5>2, <5>3
      <4> QED BY <3>0, <4>1, <4>2
    <3> QED BY <3>1, <3>2
  <2>2. CASE n \notin ro.known
    <3>0. said = {}
      BY <2>2 DEF SaidOn
    <3>1. CASE e.kind = d
      <4>1. SaidOn(all, n, d) = {e}
        BY <1>6, <3>0, <3>1 DEF SaidOn
      <4>2. k.value[d] = e.body /\ k.floor[d] = NextAfter(e.seq)
        <5> DEFINE new == Placeholder(e)
        <5>1. /\ new.value = [Blank.value EXCEPT ![e.kind] = e.body]
              /\ new.floor = [Blank.floor EXCEPT ![e.kind] = NextAfter(e.seq)]
          BY <3>1, PlaceholderFacts
        <5>2. k = new
          BY <1>2, <1>6, <2>2, <3>1
        <5>3. Blank.value \in [MediaKinds -> MediaValues] /\ Blank.floor \in [MediaKinds -> Seqs]
          BY BlankType, MemberFields
        <5> HIDE DEF new, k
        <5> QED BY <3>1, <5>1, <5>2, <5>3
      <4>3. e.seq \in Nat
        BY EnvelopeFields, SeqsAreNat
      <4>4. DimReflects(e.body, NextAfter(e.seq), {e})
        BY <4>3 DEF DimReflects, IsLatest
      <4> QED BY <4>1, <4>2, <4>4
    <3>2. CASE e.kind # d
      <4>1. SaidOn(all, n, d) = {}
        BY <3>0, <3>2 DEF SaidOn
      <4>2. k.value[d] = DefaultValue /\ k.floor[d] = 0
        <5>1. CASE e.kind \in MediaKinds
          <6> DEFINE new == Placeholder(e)
          <6>1. /\ new.value = [Blank.value EXCEPT ![e.kind] = e.body]
                /\ new.floor = [Blank.floor EXCEPT ![e.kind] = NextAfter(e.seq)]
            BY <5>1, PlaceholderFacts
          <6>2. k = new
            BY <1>2, <1>6, <2>2, <5>1
          <6>3. Blank.value \in [MediaKinds -> MediaValues] /\ Blank.floor \in [MediaKinds -> Seqs]
            BY BlankType, MemberFields
          <6> HIDE DEF new, k
          <6> QED BY <1>4, <3>2, <6>1, <6>2, <6>3
        <5>2. CASE e.kind \in PresenceKinds
          BY <1>1, <1>4, <1>6, <2>2, <5>2 DEF AsPresence, SameMedia
        <5>3. CASE e.kind \notin PresenceKinds \cup MediaKinds
          BY <1>1, <1>6, <2>2, <5>3 DEF AsPassing
        <5> QED BY <5>1, <5>2, <5>3
      <4> QED BY <4>1, <4>2 DEF DimReflects
    <3> QED BY <3>1, <3>2
  <2> QED BY <2>1, <2>2
<1>7. MediaReflects(after, all)
  BY <1>5, <1>6 DEF MediaReflects
<1> QED BY <1>7 DEF after

MediaInv ==
  \A r \in Nodes : heard[r] \subseteq published /\ MediaReflects(room[r], heard[r])

LEMMA MediaInvariant == Spec => []MediaInv
<1>1. Init => MediaInv
  BY DEF Init, MediaInv, MediaReflects, NewRoom
<1>2. PresenceInv /\ MediaInv /\ [Next]_vars => MediaInv'
  <2>1. SUFFICES ASSUME PresenceInv, MediaInv, [Next]_vars PROVE MediaInv'
    OBVIOUS
  <2>2. TypeOK
    BY <2>1 DEF PresenceInv
  <2> DEFINE Good(ro, hears, all) == hears \subseteq all /\ MediaReflects(ro, hears)
  <2>3. \A r \in Nodes : Good(room[r], heard[r], published)
    BY <2>1 DEF MediaInv
  <2>4. ASSUME NEW n \in Speakers, AllocateSeq(n), UNCHANGED heard,
               published \subseteq published'
        PROVE  \A r \in Nodes : Good(room'[r], heard'[r], published')
    <3>1. \A r \in Nodes : room'[r].known = room[r].known /\ room'[r].members = room[r].members
      BY <2>2, <2>4, SpeakersAssumption, SendStep
    <3> QED BY <2>3, <2>4, <3>1 DEF MediaReflects
  <2>5. ASSUME NEW r \in Nodes, NEW e \in published, Receive(r, e)
        PROVE  \A q \in Nodes : Good(room'[q], heard'[q], published')
    <3>1. /\ e \in Envelopes /\ room[r] \in Rooms /\ heard[r] \in SUBSET Envelopes
          /\ room'[r] = Apply(room[r], e)
          /\ heard'[r] = heard[r] \cup Absorbed(r, e)
          /\ Absorbed(r, e) \subseteq {e}
          /\ \A q \in Nodes \ {r} : room'[q] = room[q] /\ heard'[q] = heard[q]
      BY <2>2, <2>5, ReceiveStep DEF TypeOK
    <3>2. /\ \A f \in heard[r] : f.from \in room[r].known
          /\ MediaReflects(room[r], heard[r])
      BY <2>1, <2>3 DEF PresenceInv, RosterReflects
    <3>3. MediaReflects(Apply(room[r], e), heard[r] \cup Absorbed(r, e))
      BY <3>1, <3>2, ApplyMedia DEF Absorbed
    <3>4. published' = published
      BY <2>5 DEF Receive
    <3> QED BY <2>3, <3>1, <3>3, <3>4
  <2>6. ASSUME UNCHANGED vars
        PROVE  \A r \in Nodes : Good(room'[r], heard'[r], published')
    BY <2>3, <2>6 DEF vars
  <2>7. \A r \in Nodes : Good(room'[r], heard'[r], published')
    <3> HIDE DEF Good
    <3> QED BY <2>1, <2>4, <2>5, <2>6 DEF Next, Send, SendFails
  <2> QED BY <2>7 DEF MediaInv
<1> QED BY <1>1, <1>2, PresenceInvariant, PTL DEF Spec

(* Each media dimension of each member is what the latest signal heard for *)
(* it set, whatever else was heard in between.                             *)
THEOREM MediaAreLastWord == Spec => []MediaIsLastWord
<1>1. SeqInv /\ PresenceInv /\ MediaInv => MediaIsLastWord
  <2>1. SUFFICES ASSUME SeqInv, PresenceInv, MediaInv,
                        NEW r \in Nodes, NEW n \in room[r].known, NEW d \in MediaKinds
                 PROVE  LET m == room[r].members[n]
                            said == MediaHeard(r, n, d)
                        IN  /\ said = {} => m.floor[d] = 0 /\ m.value[d] = DefaultValue
                            /\ \A e \in said : IsLatest(e, said) =>
                                 m.floor[d] = NextAfter(e.seq) /\ m.value[d] = e.body
    BY DEF MediaIsLastWord
  <2> DEFINE m == room[r].members[n]
             said == MediaHeard(r, n, d)
  <2>2. DimReflects(m.value[d], m.floor[d], said)
    BY <2>1 DEF MediaInv, MediaReflects, MediaHeard, SaidOn
  <2>3. ASSUME NEW e \in said, NEW f \in said, IsLatest(e, said), IsLatest(f, said)
        PROVE  e = f
    <3>1. e \in published /\ f \in published /\ e.from = f.from
      BY <2>1 DEF MediaInv, MediaHeard
    <3>2. e.seq \in Nat /\ f.seq \in Nat
      BY <2>1, <3>1, EnvelopeFields, SeqsAreNat DEF PresenceInv, TypeOK
    <3>3. e.seq = f.seq
      BY <2>3, <3>2 DEF IsLatest
    <3> QED BY <2>1, <3>1, <3>3 DEF SeqInv, SeqNamesOneSignal
  <2> HIDE DEF m, said
  <2>4. /\ said = {} => m.floor[d] = 0 /\ m.value[d] = DefaultValue
        /\ \A e \in said : IsLatest(e, said) =>
             m.floor[d] = NextAfter(e.seq) /\ m.value[d] = e.body
    BY <2>2, <2>3 DEF DimReflects
  <2> QED BY <2>4 DEF m, said
<1> QED BY <1>1, SeqInvariant, PresenceInvariant, MediaInvariant, PTL
=============================================================================
