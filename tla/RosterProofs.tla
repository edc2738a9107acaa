---------------------------- MODULE RosterProofs ----------------------------
(***************************************************************************)
(* What the operators of Roster return, for every set of participants and  *)
(* every envelope: the lemmas the proofs about RoomReplicas, RoomRecovery  *)
(* and CommandLine share.                                                  *)
(***************************************************************************)
EXTENDS Roster, FiniteSetTheorems, TLAPS

-----------------------------------------------------------------------------
(* Members *)

LEMMA LaterFacts ==
  ASSUME NEW a \in Nat, NEW b \in Nat
  PROVE  Later(a, b) \in {a, b} /\ Later(a, b) >= a /\ Later(a, b) >= b
  BY DEF Later

LEMMA LaterSeq == \A a, b \in Seqs : Later(a, b) \in Seqs
  BY U64Assumption DEF Later, Seqs

LEMMA SeqsAreNat == Seqs \subseteq Nat
  BY U64Assumption DEF Seqs

LEMMA NextAfterFacts ==
  ASSUME NEW s \in Seqs
  PROVE  NextAfter(s) \in Seqs /\ NextAfter(s) >= s
  BY U64Assumption DEF NextAfter, Seqs

LEMMA EnvelopeFields ==
  ASSUME NEW e \in Envelopes
  PROVE  /\ e.from \in Nodes /\ e.seq \in Seqs /\ e.sent_at \in Nat
         /\ e.kind \in Kinds
         /\ e.kind = "Join" => e.body \in Names \cup {NoName}
         /\ e.kind \in MediaKinds => e.body \in MediaValues
<1>1. "Join" \notin MediaKinds
  BY DEF MediaKinds
<1> QED BY <1>1 DEF Envelopes, BodiesOf

LEMMA MemberFields ==
  ASSUME NEW m \in Members
  PROVE  /\ m.present \in BOOLEAN
         /\ m.display_name \in Names \cup {NoName}
         /\ m.last_seq \in Seqs /\ m.last_seen \in Nat
         /\ m.value \in [MediaKinds -> MediaValues]
         /\ m.floor \in [MediaKinds -> Seqs]
  BY DEF Members

LEMMA BlankType == Blank \in Members
<1>1. 0 \in Seqs
  BY U64Assumption DEF Seqs
<1>2. [d \in MediaKinds |-> DefaultValue] \in [MediaKinds -> MediaValues]
  BY MediaAssumption
<1>3. [d \in MediaKinds |-> 0] \in [MediaKinds -> Seqs]
  BY <1>1
<1> QED BY <1>1, <1>2, <1>3 DEF Blank, Members

(* What the register makes of a member it meets.                           *)
LEMMA LwwMemberFacts ==
  ASSUME NEW m \in Members, NEW e \in Envelopes
  PROVE  LET k == LwwMember(m, e)
         IN  /\ k \in Members
             /\ k.last_seq = Later(m.last_seq, e.seq)
             /\ k.last_seen >= m.last_seen
             /\ k.value = m.value /\ k.floor = m.floor
             /\ e.seq > m.last_seq => (k.present <=> AssertsPresent(e))
             /\ e.seq = m.last_seq => (k.present <=> m.present /\ AssertsPresent(e))
             /\ e.seq < m.last_seq => (k.present <=> m.present)
             /\ e.seq >= m.last_seq => k.last_seen >= e.sent_at
<1> DEFINE newer == e.seq > m.last_seq
           tie == e.seq = m.last_seq
           present == \/ newer /\ AssertsPresent(e)
                      \/ ~newer /\ m.present /\ (tie => AssertsPresent(e))
           name == IF (newer \/ tie) /\ e.kind = "Join" /\ e.body # NoName
                   THEN e.body ELSE m.display_name
           seq == Later(m.last_seq, e.seq)
           seen == IF newer \/ tie THEN Later(m.last_seen, e.sent_at) ELSE m.last_seen
           k == LwwMember(m, e)
<1>1. /\ m.present \in BOOLEAN /\ m.display_name \in Names \cup {NoName}
      /\ m.last_seq \in Seqs /\ m.last_seen \in Nat
      /\ m.last_seq \in Nat /\ e.seq \in Nat /\ e.seq \in Seqs /\ e.sent_at \in Nat
      /\ e.kind = "Join" => e.body \in Names \cup {NoName}
  BY MemberFields, EnvelopeFields, SeqsAreNat
<1>2. present \in BOOLEAN /\ name \in Names \cup {NoName}
  BY <1>1
<1>3. seq \in Seqs /\ seen \in Nat /\ seen >= m.last_seen
  BY <1>1, LaterSeq, LaterFacts
<1>4. newer \/ tie => seen >= e.sent_at
  BY <1>1, LaterFacts
<1>5. k = [m EXCEPT !.present = present, !.display_name = name,
                    !.last_seq = seq, !.last_seen = seen]
  BY DEF LwwMember
<1> HIDE DEF present, name, seq, seen, k
<1>6. /\ k \in Members
      /\ k.present = present /\ k.last_seq = seq /\ k.last_seen = seen
      /\ k.value = m.value /\ k.floor = m.floor
  BY <1>2, <1>3, <1>5 DEF Members
<1>7. newer => (present <=> AssertsPresent(e))
  BY DEF present
<1>8. tie => (present <=> m.present /\ AssertsPresent(e))
  BY <1>1 DEF present
<1>9. e.seq < m.last_seq => (present <=> m.present)
  BY <1>1 DEF present
<1>10. e.seq >= m.last_seq => newer \/ tie
  BY <1>1
<1> QED BY <1>3, <1>4, <1>6, <1>7, <1>8, <1>9, <1>10 DEF k, seq

LEMMA FirstPresenceFacts ==
  ASSUME NEW e \in Envelopes
  PROVE  LET k == FirstPresence(e)
         IN  /\ k \in Members /\ k.last_seq = e.seq /\ k.last_seen = e.sent_at
             /\ k.present <=> AssertsPresent(e)
             /\ k.value = Blank.value /\ k.floor = Blank.floor
<1> DEFINE present == AssertsPresent(e)
           name == IF e.kind = "Join" THEN e.body ELSE NoName
           k == FirstPresence(e)
<1>1. present \in BOOLEAN /\ name \in Names \cup {NoName}
      /\ e.seq \in Seqs /\ e.sent_at \in Nat
  BY EnvelopeFields DEF AssertsPresent
<1>2. k = [Blank EXCEPT !.present = present, !.display_name = name,
                        !.last_seq = e.seq, !.last_seen = e.sent_at]
  BY DEF FirstPresence
<1> HIDE DEF present, name, k
<1>3. /\ k \in Members /\ k.present = present /\ k.last_seq = e.seq
      /\ k.last_seen = e.sent_at /\ k.value = Blank.value /\ k.floor = Blank.floor
  BY <1>1, <1>2, BlankType DEF Members
<1> QED BY <1>3 DEF k, present

LEMMA UpdateMediaFacts ==
  ASSUME NEW m \in Members, NEW e \in Envelopes, e.kind \in MediaKinds
  PROVE  LET k == UpdateMedia(m, e)
         IN  /\ k \in Members
             /\ k.present = m.present /\ k.last_seq = m.last_seq
             /\ k.last_seen = m.last_seen
             /\ k.value = [m.value EXCEPT ![e.kind] = e.body]
             /\ k.floor = [m.floor EXCEPT ![e.kind] = NextAfter(e.seq)]
<1> DEFINE value == [m.value EXCEPT ![e.kind] = e.body]
           floor == [m.floor EXCEPT ![e.kind] = NextAfter(e.seq)]
           k == UpdateMedia(m, e)
<1>1. value \in [MediaKinds -> MediaValues]
  BY MemberFields, EnvelopeFields
<1>2. floor \in [MediaKinds -> Seqs]
  BY MemberFields, EnvelopeFields, NextAfterFacts
<1>3. k = [m EXCEPT !.value = value, !.floor = floor]
  BY DEF UpdateMedia, Members
<1> HIDE DEF value, floor, k
<1>4. /\ k \in Members /\ k.value = value /\ k.floor = floor
      /\ k.present = m.present /\ k.last_seq = m.last_seq /\ k.last_seen = m.last_seen
  BY <1>1, <1>2, <1>3 DEF Members
<1> QED BY <1>4 DEF k, value, floor

LEMMA SeenFacts ==
  ASSUME NEW m \in Members, NEW at \in Nat
  PROVE  LET k == [m EXCEPT !.last_seen = Later(@, at)]
         IN  /\ k \in Members
             /\ k.present = m.present /\ k.last_seq = m.last_seq
             /\ k.last_seen >= m.last_seen /\ k.last_seen >= at
             /\ k.value = m.value /\ k.floor = m.floor
<1>1. Later(m.last_seen, at) \in Nat /\ Later(m.last_seen, at) >= m.last_seen
      /\ Later(m.last_seen, at) >= at
  BY MemberFields, LaterFacts
<1> HIDE DEF Later
<1> QED BY <1>1 DEF Members

LEMMA MediaMemberFacts ==
  ASSUME NEW m \in Members, NEW e \in Envelopes, e.kind \in MediaKinds
  PROVE  LET k == MediaMember(m, e)
         IN  /\ k \in Members
             /\ k.present = m.present /\ k.last_seq = m.last_seq
             /\ k.last_seen >= m.last_seen
             /\ e.seq < m.floor[e.kind] => k.value = m.value /\ k.floor = m.floor
             /\ ~(e.seq < m.floor[e.kind]) =>
                  /\ k.value = [m.value EXCEPT ![e.kind] = e.body]
                  /\ k.floor = [m.floor EXCEPT ![e.kind] = NextAfter(e.seq)]
<1> DEFINE seen == [m EXCEPT !.last_seen = Later(@, e.sent_at)]
           k == MediaMember(m, e)
<1>1. e.sent_at \in Nat
  BY EnvelopeFields
<1>2. /\ seen \in Members
      /\ seen.present = m.present /\ seen.last_seq = m.last_seq
      /\ seen.last_seen >= m.last_seen
      /\ seen.value = m.value /\ seen.floor = m.floor
  BY <1>1, SeenFacts
<1>3. k = IF e.seq < m.floor[e.kind] THEN seen ELSE UpdateMedia(seen, e)
  BY DEF MediaMember
<1> HIDE DEF seen, k
<1>4. CASE e.seq < m.floor[e.kind]
  BY <1>2, <1>3, <1>4 DEF k
<1>5. CASE ~(e.seq < m.floor[e.kind])
  <2>1. k = UpdateMedia(seen, e)
    BY <1>3, <1>5
  <2>2. /\ k \in Members
        /\ k.present = seen.present /\ k.last_seq = seen.last_seq
        /\ k.last_seen = seen.last_seen
        /\ k.value = [seen.value EXCEPT ![e.kind] = e.body]
        /\ k.floor = [seen.floor EXCEPT ![e.kind] = NextAfter(e.seq)]
    BY <1>2, <2>1, UpdateMediaFacts
  <2> QED BY <1>2, <1>5, <2>2 DEF k
<1> QED BY <1>4, <1>5

LEMMA PlaceholderFacts ==
  ASSUME NEW e \in Envelopes, e.kind \in MediaKinds
  PROVE  LET k == Placeholder(e)
         IN  /\ k \in Members /\ ~k.present /\ k.last_seq = 0
             /\ k.value = [Blank.value EXCEPT ![e.kind] = e.body]
             /\ k.floor = [Blank.floor EXCEPT ![e.kind] = NextAfter(e.seq)]
<1> DEFINE seen == [Blank EXCEPT !.last_seen = e.sent_at]
<1>1. e.sent_at \in Nat
  BY EnvelopeFields
<1>2. /\ seen \in Members /\ seen.present = Blank.present
      /\ seen.last_seq = Blank.last_seq
      /\ seen.value = Blank.value /\ seen.floor = Blank.floor
  BY <1>1, BlankType DEF Members
<1>3. Placeholder(e) = UpdateMedia(seen, e)
  BY DEF Placeholder
<1>4. ~Blank.present /\ Blank.last_seq = 0
  BY DEF Blank
<1> HIDE DEF seen
<1> QED BY <1>2, <1>3, <1>4, UpdateMediaFacts

-----------------------------------------------------------------------------
(* Rooms *)

LEMMA RoomFields ==
  ASSUME NEW ro \in Rooms
  PROVE  /\ ro.known \subseteq Nodes
         /\ ro.members \in [Nodes -> Members]
         /\ ro.next_seq \in Seqs /\ ro.max_members \in Nat \ {0}
         /\ ro.ended \in BOOLEAN
  BY DEF Rooms

LEMMA PutFacts ==
  ASSUME NEW ro \in Rooms, NEW n \in Nodes, NEW m \in Members
  PROVE  LET p == Put(ro, n, m)
         IN  /\ p \in Rooms
             /\ p.known = ro.known \cup {n}
             /\ p.members[n] = m
             /\ \A k \in Nodes \ {n} : p.members[k] = ro.members[k]
             /\ p.next_seq = ro.next_seq /\ p.max_members = ro.max_members
<1> DEFINE known == ro.known \cup {n}
           members == [ro.members EXCEPT ![n] = m]
           p == Put(ro, n, m)
<1>1. /\ known \subseteq Nodes /\ members \in [Nodes -> Members]
      /\ members[n] = m /\ \A k \in Nodes \ {n} : members[k] = ro.members[k]
  BY RoomFields
<1>2. p = [ro EXCEPT !.known = known, !.members = members]
  BY DEF Put, Rooms
<1> HIDE DEF known, members, p
<1>3. /\ p \in Rooms /\ p.known = known /\ p.members = members
      /\ p.next_seq = ro.next_seq /\ p.max_members = ro.max_members
  BY <1>1, <1>2 DEF Rooms
<1> QED BY <1>1, <1>3 DEF p, known

LEMMA TouchFacts ==
  ASSUME NEW ro \in Rooms, NEW n \in Nodes, NEW at \in Nat
  PROVE  LET t == Touch(ro, n, at)
         IN  /\ t \in Rooms /\ t.known = ro.known
             /\ \A k \in Nodes \ {n} : t.members[k] = ro.members[k]
             /\ t.next_seq = ro.next_seq /\ t.max_members = ro.max_members
             /\ t.members[n].present = ro.members[n].present
             /\ t.members[n].last_seq = ro.members[n].last_seq
             /\ t.members[n].last_seen >= ro.members[n].last_seen
             /\ n \in ro.known => t.members[n].last_seen >= at
             /\ t.members[n].value = ro.members[n].value
             /\ t.members[n].floor = ro.members[n].floor
<1> DEFINE m == ro.members[n]
           seen == [m EXCEPT !.last_seen = Later(@, at)]
           members == [ro.members EXCEPT ![n] = seen]
           t == Touch(ro, n, at)
<1>0. m \in Members /\ m.last_seen \in Nat
  BY RoomFields, MemberFields
<1>1. CASE n \notin ro.known
  <2>1. t = ro
    BY <1>1 DEF Touch
  <2> HIDE DEF t
  <2> QED BY <1>0, <1>1, <2>1 DEF t
<1>2. CASE n \in ro.known
  <2>1. /\ seen \in Members
        /\ seen.present = m.present /\ seen.last_seq = m.last_seq
        /\ seen.last_seen >= m.last_seen /\ seen.last_seen >= at
        /\ seen.value = m.value /\ seen.floor = m.floor
    BY <1>0, SeenFacts
  <2>2. t = [ro EXCEPT !.members = members]
    BY <1>2, RoomFields DEF Touch, Rooms
  <2> HIDE DEF seen
  <2>3. /\ members \in [Nodes -> Members] /\ members[n] = seen
        /\ \A k \in Nodes \ {n} : members[k] = ro.members[k]
    BY <2>1, RoomFields
  <2> HIDE DEF members, t
  <2>4. /\ t \in Rooms /\ t.known = ro.known /\ t.members = members
        /\ t.next_seq = ro.next_seq /\ t.max_members = ro.max_members
    BY <2>2, <2>3 DEF Rooms
  <2> QED BY <2>1, <2>3, <2>4, <1>2 DEF t
<1> QED BY <1>1, <1>2

SamePresence(m, k) == m.present = k.present /\ m.last_seq = k.last_seq

SameMedia(m, k) == m.value = k.value /\ m.floor = k.floor

(* What every arm of apply has in common: it writes no member but the      *)
(* sender's, and adds the sender only to a free slot.                      *)
TouchesOnly(ro, after, n) ==
  /\ after \in Rooms
  /\ after.known \in {ro.known, ro.known \cup {n}}
  /\ after.known # ro.known => HasSlot(ro)
  /\ \A k \in Nodes \ {n} : after.members[k] = ro.members[k]
  /\ after.next_seq = ro.next_seq /\ after.max_members = ro.max_members

(* A presence assertion: the register of a known sender, or a first record.*)
AsPresence(ro, after, e) ==
  LET m == ro.members[e.from]
      k == after.members[e.from]
  IN  /\ e.from \in ro.known =>
           /\ after.known = ro.known
           /\ SamePresence(k, LwwMember(m, e))
           /\ SameMedia(k, m) /\ k.last_seen >= m.last_seen
      /\ e.from \in after.known \ ro.known =>
           SamePresence(k, FirstPresence(e)) /\ SameMedia(k, Blank)

LEMMA LwwRoom ==
  ASSUME NEW ro \in Rooms, NEW e \in Envelopes
  PROVE  TouchesOnly(ro, Lww(ro, e), e.from) /\ AsPresence(ro, Lww(ro, e), e)
<1> DEFINE m == ro.members[e.from]
           after == Lww(ro, e)
<1>0. e.from \in Nodes /\ m \in Members /\ ro.known \subseteq Nodes
  BY EnvelopeFields, RoomFields
<1>1. CASE e.from \in ro.known
  <2> DEFINE k == LwwMember(m, e)
  <2>1. after = Put(ro, e.from, k)
    BY <1>1 DEF Lww
  <2>2. k \in Members /\ k.last_seen >= m.last_seen /\ SameMedia(k, m)
    BY <1>0, LwwMemberFacts DEF SameMedia
  <2> HIDE DEF k, after
  <2>3. /\ after \in Rooms /\ after.known = ro.known \cup {e.from}
        /\ after.members[e.from] = k
        /\ \A q \in Nodes \ {e.from} : after.members[q] = ro.members[q]
        /\ after.next_seq = ro.next_seq /\ after.max_members = ro.max_members
    BY <1>0, <2>1, <2>2, PutFacts
  <2>4. after.known = ro.known
    BY <1>1, <2>3
  <2>5. SamePresence(after.members[e.from], LwwMember(m, e))
    BY <2>3 DEF SamePresence, k
  <2> QED
    BY <1>1, <2>2, <2>3, <2>4, <2>5 DEF TouchesOnly, AsPresence, after
<1>2. CASE e.from \notin ro.known /\ HasSlot(ro)
  <2> DEFINE k == FirstPresence(e)
  <2>1. after = Put(ro, e.from, k)
    BY <1>2 DEF Lww
  <2>2. k \in Members /\ SameMedia(k, Blank)
    BY FirstPresenceFacts DEF SameMedia
  <2> HIDE DEF k, after
  <2>3. /\ after \in Rooms /\ after.known = ro.known \cup {e.from}
        /\ after.members[e.from] = k
        /\ \A q \in Nodes \ {e.from} : after.members[q] = ro.members[q]
        /\ after.next_seq = ro.next_seq /\ after.max_members = ro.max_members
    BY <1>0, <2>1, <2>2, PutFacts
  <2>4. SamePresence(after.members[e.from], FirstPresence(e))
    BY <2>3 DEF SamePresence, k
  <2> QED
    BY <1>2, <2>2, <2>3, <2>4 DEF TouchesOnly, AsPresence, after
<1>3. CASE e.from \notin ro.known /\ ~HasSlot(ro)
  <2>1. after = ro
    BY <1>3 DEF Lww
  <2> QED BY <1>3, <2>1 DEF TouchesOnly, AsPresence
<1> QED BY <1>1, <1>2, <1>3

LEMMA KeepaliveRoom ==
  ASSUME NEW ro \in Rooms, NEW e \in Envelopes
  PROVE  TouchesOnly(ro, Keepalive(ro, e), e.from) /\ AsPresence(ro, Keepalive(ro, e), e)
<1> DEFINE lww == Lww(ro, e)
           after == Keepalive(ro, e)
<1>0. e.from \in Nodes /\ e.sent_at \in Nat /\ ro.members[e.from] \in Members
  BY EnvelopeFields, RoomFields
<1>1. TouchesOnly(ro, lww, e.from) /\ AsPresence(ro, lww, e)
  BY LwwRoom
<1>2. after = lww \/ after = Touch(lww, e.from, e.sent_at)
  BY DEF Keepalive
<1> HIDE DEF lww, after
<1>3. CASE after = lww
  BY <1>1, <1>3 DEF after
<1>4. CASE after = Touch(lww, e.from, e.sent_at)
  <2>1. lww \in Rooms
    BY <1>1 DEF TouchesOnly
  <2>2. /\ after \in Rooms /\ after.known = lww.known
        /\ \A k \in Nodes \ {e.from} : after.members[k] = lww.members[k]
        /\ after.next_seq = lww.next_seq /\ after.max_members = lww.max_members
        /\ after.members[e.from].present = lww.members[e.from].present
        /\ after.members[e.from].last_seq = lww.members[e.from].last_seq
        /\ after.members[e.from].last_seen >= lww.members[e.from].last_seen
        /\ after.members[e.from].value = lww.members[e.from].value
        /\ after.members[e.from].floor = lww.members[e.from].floor
    BY <1>0, <1>4, <2>1, TouchFacts
  <2>3. TouchesOnly(ro, after, e.from)
    BY <1>1, <2>2 DEF TouchesOnly
  <2>4. /\ ro.members[e.from].last_seen \in Nat /\ lww.members[e.from].last_seen \in Nat
        /\ after.members[e.from].last_seen \in Nat
    BY <1>0, <2>1, <2>2, RoomFields, MemberFields
  <2>5. AsPresence(ro, after, e)
    BY <1>1, <2>2, <2>4 DEF AsPresence, SamePresence, SameMedia
  <2> QED BY <2>3, <2>5 DEF after
<1> QED BY <1>2, <1>3, <1>4

LEMMA MediaRoom ==
  ASSUME NEW ro \in Rooms, NEW e \in Envelopes, e.kind \in MediaKinds
  PROVE  LET m == ro.members[e.from]
             after == MediaLww(ro, e)
             k == after.members[e.from]
         IN  /\ TouchesOnly(ro, after, e.from)
             /\ e.from \in ro.known =>
                  /\ after.known = ro.known
                  /\ k = MediaMember(m, e)
             /\ e.from \in after.known \ ro.known => k = Placeholder(e)
<1> DEFINE m == ro.members[e.from]
           after == MediaLww(ro, e)
<1>0. e.from \in Nodes /\ m \in Members /\ ro.known \subseteq Nodes
  BY EnvelopeFields, RoomFields
<1>1. CASE e.from \in ro.known
  <2>1. after = Put(ro, e.from, MediaMember(m, e))
    BY <1>1 DEF MediaLww
  <2>2. MediaMember(m, e) \in Members
    BY <1>0, MediaMemberFacts
  <2> HIDE DEF after
  <2>3. /\ after \in Rooms /\ after.known = ro.known \cup {e.from}
        /\ after.members[e.from] = MediaMember(m, e)
        /\ \A q \in Nodes \ {e.from} : after.members[q] = ro.members[q]
        /\ after.next_seq = ro.next_seq /\ after.max_members = ro.max_members
    BY <1>0, <2>1, <2>2, PutFacts
  <2> QED BY <1>1, <2>3 DEF TouchesOnly, after
<1>2. CASE e.from \notin ro.known /\ HasSlot(ro)
  <2>1. after = Put(ro, e.from, Placeholder(e))
    BY <1>2 DEF MediaLww
  <2>2. Placeholder(e) \in Members
    BY PlaceholderFacts
  <2> HIDE DEF after
  <2>3. /\ after \in Rooms /\ after.known = ro.known \cup {e.from}
        /\ after.members[e.from] = Placeholder(e)
        /\ \A q \in Nodes \ {e.from} : after.members[q] = ro.members[q]
        /\ after.next_seq = ro.next_seq /\ after.max_members = ro.max_members
    BY <1>0, <2>1, <2>2, PutFacts
  <2> QED BY <1>2, <2>3 DEF TouchesOnly, after
<1>3. CASE e.from \notin ro.known /\ ~HasSlot(ro)
  <2>1. after = ro
    BY <1>3 DEF MediaLww
  <2> QED BY <1>3, <2>1 DEF TouchesOnly
<1> QED BY <1>1, <1>2, <1>3

LEMMA ApplyArms ==
  ASSUME NEW ro, NEW e \in Envelopes
  PROVE  /\ e.kind \in Kinds
         /\ e.kind = "Keepalive" => Apply(ro, e) = Keepalive(ro, e)
         /\ e.kind \in {"Join", "Leave"} => Apply(ro, e) = Lww(ro, e)
         /\ e.kind \in MediaKinds => Apply(ro, e) = MediaLww(ro, e)
         /\ e.kind \in TransientKinds => Apply(ro, e) = Touch(ro, e.from, e.sent_at)
         /\ e.kind = "EndRoom" => Apply(ro, e) = [ro EXCEPT !.ended = TRUE]
         /\ e.kind \in {"Recording", DirectedKind} => Apply(ro, e) = ro
  BY EnvelopeFields DEF Apply, Kinds, PresenceKinds, MediaKinds, TransientKinds, DirectedKind

(* Everything else leaves known alone and changes at most last_seen.       *)
AsPassing(ro, after, e) ==
  LET m == ro.members[e.from]
      k == after.members[e.from]
  IN  /\ after.known = ro.known
      /\ SamePresence(k, m) /\ SameMedia(k, m) /\ k.last_seen >= m.last_seen

LEMMA ApplyFacts ==
  ASSUME NEW ro \in Rooms, NEW e \in Envelopes
  PROVE  LET after == Apply(ro, e)
         IN  /\ TouchesOnly(ro, after, e.from)
             /\ e.kind \in PresenceKinds => AsPresence(ro, after, e)
             /\ e.kind \notin PresenceKinds \cup MediaKinds => AsPassing(ro, after, e)
<1> DEFINE after == Apply(ro, e)
<1>0. /\ e.from \in Nodes /\ e.sent_at \in Nat
      /\ ro.members[e.from] \in Members /\ ro.members[e.from].last_seen \in Nat
  BY EnvelopeFields, RoomFields, MemberFields
<1>1. CASE e.kind = "Keepalive"
  BY <1>1, ApplyArms, KeepaliveRoom DEF PresenceKinds
<1>2. CASE e.kind \in {"Join", "Leave"}
  BY <1>2, ApplyArms, LwwRoom DEF PresenceKinds
<1>3. CASE e.kind \in MediaKinds
  <2>1. e.kind \notin PresenceKinds
    BY <1>3 DEF MediaKinds, PresenceKinds
  <2> QED BY <1>3, <2>1, ApplyArms, MediaRoom
<1>4. CASE e.kind \in TransientKinds
  <2>1. e.kind \notin PresenceKinds
    BY <1>4 DEF TransientKinds, PresenceKinds
  <2>2. after = Touch(ro, e.from, e.sent_at)
    BY <1>4, ApplyArms
  <2> HIDE DEF after
  <2>3. /\ after \in Rooms /\ after.known = ro.known
        /\ \A k \in Nodes \ {e.from} : after.members[k] = ro.members[k]
        /\ after.next_seq = ro.next_seq /\ after.max_members = ro.max_members
        /\ after.members[e.from].present = ro.members[e.from].present
        /\ after.members[e.from].last_seq = ro.members[e.from].last_seq
        /\ after.members[e.from].last_seen >= ro.members[e.from].last_seen
        /\ after.members[e.from].value = ro.members[e.from].value
        /\ after.members[e.from].floor = ro.members[e.from].floor
    BY <1>0, <2>2, TouchFacts
  <2>4. TouchesOnly(ro, after, e.from)
    BY <2>3 DEF TouchesOnly
  <2>5. AsPassing(ro, after, e)
    BY <2>3 DEF AsPassing, SamePresence, SameMedia
  <2> QED BY <2>1, <2>4, <2>5 DEF after
<1>5. CASE e.kind = "EndRoom"
  <2>1. e.kind \notin PresenceKinds
    BY <1>5 DEF PresenceKinds
  <2>2. after = [ro EXCEPT !.ended = TRUE]
    BY <1>5, ApplyArms
  <2> HIDE DEF after
  <2>3. /\ after \in Rooms /\ after.known = ro.known /\ after.members = ro.members
        /\ after.next_seq = ro.next_seq /\ after.max_members = ro.max_members
    BY <2>2 DEF Rooms
  <2> QED BY <1>0, <2>1, <2>3
    DEF TouchesOnly, AsPassing, SamePresence, SameMedia, after
<1>6. CASE e.kind \in {"Recording", DirectedKind}
  <2>1. e.kind \notin PresenceKinds
    BY <1>6 DEF PresenceKinds, DirectedKind
  <2>2. after = ro
    BY <1>6, ApplyArms
  <2> QED BY <1>0, <2>1, <2>2
    DEF TouchesOnly, AsPassing, SamePresence, SameMedia
<1>7. e.kind \in {"Keepalive", "Join", "Leave", "EndRoom", "Recording", DirectedKind}
        \cup MediaKinds \cup TransientKinds
  BY EnvelopeFields DEF Kinds, PresenceKinds
<1> QED BY <1>1, <1>2, <1>3, <1>4, <1>5, <1>6, <1>7

-----------------------------------------------------------------------------
(* New rooms and sweeps *)

LEMMA NewRoomFacts ==
  ASSUME NEW max \in Nat
  PROVE  LET ro == NewRoom(max)
         IN  /\ ro \in Rooms /\ ro.known = {}
             /\ \A n \in Nodes : ro.members[n] = Blank
<1>1. 0 \in Seqs /\ [n \in Nodes |-> Blank] \in [Nodes -> Members]
  BY BlankType, U64Assumption DEF Seqs
<1>2. (IF max = 0 THEN 1 ELSE max) \in Nat \ {0}
  OBVIOUS
<1> QED BY <1>1, <1>2 DEF NewRoom, Rooms

LEMMA PruneFacts ==
  ASSUME NEW ro \in Rooms, NEW now, NEW stale
  PROVE  LET p == PruneStale(ro, now, stale)
         IN  /\ p \in Rooms /\ p.known = ro.known /\ p.next_seq = ro.next_seq
             /\ p.max_members = ro.max_members
             /\ \A n \in Nodes :
                  /\ p.members[n].last_seq = ro.members[n].last_seq
                  /\ p.members[n].last_seen = ro.members[n].last_seen
                  /\ SameMedia(p.members[n], ro.members[n])
                  /\ p.members[n].floor = ro.members[n].floor
                  /\ p.members[n].present => ro.members[n].present
<1> DEFINE Swept(n) == IF n \in Stale(ro, now, stale)
                       THEN [ro.members[n] EXCEPT !.present = FALSE] ELSE ro.members[n]
           members == [n \in Nodes |-> Swept(n)]
           p == PruneStale(ro, now, stale)
<1>1. \A n \in Nodes : ro.members[n] \in Members
  BY RoomFields
<1>2. \A n \in Nodes :
        /\ Swept(n) \in Members
        /\ Swept(n).last_seq = ro.members[n].last_seq
        /\ Swept(n).last_seen = ro.members[n].last_seen
        /\ SameMedia(Swept(n), ro.members[n])
        /\ Swept(n).floor = ro.members[n].floor
        /\ Swept(n).present => ro.members[n].present
  BY <1>1 DEF Members, SameMedia
<1> HIDE DEF Swept
<1>3. members \in [Nodes -> Members] /\ \A n \in Nodes : members[n] = Swept(n)
  BY <1>2
<1>4. p = [ro EXCEPT !.members = members]
  BY RoomFields DEF PruneStale, Swept, Rooms
<1> HIDE DEF members, p
<1>5. /\ p \in Rooms /\ p.known = ro.known /\ p.next_seq = ro.next_seq
      /\ p.max_members = ro.max_members /\ p.members = members
  BY <1>3, <1>4 DEF Rooms
<1> QED BY <1>2, <1>3, <1>5 DEF p

\* A sweep turns absent only who was not seen for longer than stale.
LEMMA PruneDrops ==
  ASSUME NEW ro \in Rooms, NEW now, NEW stale, NEW n \in Nodes,
         ro.members[n].present, ~PruneStale(ro, now, stale).members[n].present
  PROVE  now > ro.members[n].last_seen + stale
<1> DEFINE members == [k \in Nodes |-> IF k \in Stale(ro, now, stale)
                         THEN [ro.members[k] EXCEPT !.present = FALSE] ELSE ro.members[k]]
<1>1. PruneStale(ro, now, stale).members = members
  BY RoomFields DEF PruneStale, Rooms
<1>2. members[n].present => FALSE
  BY <1>1
<1>3. n \in Stale(ro, now, stale)
  BY <1>2
<1> QED  BY <1>3 DEF Stale

\* A presence assertion leaves what the register makes of it, touched or not.
LEMMA PresenceArms ==
  ASSUME NEW ro, NEW e \in Envelopes, e.kind \in PresenceKinds
  PROVE  \/ Apply(ro, e) = Lww(ro, e)
         \/ Apply(ro, e) = Touch(Lww(ro, e), e.from, e.sent_at)
<1>1. CASE e.kind \in {"Join", "Leave"}
  BY <1>1, ApplyArms
<1>2. CASE e.kind = "Keepalive"
  <2>1. Apply(ro, e) = Keepalive(ro, e)
    BY <1>2, ApplyArms
  <2> QED  BY <2>1 DEF Keepalive
<1> QED  BY <1>1, <1>2 DEF PresenceKinds

LEMMA TouchedAt ==
  ASSUME NEW ro \in Rooms, NEW n \in ro.known, NEW at \in Nat
  PROVE  Touch(ro, n, at).members[n].last_seen >= at
<1>1. n \in Nodes
  BY RoomFields
<1> QED  BY <1>1, TouchFacts

\* The latest presence assertion, or one that ties with it, leaves its time.
LEMMA SeenByPresence ==
  ASSUME NEW ro \in Rooms, NEW e \in Envelopes, e.kind \in PresenceKinds,
         LET after == Apply(ro, e)
         IN  e.from \in after.known /\ e.seq >= after.members[e.from].last_seq
  PROVE  Apply(ro, e).members[e.from].last_seen >= e.sent_at
<1> DEFINE m == ro.members[e.from]
<1>0. /\ e.from \in Nodes /\ e.seq \in Nat /\ e.sent_at \in Nat
      /\ m \in Members /\ m.last_seq \in Nat /\ m.last_seen \in Nat
      /\ ro.members \in [Nodes -> Members]
  BY EnvelopeFields, RoomFields, MemberFields, SeqsAreNat
<1>1. CASE e.from \in ro.known
  <2> DEFINE k == LwwMember(m, e)
  <2>1. /\ k \in Members /\ k.last_seq = Later(m.last_seq, e.seq)
    BY <1>0, LwwMemberFacts
  <2>2. Lww(ro, e) = Put(ro, e.from, k)
    BY <1>1 DEF Lww
  <2>3. Lww(ro, e).members[e.from] = k /\ Lww(ro, e) \in Rooms /\ e.from \in Lww(ro, e).known
    BY <1>0, <2>1, <2>2, PutFacts
  <2>4. e.seq >= m.last_seq => k.last_seen >= e.sent_at
    BY <1>0, LwwMemberFacts
  <2> HIDE DEF k
  <2>5. CASE Apply(ro, e) = Lww(ro, e)
    BY <1>0, <2>1, <2>3, <2>4, <2>5, LaterFacts
  <2>6. CASE Apply(ro, e) = Touch(Lww(ro, e), e.from, e.sent_at)
    BY <1>0, <2>3, <2>6, TouchedAt
  <2> QED  BY <2>5, <2>6, PresenceArms
<1>2. CASE e.from \notin ro.known
  <2> DEFINE k == FirstPresence(e)
  <2>1. k \in Members /\ k.last_seen = e.sent_at
    BY FirstPresenceFacts
  <2>2. CASE ~HasSlot(ro)
    <3>1. Lww(ro, e) = ro
      BY <1>2, <2>2 DEF Lww
    <3>2. Apply(ro, e) = ro
      BY <1>2, <3>1, ApplyArms DEF PresenceKinds, Keepalive, Present
    <3> QED  BY <1>2, <3>2
  <2>3. CASE HasSlot(ro)
    <3>1. Lww(ro, e) = Put(ro, e.from, k)
      BY <1>2, <2>3 DEF Lww
    <3>2. Lww(ro, e).members[e.from] = k /\ Lww(ro, e) \in Rooms /\ e.from \in Lww(ro, e).known
      BY <1>0, <2>1, <3>1, PutFacts
    <3> HIDE DEF k
    <3>3. CASE Apply(ro, e) = Lww(ro, e)
      BY <1>0, <2>1, <3>2, <3>3
    <3>4. CASE Apply(ro, e) = Touch(Lww(ro, e), e.from, e.sent_at)
      BY <1>0, <3>2, <3>4, TouchedAt
    <3> QED  BY <3>3, <3>4, PresenceArms
  <2> QED  BY <2>2, <2>3
<1> QED  BY <1>1, <1>2
=============================================================================
