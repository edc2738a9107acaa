------------------------- MODULE RoomRecoveryProofs -------------------------
(***************************************************************************)
(* Sweeps, restarts and merges never bring back a member that left, and    *)
(* nothing but a restart takes a register back, for every set of           *)
(* participants, every cap and every bound.  What replicas that heard the  *)
(* same agree on, and what becomes of media, through all of these.         *)
(***************************************************************************)
EXTENDS RoomRecovery, RoomReplicasProofs

LEMMA SnapshotFields ==
  ASSUME NEW snap \in Snapshots
  PROVE  /\ snap.known \subseteq Nodes
         /\ snap.members \in [Nodes -> Members]
         /\ snap.next_seq \in Seqs
  BY DEF Snapshots

LEMMA SnapshotFacts ==
  ASSUME NEW ro \in Rooms
  PROVE  LET s == Snapshot(ro)
         IN  /\ s \in Snapshots /\ s.known = ro.known /\ s.members = ro.members
             /\ s.next_seq = ro.next_seq
  BY RoomFields DEF Snapshot, Snapshots

LEMMA RestoreFacts ==
  ASSUME NEW snap \in Snapshots
  PROVE  LET ro == Restore(snap)
         IN  ro \in Rooms /\ ro.known = snap.known /\ ro.members = snap.members
  BY SnapshotFields, CapAssumption DEF Restore, Rooms

LEMMA ResumeFacts ==
  ASSUME NEW ro \in Rooms, NEW lowest \in Seqs
  PROVE  LET p == ResumeOutboundFrom(ro, lowest)
         IN  /\ p \in Rooms /\ p.known = ro.known /\ p.members = ro.members
             /\ p.next_seq >= ro.next_seq /\ p.max_members = ro.max_members
<1> DEFINE next == Later(ro.next_seq, lowest)
           p == ResumeOutboundFrom(ro, lowest)
<1>1. next \in Seqs /\ next >= ro.next_seq
  BY RoomFields, SeqsAreNat, LaterSeq, LaterFacts
<1>2. p = [ro EXCEPT !.next_seq = next]
  BY DEF ResumeOutboundFrom, Rooms
<1> HIDE DEF next, p
<1>3. /\ p \in Rooms /\ p.known = ro.known /\ p.members = ro.members
      /\ p.next_seq = next /\ p.max_members = ro.max_members
  BY <1>1, <1>2 DEF Rooms
<1> QED BY <1>1, <1>3 DEF p

LEMMA MergeMemberFacts ==
  ASSUME NEW m \in Members, NEW om \in Members
  PROVE  LET k == MergeMember(m, om)
         IN  /\ k \in Members
             /\ k.last_seq = Later(m.last_seq, om.last_seq)
             /\ k.last_seen >= m.last_seen
             /\ k.floor = m.floor /\ k.value = m.value
             /\ om.last_seq > m.last_seq => (k.present <=> om.present)
             /\ om.last_seq = m.last_seq => (k.present <=> m.present /\ om.present)
             /\ om.last_seq < m.last_seq => (k.present <=> m.present)
<1> DEFINE newer == om.last_seq > m.last_seq
           tie == om.last_seq = m.last_seq
           present == \/ newer /\ om.present
                      \/ ~newer /\ m.present /\ (tie => om.present)
           name == IF om.display_name # NoName /\ (newer \/ (tie /\ m.display_name = NoName))
                   THEN om.display_name ELSE m.display_name
           seq == Later(m.last_seq, om.last_seq)
           seen == IF newer \/ tie THEN Later(m.last_seen, om.last_seen) ELSE m.last_seen
           k == MergeMember(m, om)
<1>1. /\ m.present \in BOOLEAN /\ m.display_name \in Names \cup {NoName}
      /\ m.last_seq \in Seqs /\ m.last_seen \in Nat /\ m.last_seq \in Nat
      /\ om.present \in BOOLEAN /\ om.display_name \in Names \cup {NoName}
      /\ om.last_seq \in Seqs /\ om.last_seen \in Nat /\ om.last_seq \in Nat
  BY MemberFields, SeqsAreNat
<1>2. present \in BOOLEAN /\ name \in Names \cup {NoName}
  BY <1>1
<1>3. seq \in Seqs /\ seen \in Nat /\ seen >= m.last_seen
  BY <1>1, LaterSeq, LaterFacts
<1>4. k = [m EXCEPT !.present = present, !.display_name = name,
                    !.last_seq = seq, !.last_seen = seen]
  BY DEF MergeMember
<1> HIDE DEF present, name, seq, seen, k
<1>5. /\ k \in Members
      /\ k.present = present /\ k.last_seq = seq /\ k.last_seen = seen
      /\ k.floor = m.floor /\ k.value = m.value
  BY <1>2, <1>3, <1>4 DEF Members
<1>6. newer => (present <=> om.present)
  BY DEF present
<1>7. tie => (present <=> m.present /\ om.present)
  BY <1>1 DEF present
<1>8. om.last_seq < m.last_seq => (present <=> m.present)
  BY <1>1 DEF present
<1> QED BY <1>3, <1>5, <1>6, <1>7, <1>8 DEF k, seq

LEMMA MergeFacts ==
  ASSUME NEW ro \in Rooms, NEW snap \in Snapshots
  PROVE  LET p == MergeSnapshot(ro, snap)
         IN  /\ p \in Rooms /\ p.known = ro.known \cup snap.known
             /\ p.next_seq = ro.next_seq
             /\ \A n \in Nodes :
                  /\ n \in snap.known /\ n \in ro.known =>
                       p.members[n] = MergeMember(ro.members[n], snap.members[n])
                  /\ n \in snap.known /\ n \notin ro.known => p.members[n] = snap.members[n]
                  /\ n \notin snap.known => p.members[n] = ro.members[n]
<1> DEFINE Merged(n) ==
             CASE n \in snap.known /\ n \in ro.known ->
                    MergeMember(ro.members[n], snap.members[n])
               [] n \in snap.known /\ n \notin ro.known -> snap.members[n]
               [] n \notin snap.known -> ro.members[n]
           members == [n \in Nodes |-> Merged(n)]
           known == ro.known \cup snap.known
           p == MergeSnapshot(ro, snap)
<1>1. \A n \in Nodes : ro.members[n] \in Members /\ snap.members[n] \in Members
  BY RoomFields, SnapshotFields
<1>2. \A n \in Nodes : MergeMember(ro.members[n], snap.members[n]) \in Members
  BY <1>1, MergeMemberFacts
<1>3. \A n \in Nodes :
        /\ n \in snap.known /\ n \in ro.known =>
             Merged(n) = MergeMember(ro.members[n], snap.members[n])
        /\ n \in snap.known /\ n \notin ro.known => Merged(n) = snap.members[n]
        /\ n \notin snap.known => Merged(n) = ro.members[n]
  OBVIOUS
<1>4. p = [ro EXCEPT !.known = known, !.members = members]
  BY DEF MergeSnapshot, Rooms
<1> HIDE DEF Merged, p
<1>5. \A n \in Nodes : Merged(n) \in Members
  BY <1>1, <1>2, <1>3
<1>6. members \in [Nodes -> Members] /\ \A n \in Nodes : members[n] = Merged(n)
  BY <1>5
<1>7. known \subseteq Nodes
  BY RoomFields, SnapshotFields
<1> HIDE DEF members, known
<1>8. /\ p \in Rooms /\ p.known = known /\ p.members = members /\ p.next_seq = ro.next_seq
  BY <1>4, <1>6, <1>7 DEF Rooms
<1> QED BY <1>3, <1>6, <1>8 DEF p, known

-----------------------------------------------------------------------------
(* Types *)

LEMMA RecoveryTypeInit == RecoveryInit => RecoveryTypeOK
<1>1. SUFFICES ASSUME RecoveryInit PROVE RecoveryTypeOK
  OBVIOUS
<1>2. \A n \in Nodes : Snapshot(NewRoom(MaxMembers[n])) \in Snapshots
  BY CapsAssumption, NewRoomFacts, SnapshotFacts
<1>3. saved \in [Nodes -> Snapshots]
  BY <1>1, <1>2 DEF RecoveryInit
<1> QED BY <1>1, <1>3, TypeInit DEF RecoveryInit, RecoveryTypeOK

(* A step that replaces the room of r by a room, and what r heard.         *)
LEMMA Replaced ==
  ASSUME TypeOK, NEW r \in Nodes, NEW ro \in Rooms,
         NEW hears \in SUBSET Envelopes, NEW tiles \in SUBSET Nodes,
         room' = [room EXCEPT ![r] = ro],
         heard' = [heard EXCEPT ![r] = hears],
         shown' = [shown EXCEPT ![r] = tiles],
         UNCHANGED published
  PROVE  /\ TypeOK'
         /\ room'[r] = ro /\ heard'[r] = hears
         /\ \A q \in Nodes \ {r} : room'[q] = room[q] /\ heard'[q] = heard[q]
  BY DEF TypeOK

LEMMA StayingPut ==
  ASSUME TypeOK
  PROVE  /\ \A r \in Nodes : /\ room[r] \in Rooms
                             /\ heard[r] \in SUBSET Envelopes
                             /\ shown[r] \in SUBSET Nodes
                             /\ heard = [heard EXCEPT ![r] = heard[r]]
                             /\ shown = [shown EXCEPT ![r] = shown[r]]
  BY DEF TypeOK

LEMMA PruneStep ==
  ASSUME RecoveryTypeOK, NEW r \in Nodes, Prune(r)
  PROVE  \E now :
           /\ TypeOK'
           /\ room'[r] = PruneStale(room[r], now, StaleSecs) /\ heard'[r] = heard[r]
           /\ \A q \in Nodes \ {r} : room'[q] = room[q] /\ heard'[q] = heard[q]
<1>1. PICK now \in Times :
        /\ room' = [room EXCEPT ![r] = PruneStale(room[r], now, StaleSecs)]
        /\ shown' = [shown EXCEPT ![r] = shown[r] \ Stale(room[r], now, StaleSecs)]
  BY DEF Prune
<1> DEFINE ro == PruneStale(room[r], now, StaleSecs)
           tiles == shown[r] \ Stale(room[r], now, StaleSecs)
           hears == heard[r]
<1>2. TypeOK /\ UNCHANGED published /\ UNCHANGED heard
  BY DEF Prune, RecoveryTypeOK
<1>3. ro \in Rooms
  BY <1>2, StayingPut, PruneFacts
<1>4. heard' = [heard EXCEPT ![r] = hears] /\ hears \in SUBSET Envelopes
  BY <1>2, StayingPut
<1>5. tiles \in SUBSET Nodes
  BY <1>2, StayingPut
<1>6. room' = [room EXCEPT ![r] = ro] /\ shown' = [shown EXCEPT ![r] = tiles]
  BY <1>1
<1> HIDE DEF ro, tiles, hears
<1>7. /\ TypeOK'
      /\ room'[r] = ro /\ heard'[r] = hears
      /\ \A q \in Nodes \ {r} : room'[q] = room[q] /\ heard'[q] = heard[q]
  BY <1>2, <1>3, <1>4, <1>5, <1>6, Replaced
<1> QED BY <1>7 DEF ro, hears

LEMMA RestartStep ==
  ASSUME RecoveryTypeOK, NEW r \in Nodes, Restart(r)
  PROVE  /\ TypeOK'
         /\ room'[r] = Restore(saved[r]) /\ heard'[r] = savedHeard[r]
         /\ \A q \in Nodes \ {r} : room'[q] = room[q] /\ heard'[q] = heard[q]
<1>1. TypeOK /\ saved[r] \in Snapshots /\ savedHeard[r] \in SUBSET Envelopes
  BY DEF RecoveryTypeOK
<1>2. Restore(saved[r]) \in Rooms
  BY <1>1, RestoreFacts
<1>3. Present(Restore(saved[r])) \in SUBSET Nodes
  BY <1>2, RoomFields DEF Present
<1> QED BY <1>1, <1>2, <1>3, Replaced DEF Restart

LEMMA StartAfreshStep ==
  ASSUME RecoveryTypeOK, NEW r \in Nodes, StartAfresh(r)
  PROVE  /\ TypeOK'
         /\ room'[r] = NewRoom(MaxMembers[r]) /\ heard'[r] = {}
         /\ \A q \in Nodes \ {r} : room'[q] = room[q] /\ heard'[q] = heard[q]
<1>1. TypeOK /\ NewRoom(MaxMembers[r]) \in Rooms
  BY CapsAssumption, NewRoomFacts DEF RecoveryTypeOK
<1> QED BY <1>1, Replaced DEF StartAfresh

LEMMA ResumeStep ==
  ASSUME RecoveryTypeOK, NEW r \in Nodes, ResumeOutbound(r)
  PROVE  /\ TypeOK'
         /\ room'[r] = ResumeOutboundFrom(room[r], saved[r].next_seq)
         /\ heard'[r] = heard[r]
         /\ \A q \in Nodes \ {r} : room'[q] = room[q] /\ heard'[q] = heard[q]
<1> DEFINE ro == ResumeOutboundFrom(room[r], saved[r].next_seq)
           tiles == shown[r]
           hears == heard[r]
<1>1. TypeOK /\ saved[r].next_seq \in Seqs
  BY SnapshotFields DEF RecoveryTypeOK
<1>2. ro \in Rooms
  BY <1>1, StayingPut, ResumeFacts
<1>3. /\ room' = [room EXCEPT ![r] = ro]
      /\ UNCHANGED published /\ UNCHANGED heard /\ UNCHANGED shown
  BY DEF ResumeOutbound
<1>4. /\ heard' = [heard EXCEPT ![r] = hears] /\ hears \in SUBSET Envelopes
      /\ shown' = [shown EXCEPT ![r] = tiles] /\ tiles \in SUBSET Nodes
  BY <1>1, <1>3, StayingPut
<1> HIDE DEF ro, tiles, hears
<1>5. /\ TypeOK'
      /\ room'[r] = ro /\ heard'[r] = hears
      /\ \A q \in Nodes \ {r} : room'[q] = room[q] /\ heard'[q] = heard[q]
  BY <1>1, <1>2, <1>3, <1>4, Replaced
<1> QED BY <1>5 DEF ro, hears

LEMMA MergeStep ==
  ASSUME RecoveryTypeOK, NEW r \in Nodes, NEW q \in Nodes, Merge(r, q)
  PROVE  /\ TypeOK'
         /\ room'[r] = MergeSnapshot(room[r], saved[q])
         /\ heard'[r] = heard[r] \cup AbsorbedFrom(r, q)
         /\ \A p \in Nodes \ {r} : room'[p] = room[p] /\ heard'[p] = heard[p]
<1>1. TypeOK /\ saved[q] \in Snapshots /\ savedHeard[q] \in SUBSET Envelopes
  BY DEF RecoveryTypeOK
<1> DEFINE ro == MergeSnapshot(room[r], saved[q])
           hears == heard[r] \cup AbsorbedFrom(r, q)
           changed == MergeChanged(room[r], saved[q])
           tiles == (shown[r] \ changed) \cup (changed \ shown[r])
<1>2. ro \in Rooms
  BY <1>1, StayingPut, MergeFacts
<1>3. hears \in SUBSET Envelopes
  BY <1>1, StayingPut DEF AbsorbedFrom
<1>4. tiles \in SUBSET Nodes
  <2>1. changed \subseteq Nodes
    BY <1>1, SnapshotFields DEF MergeChanged
  <2>2. shown[r] \in SUBSET Nodes
    BY <1>1, StayingPut
  <2>3. tiles \subseteq Nodes
    BY <2>1, <2>2
  <2> HIDE DEF tiles
  <2> QED BY <2>3
<1>5. /\ room' = [room EXCEPT ![r] = ro] /\ heard' = [heard EXCEPT ![r] = hears]
      /\ shown' = [shown EXCEPT ![r] = tiles]
      /\ UNCHANGED published
  BY DEF Merge
<1> HIDE DEF ro, hears, tiles
<1>6. /\ TypeOK'
      /\ room'[r] = ro /\ heard'[r] = hears
      /\ \A p \in Nodes \ {r} : room'[p] = room[p] /\ heard'[p] = heard[p]
  BY <1>1, <1>2, <1>3, <1>4, <1>5, Replaced
<1> QED BY <1>6 DEF ro, hears

LEMMA RecoveryTypeStep == RecoveryTypeOK /\ [RecoveryNext]_recoveryVars => RecoveryTypeOK'
<1>1. SUFFICES ASSUME RecoveryTypeOK, [RecoveryNext]_recoveryVars PROVE RecoveryTypeOK'
  OBVIOUS
<1> DEFINE StorageOK == /\ stored \subseteq Nodes
                        /\ saved \in [Nodes -> Snapshots]
                        /\ savedHeard \in [Nodes -> SUBSET Envelopes]
<1>2. TypeOK /\ StorageOK
  BY <1>1 DEF RecoveryTypeOK
<1>3. ASSUME UNCHANGED storage PROVE StorageOK'
  BY <1>2, <1>3 DEF storage
<1>4. CASE Next /\ UNCHANGED storage
  BY <1>2, <1>3, <1>4, TypeStep DEF RecoveryTypeOK
<1>5. ASSUME NEW r \in Nodes, Prune(r) PROVE RecoveryTypeOK'
  <2>1. UNCHANGED storage
    BY <1>5 DEF Prune
  <2> QED BY <1>1, <1>3, <1>5, <2>1, PruneStep DEF RecoveryTypeOK
<1>6. ASSUME NEW r \in Keepers, Save(r) PROVE RecoveryTypeOK'
  <2>1. /\ r \in Nodes /\ Snapshot(room[r]) \in Snapshots
        /\ heard[r] \in SUBSET Envelopes
    BY <1>2, KeepersAssumption, StayingPut, SnapshotFacts
  <2>2. StorageOK'
    BY <1>2, <1>6, <2>1 DEF Save
  <2>3. TypeOK'
    BY <1>2, <1>6 DEF Save, vars, TypeOK
  <2> QED BY <2>2, <2>3 DEF RecoveryTypeOK
<1>7. ASSUME NEW r \in Nodes, Restart(r) PROVE RecoveryTypeOK'
  <2>1. UNCHANGED storage
    BY <1>7 DEF Restart
  <2> QED BY <1>1, <1>3, <1>7, <2>1, RestartStep DEF RecoveryTypeOK
<1>8. ASSUME NEW r \in Nodes, StartAfresh(r) PROVE RecoveryTypeOK'
  <2>1. UNCHANGED storage
    BY <1>8 DEF StartAfresh
  <2> QED BY <1>1, <1>3, <1>8, <2>1, StartAfreshStep DEF RecoveryTypeOK
<1>9. ASSUME NEW r \in Nodes, ResumeOutbound(r) PROVE RecoveryTypeOK'
  <2>1. UNCHANGED storage
    BY <1>9 DEF ResumeOutbound
  <2> QED BY <1>1, <1>3, <1>9, <2>1, ResumeStep DEF RecoveryTypeOK
<1>10. ASSUME NEW r \in Nodes, NEW q \in Nodes, Merge(r, q) PROVE RecoveryTypeOK'
  <2>1. UNCHANGED storage
    BY <1>10 DEF Merge
  <2> QED BY <1>1, <1>3, <1>10, <2>1, MergeStep DEF RecoveryTypeOK
<1>11. CASE UNCHANGED recoveryVars
  BY <1>1, <1>11 DEF recoveryVars, storage, vars, RecoveryTypeOK, TypeOK
<1> QED
  BY <1>1, <1>4, <1>5, <1>6, <1>7, <1>8, <1>9, <1>10, <1>11 DEF RecoveryNext

(* Restored, merged, swept or resumed: rooms and snapshots keep their type.*)
THEOREM RecoveryTypeCorrect == RecoverySpec => []RecoveryTypeOK
  BY RecoveryTypeInit, RecoveryTypeStep, PTL DEF RecoverySpec

-----------------------------------------------------------------------------
(* Belief: what a replica holds of a member against what it took in *)

Believed(m, said) ==
  /\ \A e \in said : e.seq <= m.last_seq
  /\ m.last_seq > 0 \/ m.present => \E e \in said : e.seq = m.last_seq
  /\ m.present => \A e \in said : e.seq = m.last_seq => AssertsPresent(e)

(* Nothing was taken in of a node that is not a member, and every member   *)
(* is believed.                                                            *)
Grounded(known, members, set) ==
  /\ \A e \in set : e.from \in known
  /\ \A n \in Nodes : Believed(members[n], Said(set, n))

LEMMA BelievedSame ==
  ASSUME NEW m, NEW k, NEW said, SamePresence(m, k), Believed(k, said)
  PROVE  Believed(m, said)
  BY DEF SamePresence, Believed

(* The rule the register and the merge share: the higher seq wins, a tie   *)
(* is present only if both are.                                            *)
LEMMA BelievedJoin ==
  ASSUME NEW m, NEW om, NEW k, m.last_seq \in Nat, om.last_seq \in Nat,
         NEW said \in SUBSET Envelopes, NEW others \in SUBSET Envelopes,
         Believed(m, said), Believed(om, others),
         k.last_seq = Later(m.last_seq, om.last_seq),
         om.last_seq > m.last_seq => (k.present <=> om.present),
         om.last_seq = m.last_seq => (k.present <=> m.present /\ om.present),
         om.last_seq < m.last_seq => (k.present <=> m.present)
  PROVE  Believed(k, said \cup others)
<1>0. /\ \A e \in said \cup others : e.seq \in Nat
      /\ \A e \in said : e.seq <= m.last_seq
      /\ \A e \in others : e.seq <= om.last_seq
  BY EnvelopeFields, SeqsAreNat DEF Believed
<1>1. CASE om.last_seq > m.last_seq
  <2>1. k.last_seq = om.last_seq /\ (k.present <=> om.present)
    BY <1>1 DEF Later
  <2>2. \A e \in said : e.seq < om.last_seq
    BY <1>0, <1>1
  <2>3. \A e \in said \cup others : e.seq <= k.last_seq
    BY <1>0, <2>1, <2>2
  <2>4. \E e \in said \cup others : e.seq = k.last_seq
    BY <1>1, <2>1 DEF Believed
  <2>5. ASSUME k.present, NEW e \in said \cup others, e.seq = k.last_seq
        PROVE  AssertsPresent(e)
    <3>1. e \in others
      BY <1>0, <2>1, <2>2, <2>5
    <3> QED BY <2>1, <2>5, <3>1 DEF Believed
  <2> QED BY <2>3, <2>4, <2>5 DEF Believed
<1>2. CASE om.last_seq = m.last_seq
  <2>1. k.last_seq = m.last_seq /\ (k.present <=> m.present /\ om.present)
    BY <1>2 DEF Later
  <2>2. \A e \in said \cup others : e.seq <= k.last_seq
    BY <1>0, <1>2, <2>1
  <2>3. k.last_seq > 0 \/ k.present => \E e \in said : e.seq = k.last_seq
    BY <2>1 DEF Believed
  <2>4. ASSUME k.present, NEW e \in said \cup others, e.seq = k.last_seq
        PROVE  AssertsPresent(e)
    BY <1>2, <2>1, <2>4 DEF Believed
  <2> QED BY <2>2, <2>3, <2>4 DEF Believed
<1>3. CASE om.last_seq < m.last_seq
  <2>1. k.last_seq = m.last_seq /\ (k.present <=> m.present)
    BY <1>3 DEF Later
  <2>2. \A e \in others : e.seq < m.last_seq
    BY <1>0, <1>3
  <2>3. \A e \in said \cup others : e.seq <= k.last_seq
    BY <1>0, <2>1, <2>2
  <2>4. \E e \in said \cup others : e.seq = k.last_seq
    BY <1>3, <2>1 DEF Believed
  <2>5. ASSUME k.present, NEW e \in said \cup others, e.seq = k.last_seq
        PROVE  AssertsPresent(e)
    <3>1. e \in said
      BY <1>0, <2>1, <2>2, <2>5
    <3> QED BY <2>1, <2>5, <3>1 DEF Believed
  <2> QED BY <2>3, <2>4, <2>5 DEF Believed
<1> QED BY <1>1, <1>2, <1>3

LEMMA BelievedFirst ==
  ASSUME NEW e \in Envelopes
  PROVE  Believed(FirstPresence(e), {e})
<1> DEFINE k == FirstPresence(e)
<1>1. k.last_seq = e.seq /\ (k.present <=> AssertsPresent(e)) /\ e.seq \in Nat
  BY FirstPresenceFacts, EnvelopeFields, SeqsAreNat
<1> HIDE DEF k
<1>2. Believed(k, {e})
  BY <1>1 DEF Believed
<1> QED BY <1>2 DEF k

LEMMA BelievedLww ==
  ASSUME NEW m \in Members, NEW e \in Envelopes, NEW said \in SUBSET Envelopes,
         Believed(m, said)
  PROVE  Believed(LwwMember(m, e), said \cup {e})
<1> DEFINE om == FirstPresence(e)
           k == LwwMember(m, e)
<1>1. om.last_seq = e.seq /\ (om.present <=> AssertsPresent(e))
  BY FirstPresenceFacts
<1>2. m.last_seq \in Nat /\ e.seq \in Nat
  BY MemberFields, EnvelopeFields, SeqsAreNat
<1>3. Believed(om, {e})
  BY BelievedFirst
<1>4. /\ k.last_seq = Later(m.last_seq, e.seq)
      /\ e.seq > m.last_seq => (k.present <=> AssertsPresent(e))
      /\ e.seq = m.last_seq => (k.present <=> m.present /\ AssertsPresent(e))
      /\ e.seq < m.last_seq => (k.present <=> m.present)
  BY LwwMemberFacts
<1> HIDE DEF om, k
<1>5. Believed(k, said \cup {e})
  BY <1>1, <1>2, <1>3, <1>4, BelievedJoin
<1> QED BY <1>5 DEF k

LEMMA BelievedMerge ==
  ASSUME NEW m \in Members, NEW om \in Members,
         NEW said \in SUBSET Envelopes, NEW others \in SUBSET Envelopes,
         Believed(m, said), Believed(om, others)
  PROVE  Believed(MergeMember(m, om), said \cup others)
<1> DEFINE k == MergeMember(m, om)
<1>1. m.last_seq \in Nat /\ om.last_seq \in Nat
  BY MemberFields, SeqsAreNat
<1>2. /\ k.last_seq = Later(m.last_seq, om.last_seq)
      /\ om.last_seq > m.last_seq => (k.present <=> om.present)
      /\ om.last_seq = m.last_seq => (k.present <=> m.present /\ om.present)
      /\ om.last_seq < m.last_seq => (k.present <=> m.present)
  BY MergeMemberFacts
<1> HIDE DEF k
<1>3. Believed(k, said \cup others)
  BY <1>1, <1>2, BelievedJoin
<1> QED BY <1>3 DEF k

(* A room that turns an unknown sender away keeps the sender's record.     *)
LEMMA TurnedAway ==
  ASSUME NEW ro \in Rooms, NEW e \in Envelopes, e.from \notin Apply(ro, e).known
  PROVE  /\ e.from \notin ro.known
         /\ SamePresence(Apply(ro, e).members[e.from], ro.members[e.from])
<1> DEFINE after == Apply(ro, e)
           n == e.from
<1>1. /\ TouchesOnly(ro, after, n)
      /\ e.kind \notin PresenceKinds \cup MediaKinds => AsPassing(ro, after, e)
  BY ApplyFacts
<1>2. n \notin ro.known
  BY <1>1 DEF TouchesOnly
<1>3. n \in Nodes
  BY EnvelopeFields
<1>4. CASE e.kind \in PresenceKinds
  <2>1. Lww(ro, e) = ro
    <3>1. ASSUME HasSlot(ro) PROVE FALSE
      <4>1. Lww(ro, e) = Put(ro, n, FirstPresence(e)) /\ FirstPresence(e) \in Members
        BY <1>2, <3>1, FirstPresenceFacts DEF Lww
      <4>2. n \in Lww(ro, e).known
        BY <1>3, <4>1, PutFacts
      <4>3. Lww(ro, e) \in Rooms
        BY LwwRoom DEF TouchesOnly
      <4>4. after \in {Lww(ro, e), Touch(Lww(ro, e), n, e.sent_at)}
        BY <1>4, ApplyArms DEF PresenceKinds, Keepalive
      <4>5. Touch(Lww(ro, e), n, e.sent_at).known = Lww(ro, e).known
        BY <1>3, <4>3, EnvelopeFields, TouchFacts
      <4>6. after.known = Lww(ro, e).known
        BY <4>4, <4>5
      <4> QED BY <4>2, <4>6
    <3> QED BY <1>2, <3>1 DEF Lww
  <2>2. Keepalive(ro, e) = ro
    BY <1>2, <2>1 DEF Keepalive, Present
  <2>3. after = ro
    BY <1>4, <2>1, <2>2, ApplyArms DEF PresenceKinds
  <2> QED BY <1>2, <2>3 DEF SamePresence
<1>5. CASE e.kind \in MediaKinds
  <2>1. ASSUME HasSlot(ro) PROVE FALSE
    <3>1. after = Put(ro, n, Placeholder(e)) /\ Placeholder(e) \in Members
      BY <1>2, <1>5, <2>1, ApplyArms, PlaceholderFacts DEF MediaLww
    <3>2. n \in Put(ro, n, Placeholder(e)).known
      BY <1>3, <3>1, PutFacts
    <3> QED BY <3>1, <3>2
  <2>2. after = ro
    BY <1>2, <1>5, <2>1, ApplyArms DEF MediaLww
  <2> QED BY <1>2, <2>2 DEF SamePresence
<1>6. CASE e.kind \notin PresenceKinds \cup MediaKinds
  BY <1>1, <1>2, <1>6 DEF AsPassing
<1> QED BY <1>4, <1>5, <1>6

LEMMA ApplyGrounded ==
  ASSUME NEW ro \in Rooms, NEW e \in Envelopes, NEW set \in SUBSET Envelopes,
         Grounded(ro.known, ro.members, set)
  PROVE  LET after == Apply(ro, e)
             absorbed == IF e.kind \in PresenceKinds \cup MediaKinds /\ e.from \in after.known
                         THEN {e} ELSE {}
         IN  Grounded(after.known, after.members, set \cup absorbed)
<1> DEFINE after == Apply(ro, e)
           absorbed == IF e.kind \in PresenceKinds \cup MediaKinds /\ e.from \in after.known
                       THEN {e} ELSE {}
           all == set \cup absorbed
           n == e.from
           said == Said(set, n)
<1>0. /\ n \in Nodes /\ ro.known \subseteq Nodes /\ ro.members[n] \in Members
      /\ said \in SUBSET Envelopes
      /\ Believed(ro.members[n], said)
      /\ n \notin ro.known => said = {}
  BY EnvelopeFields, RoomFields DEF Grounded, Said
<1>1. /\ TouchesOnly(ro, after, n)
      /\ e.kind \in PresenceKinds => AsPresence(ro, after, e)
      /\ e.kind \notin PresenceKinds \cup MediaKinds => AsPassing(ro, after, e)
  BY ApplyFacts
<1>2. e.kind \in MediaKinds =>
        /\ n \in ro.known => after.members[n] = MediaMember(ro.members[n], e)
        /\ n \in after.known \ ro.known => after.members[n] = Placeholder(e)
  BY MediaRoom, ApplyArms
<1>3. e.kind \in MediaKinds => e.kind \notin PresenceKinds
  BY DEF MediaKinds, PresenceKinds
<1>4. n \notin after.known => SamePresence(after.members[n], ro.members[n])
  BY TurnedAway
<1> HIDE DEF after
<1>5. \A f \in all : f.from \in after.known
  BY <1>1 DEF TouchesOnly, Grounded
<1>6. ASSUME NEW k \in Nodes, k # n
      PROVE  Believed(after.members[k], Said(all, k))
  <2>1. after.members[k] = ro.members[k]
    BY <1>1, <1>6 DEF TouchesOnly
  <2>2. Said(all, k) = Said(set, k)
    BY <1>6 DEF Said
  <2> QED BY <2>1, <2>2 DEF Grounded
<1>7. Believed(after.members[n], Said(all, n))
  <2>1. CASE n \notin after.known
    <3>1. Said(all, n) = said
      BY <2>1 DEF Said
    <3> QED BY <1>0, <1>4, <2>1, <3>1, BelievedSame
  <2>2. CASE n \in after.known /\ e.kind \in PresenceKinds
    <3>1. Said(all, n) = said \cup {e}
      BY <2>2 DEF Said
    <3>2. CASE n \in ro.known
      <4>1. Believed(LwwMember(ro.members[n], e), said \cup {e})
        BY <1>0, BelievedLww
      <4>2. SamePresence(after.members[n], LwwMember(ro.members[n], e))
        BY <1>1, <2>2, <3>2 DEF AsPresence
      <4> QED BY <3>1, <4>1, <4>2, BelievedSame
    <3>3. CASE n \notin ro.known
      <4>1. SamePresence(after.members[n], FirstPresence(e)) /\ Said(all, n) = {e}
        BY <1>0, <1>1, <2>2, <3>1, <3>3 DEF AsPresence
      <4> QED BY <4>1, BelievedFirst, BelievedSame
    <3> QED BY <3>2, <3>3
  <2>3. CASE n \in after.known /\ e.kind \in MediaKinds
    <3>1. Said(all, n) = said
      BY <1>3, <2>3 DEF Said
    <3>2. CASE n \in ro.known
      <4> DEFINE m == ro.members[n]
                 k == MediaMember(m, e)
      <4>1. k.present = m.present /\ k.last_seq = m.last_seq
        BY <1>0, <2>3, MediaMemberFacts
      <4>2. after.members[n] = k
        BY <1>2, <2>3, <3>2
      <4> HIDE DEF k
      <4>3. SamePresence(after.members[n], m)
        BY <4>1, <4>2 DEF SamePresence
      <4> QED BY <1>0, <3>1, <4>3, BelievedSame
    <3>3. CASE n \notin ro.known
      <4>1. ~after.members[n].present /\ after.members[n].last_seq = 0
        BY <1>2, <2>3, <3>3, PlaceholderFacts
      <4> QED BY <1>0, <3>1, <3>3, <4>1 DEF Believed
    <3> QED BY <3>2, <3>3
  <2>4. CASE e.kind \notin PresenceKinds \cup MediaKinds
    <3>1. Said(all, n) = said /\ SamePresence(after.members[n], ro.members[n])
      BY <1>1, <2>4 DEF Said, AsPassing
    <3> QED BY <1>0, <3>1, BelievedSame
  <2> QED BY <2>1, <2>2, <2>3, <2>4
<1> HIDE DEF absorbed
<1>8. Grounded(after.known, after.members, all)
  BY <1>5, <1>6, <1>7 DEF Grounded
<1> QED BY <1>8 DEF after, absorbed

LEMMA PruneGrounded ==
  ASSUME NEW ro \in Rooms, NEW now, NEW set, Grounded(ro.known, ro.members, set)
  PROVE  LET p == PruneStale(ro, now, StaleSecs)
         IN  Grounded(p.known, p.members, set)
<1> DEFINE p == PruneStale(ro, now, StaleSecs)
<1>1. /\ p.known = ro.known
      /\ \A n \in Nodes : /\ p.members[n].last_seq = ro.members[n].last_seq
                          /\ p.members[n].present => ro.members[n].present
  BY PruneFacts
<1> HIDE DEF p
<1>2. \A n \in Nodes : Believed(p.members[n], Said(set, n))
  BY <1>1 DEF Grounded, Believed
<1>3. Grounded(p.known, p.members, set)
  BY <1>1, <1>2 DEF Grounded
<1> QED BY <1>3 DEF p

LEMMA MergeGrounded ==
  ASSUME NEW ro \in Rooms, NEW snap \in Snapshots,
         NEW set \in SUBSET Envelopes, NEW others \in SUBSET Envelopes,
         Grounded(ro.known, ro.members, set),
         Grounded(snap.known, snap.members, others),
         NEW absorbed,
         absorbed = {e \in others : e.kind \in PresenceKinds \/ e.from \notin ro.known}
  PROVE  LET p == MergeSnapshot(ro, snap)
         IN  Grounded(p.known, p.members, set \cup absorbed)
<1> DEFINE p == MergeSnapshot(ro, snap)
<1>1. /\ p.known = ro.known \cup snap.known
      /\ \A n \in Nodes :
           /\ n \in snap.known /\ n \in ro.known =>
                p.members[n] = MergeMember(ro.members[n], snap.members[n])
           /\ n \in snap.known /\ n \notin ro.known => p.members[n] = snap.members[n]
           /\ n \notin snap.known => p.members[n] = ro.members[n]
  BY MergeFacts
<1> HIDE DEF p
<1>2. \A f \in set \cup absorbed : f.from \in p.known
  BY <1>1 DEF Grounded
<1>3. ASSUME NEW n \in Nodes
      PROVE  Believed(p.members[n], Said(set \cup absorbed, n))
  <2> DEFINE mine == Said(set, n)
             theirs == Said(others, n)
  <2>1. /\ Said(set \cup absorbed, n) = mine \cup theirs
        /\ mine \in SUBSET Envelopes /\ theirs \in SUBSET Envelopes
        /\ n \notin ro.known => mine = {}
        /\ n \notin snap.known => theirs = {}
    BY DEF Said, Grounded
  <2>2. /\ ro.members[n] \in Members /\ Believed(ro.members[n], mine)
        /\ snap.members[n] \in Members /\ Believed(snap.members[n], theirs)
    BY RoomFields, SnapshotFields DEF Grounded
  <2> HIDE DEF mine, theirs
  <2>3. CASE n \in snap.known /\ n \in ro.known
    BY <1>1, <2>1, <2>2, <2>3, BelievedMerge
  <2>4. CASE n \in snap.known /\ n \notin ro.known
    BY <1>1, <2>1, <2>2, <2>4
  <2>5. CASE n \notin snap.known
    BY <1>1, <2>1, <2>2, <2>5
  <2> QED BY <2>3, <2>4, <2>5
<1>4. Grounded(p.known, p.members, set \cup absorbed)
  BY <1>2, <1>3 DEF Grounded
<1> QED BY <1>4 DEF p

(* The inductive invariant: live rooms and snapshots are both grounded in  *)
(* what was heard before them, so restarts and merges have sound sources.  *)
BeliefInv ==
  /\ RecoveryTypeOK
  /\ \A r \in Nodes : Grounded(room[r].known, room[r].members, heard[r])
  /\ \A r \in Nodes : Grounded(saved[r].known, saved[r].members, savedHeard[r])

LEMMA NothingGrounded ==
  ASSUME NEW known, NEW members, \A n \in Nodes : members[n] = Blank
  PROVE  Grounded(known, members, {})
<1>1. ~Blank.present /\ Blank.last_seq = 0
  BY DEF Blank
<1>2. \A n \in Nodes : Said({}, n) = {}
  BY DEF Said
<1> QED BY <1>1, <1>2 DEF Grounded, Believed

LEMMA BeliefInit == RecoveryInit => BeliefInv
<1>1. SUFFICES ASSUME RecoveryInit PROVE BeliefInv
  OBVIOUS
<1>2. ASSUME NEW r \in Nodes
      PROVE  /\ Grounded(room[r].known, room[r].members, heard[r])
             /\ Grounded(saved[r].known, saved[r].members, savedHeard[r])
  <2> DEFINE ro == NewRoom(MaxMembers[r])
  <2>1. ro \in Rooms /\ \A n \in Nodes : ro.members[n] = Blank
    BY CapsAssumption, NewRoomFacts
  <2>2. room[r] = ro /\ heard[r] = {} /\ saved[r] = Snapshot(ro) /\ savedHeard[r] = {}
    BY <1>1 DEF RecoveryInit, Init
  <2> HIDE DEF ro
  <2>3. saved[r].members = ro.members
    BY <2>1, <2>2, SnapshotFacts
  <2> QED BY <2>1, <2>2, <2>3, NothingGrounded
<1> QED BY <1>1, <1>2, RecoveryTypeInit DEF BeliefInv

LEMMA BeliefStep == BeliefInv /\ [RecoveryNext]_recoveryVars => BeliefInv'
<1>1. SUFFICES ASSUME BeliefInv, [RecoveryNext]_recoveryVars PROVE BeliefInv'
  OBVIOUS
<1>2. RecoveryTypeOK /\ TypeOK /\ RecoveryTypeOK'
  BY <1>1, RecoveryTypeStep DEF BeliefInv, RecoveryTypeOK
<1> DEFINE Live(r) == Grounded(room[r].known, room[r].members, heard[r])
           Kept(r) == Grounded(saved[r].known, saved[r].members, savedHeard[r])
           Goal == \A p \in Nodes : Live(p)' /\ Kept(p)'
<1>3. \A r \in Nodes : Live(r) /\ Kept(r)
  BY <1>1 DEF BeliefInv
<1>4. ASSUME UNCHANGED storage PROVE \A r \in Nodes : Kept(r)'
  BY <1>3, <1>4 DEF storage
<1>5. ASSUME NEW n \in Speakers, AllocateSeq(n), UNCHANGED heard, UNCHANGED storage
      PROVE  Goal
  <2>1. \A r \in Nodes : room'[r].known = room[r].known /\ room'[r].members = room[r].members
    BY <1>2, <1>5, SpeakersAssumption, SendStep
  <2>2. \A r \in Nodes : Live(r)'
    BY <1>3, <1>5, <2>1
  <2> QED BY <1>4, <1>5, <2>2
<1>6. ASSUME NEW r \in Nodes, NEW e \in published, Receive(r, e), UNCHANGED storage
      PROVE  Goal
  <2>1. /\ e \in Envelopes /\ room[r] \in Rooms /\ heard[r] \in SUBSET Envelopes
        /\ room'[r] = Apply(room[r], e)
        /\ heard'[r] = heard[r] \cup Absorbed(r, e)
        /\ \A q \in Nodes \ {r} : room'[q] = room[q] /\ heard'[q] = heard[q]
    BY <1>2, <1>6, ReceiveStep DEF TypeOK
  <2>2. Live(r)
    BY <1>3
  <2>3. Grounded(Apply(room[r], e).known, Apply(room[r], e).members,
                 heard[r] \cup Absorbed(r, e))
    BY <2>1, <2>2, ApplyGrounded DEF Absorbed
  <2>4. \A p \in Nodes : Live(p)'
    BY <1>3, <2>1, <2>3
  <2> QED BY <1>4, <1>6, <2>4
<1>7. ASSUME NEW r \in Nodes, Prune(r) PROVE Goal
  <2>1. PICK now :
          /\ room'[r] = PruneStale(room[r], now, StaleSecs) /\ heard'[r] = heard[r]
          /\ \A q \in Nodes \ {r} : room'[q] = room[q] /\ heard'[q] = heard[q]
    BY <1>2, <1>7, PruneStep
  <2>2. room[r] \in Rooms /\ Live(r)
    BY <1>2, <1>3, StayingPut
  <2>3. Live(r)'
    BY <2>1, <2>2, PruneGrounded
  <2>4. \A p \in Nodes : Live(p)'
    BY <1>3, <2>1, <2>3
  <2>5. UNCHANGED storage
    BY <1>7 DEF Prune
  <2> QED BY <1>4, <2>4, <2>5
<1>8. ASSUME NEW r \in Keepers, Save(r) PROVE Goal
  <2>1. /\ r \in Nodes /\ room[r] \in Rooms
        /\ saved \in [Nodes -> Snapshots] /\ savedHeard \in [Nodes -> SUBSET Envelopes]
    BY <1>2, KeepersAssumption, StayingPut DEF RecoveryTypeOK
  <2> DEFINE snap == Snapshot(room[r])
  <2>2. snap.known = room[r].known /\ snap.members = room[r].members
    BY <2>1, SnapshotFacts
  <2>3. /\ saved' = [saved EXCEPT ![r] = snap]
        /\ savedHeard' = [savedHeard EXCEPT ![r] = heard[r]]
        /\ UNCHANGED room /\ UNCHANGED heard
    BY <1>8 DEF Save, vars
  <2> HIDE DEF snap
  <2>4. /\ saved'[r] = snap /\ savedHeard'[r] = heard[r]
        /\ \A q \in Nodes \ {r} : saved'[q] = saved[q] /\ savedHeard'[q] = savedHeard[q]
    BY <2>1, <2>3
  <2>5. Kept(r)'
    BY <1>3, <2>1, <2>2, <2>4
  <2>6. \A p \in Nodes : Kept(p)'
    BY <1>3, <2>4, <2>5
  <2>7. \A p \in Nodes : Live(p)'
    BY <1>3, <2>3
  <2> QED BY <2>6, <2>7
<1>9. ASSUME NEW r \in Nodes, Restart(r) PROVE Goal
  <2>1. /\ room'[r] = Restore(saved[r]) /\ heard'[r] = savedHeard[r]
        /\ \A q \in Nodes \ {r} : room'[q] = room[q] /\ heard'[q] = heard[q]
    BY <1>2, <1>9, RestartStep
  <2>2. saved[r] \in Snapshots
    BY <1>2 DEF RecoveryTypeOK
  <2>3. room'[r].known = saved[r].known /\ room'[r].members = saved[r].members
    BY <2>1, <2>2, RestoreFacts
  <2>4. \A p \in Nodes : Live(p)'
    BY <1>3, <2>1, <2>3
  <2>5. UNCHANGED storage
    BY <1>9 DEF Restart
  <2> QED BY <1>4, <2>4, <2>5
<1>10. ASSUME NEW r \in Nodes, StartAfresh(r) PROVE Goal
  <2>1. /\ room'[r] = NewRoom(MaxMembers[r]) /\ heard'[r] = {}
        /\ \A q \in Nodes \ {r} : room'[q] = room[q] /\ heard'[q] = heard[q]
    BY <1>2, <1>10, StartAfreshStep
  <2>2. \A n \in Nodes : NewRoom(MaxMembers[r]).members[n] = Blank
    BY CapsAssumption, NewRoomFacts
  <2>3. \A n \in Nodes : room'[r].members[n] = Blank
    BY <2>1, <2>2
  <2>4. Live(r)'
    BY <2>1, <2>3, NothingGrounded
  <2>5. \A p \in Nodes : Live(p)'
    BY <1>3, <2>1, <2>4
  <2>6. UNCHANGED storage
    BY <1>10 DEF StartAfresh
  <2> QED BY <1>4, <2>5, <2>6
<1>11. ASSUME NEW r \in Nodes, ResumeOutbound(r) PROVE Goal
  <2>1. /\ room'[r] = ResumeOutboundFrom(room[r], saved[r].next_seq)
        /\ heard'[r] = heard[r]
        /\ \A q \in Nodes \ {r} : room'[q] = room[q] /\ heard'[q] = heard[q]
    BY <1>2, <1>11, ResumeStep
  <2>2. room[r] \in Rooms /\ saved[r].next_seq \in Seqs
    BY <1>2, StayingPut, SnapshotFields DEF RecoveryTypeOK
  <2>3. room'[r].known = room[r].known /\ room'[r].members = room[r].members
    BY <2>1, <2>2, ResumeFacts
  <2>4. \A p \in Nodes : Live(p)'
    BY <1>3, <2>1, <2>3
  <2>5. UNCHANGED storage
    BY <1>11 DEF ResumeOutbound
  <2> QED BY <1>4, <2>4, <2>5
<1>12. ASSUME NEW r \in Nodes, NEW q \in Nodes, Merge(r, q) PROVE Goal
  <2>1. /\ room'[r] = MergeSnapshot(room[r], saved[q])
        /\ heard'[r] = heard[r] \cup AbsorbedFrom(r, q)
        /\ \A p \in Nodes \ {r} : room'[p] = room[p] /\ heard'[p] = heard[p]
    BY <1>2, <1>12, MergeStep
  <2>2. /\ room[r] \in Rooms /\ heard[r] \in SUBSET Envelopes
        /\ saved[q] \in Snapshots /\ savedHeard[q] \in SUBSET Envelopes
        /\ Live(r) /\ Kept(q)
    BY <1>2, <1>3, StayingPut DEF RecoveryTypeOK
  <2> DEFINE absorbed == AbsorbedFrom(r, q)
             merged == MergeSnapshot(room[r], saved[q])
  <2>3. absorbed = {e \in savedHeard[q] :
                      e.kind \in PresenceKinds \/ e.from \notin room[r].known}
    BY DEF AbsorbedFrom
  <2> HIDE DEF absorbed
  <2>4. Grounded(merged.known, merged.members, heard[r] \cup absorbed)
    BY <2>2, <2>3, MergeGrounded
  <2>5. Live(r)'
    BY <2>1, <2>4 DEF absorbed
  <2>6. \A p \in Nodes : Live(p)'
    BY <1>3, <2>1, <2>5
  <2>7. UNCHANGED storage
    BY <1>12 DEF Merge
  <2> QED BY <1>4, <2>6, <2>7
<1>13. ASSUME UNCHANGED recoveryVars PROVE Goal
  BY <1>3, <1>13 DEF recoveryVars, storage, vars
<1>14. Goal
  <2> HIDE DEF Goal
  <2> QED
    BY <1>1, <1>5, <1>6, <1>7, <1>8, <1>9, <1>10, <1>11, <1>12, <1>13
      DEF RecoveryNext, Next, Send, SendFails
<1> QED BY <1>2, <1>14 DEF BeliefInv

LEMMA BeliefInvariant == RecoverySpec => []BeliefInv
  BY BeliefInit, BeliefStep, PTL DEF RecoverySpec

(* Whatever mixture of envelopes, sweeps, restarts and merges, nobody is   *)
(* present in a roster against a Leave that the roster took in.            *)
THEOREM LeaversStayGone == RecoverySpec => []NoResurrection
<1>1. BeliefInv => NoResurrection
  BY DEF BeliefInv, Grounded, Believed, NoResurrection, BelievedOn, Said
<1> QED BY <1>1, BeliefInvariant, PTL

(* The same of every snapshot on disk, whenever it was taken.              *)
THEOREM SnapshotsAreBelieved == RecoverySpec => []SavedBelief
<1>1. BeliefInv => SavedBelief
  BY DEF BeliefInv, Grounded, Believed, SavedBelief, BelievedOn, Said
<1> QED BY <1>1, BeliefInvariant, PTL

(* However two replicas came to have taken in the same assertions of a     *)
(* node, in any order and any number of times, through sweeps, restarts    *)
(* and merges, they hold the same last_seq for it; and if one shows it     *)
(* present, the other took in no Leave of that seq either.  (What may      *)
(* differ is a sweep: the clocks and stale members are each replica's.)    *)
THEOREM ReplicasAgreeThroughRecovery ==
  RecoverySpec =>
    [](\A r, q, n \in Nodes : Assertions(r, n) = Assertions(q, n) =>
         LET m == room[r].members[n]
             k == room[q].members[n]
         IN  /\ m.last_seq = k.last_seq
             /\ m.present => \A e \in Assertions(q, n) : e.seq = k.last_seq => AssertsPresent(e))
<1> DEFINE Agree(r, q, n) ==
             LET m == room[r].members[n]
                 k == room[q].members[n]
             IN  /\ m.last_seq = k.last_seq
                 /\ m.present => \A e \in Assertions(q, n) : e.seq = k.last_seq => AssertsPresent(e)
           Agreement == \A r, q, n \in Nodes :
             Assertions(r, n) = Assertions(q, n) => Agree(r, q, n)
<1>1. ASSUME BeliefInv, NEW r \in Nodes, NEW q \in Nodes, NEW n \in Nodes,
             Assertions(r, n) = Assertions(q, n)
      PROVE  Agree(r, q, n)
  <2> DEFINE m == room[r].members[n]
             k == room[q].members[n]
             said == Assertions(q, n)
  <2>1. Believed(m, said) /\ Believed(k, said)
    BY <1>1 DEF BeliefInv, Grounded, Said, Assertions
  <2>2. m.last_seq \in Nat /\ k.last_seq \in Nat
    <3>1. room[r] \in Rooms /\ room[q] \in Rooms
      BY <1>1 DEF BeliefInv, RecoveryTypeOK, TypeOK
    <3>2. m \in Members /\ k \in Members
      BY <3>1, RoomFields
    <3> QED BY <3>2, MemberFields, SeqsAreNat
  <2> HIDE DEF m, k, said
  <2>3. m.last_seq = k.last_seq
    <3>1. m.last_seq > 0 => m.last_seq <= k.last_seq
      BY <2>1 DEF Believed
    <3>2. k.last_seq > 0 => k.last_seq <= m.last_seq
      BY <2>1 DEF Believed
    <3> QED BY <2>2, <3>1, <3>2
  <2>4. m.present => \A e \in said : e.seq = k.last_seq => AssertsPresent(e)
    BY <2>1, <2>3 DEF Believed
  <2> QED BY <2>3, <2>4 DEF m, k, said
<1>2. BeliefInv => Agreement
  BY <1>1
<1> HIDE DEF Agreement
<1>3. RecoverySpec => []Agreement
  BY <1>2, BeliefInvariant, PTL
<1> QED BY <1>3 DEF Agreement

-----------------------------------------------------------------------------
(* Media: whose microphone is muted, whatever the replica went through *)

LEMMA PruneMedia ==
  ASSUME NEW ro \in Rooms, NEW now, NEW set, MediaReflects(ro, set)
  PROVE  MediaReflects(PruneStale(ro, now, StaleSecs), set)
<1> DEFINE p == PruneStale(ro, now, StaleSecs)
<1>1. /\ p.known = ro.known /\ ro.known \subseteq Nodes
      /\ \A n \in Nodes : SameMedia(p.members[n], ro.members[n])
  BY PruneFacts, RoomFields
<1> HIDE DEF p
<1>2. MediaReflects(p, set)
  BY <1>1 DEF MediaReflects, SameMedia
<1> QED BY <1>2 DEF p

(* A merge keeps the media of the members it knew, and takes over those of *)
(* the members it did not with the signals they came from.                 *)
LEMMA MergeMedia ==
  ASSUME NEW ro \in Rooms, NEW snap \in Snapshots,
         NEW set \in SUBSET Envelopes, NEW others \in SUBSET Envelopes,
         \A e \in set : e.from \in ro.known,
         MediaReflects(ro, set), MediaReflects(snap, others),
         NEW absorbed,
         absorbed = {e \in others : e.kind \in PresenceKinds \/ e.from \notin ro.known}
  PROVE  MediaReflects(MergeSnapshot(ro, snap), set \cup absorbed)
<1> DEFINE p == MergeSnapshot(ro, snap)
           all == set \cup absorbed
<1>1. /\ p.known = ro.known \cup snap.known
      /\ ro.known \subseteq Nodes /\ snap.known \subseteq Nodes
      /\ \A n \in Nodes :
           /\ n \in snap.known /\ n \in ro.known =>
                p.members[n] = MergeMember(ro.members[n], snap.members[n])
           /\ n \in snap.known /\ n \notin ro.known => p.members[n] = snap.members[n]
           /\ n \notin snap.known => p.members[n] = ro.members[n]
  BY MergeFacts, RoomFields, SnapshotFields
<1> HIDE DEF p
<1>2. ASSUME NEW n \in p.known, NEW d \in MediaKinds
      PROVE  DimReflects(p.members[n].value[d], p.members[n].floor[d], SaidOn(all, n, d))
  <2>1. n \in Nodes /\ d \notin PresenceKinds
    BY <1>1, <1>2 DEF MediaKinds, PresenceKinds
  <2>2. CASE n \in ro.known
    <3>1. SaidOn(all, n, d) = SaidOn(set, n, d)
      BY <2>1, <2>2 DEF SaidOn
    <3>2. SameMedia(p.members[n], ro.members[n])
      <4>1. ro.members[n] \in Members /\ snap.members[n] \in Members
        BY <2>1, RoomFields, SnapshotFields
      <4>2. SameMedia(MergeMember(ro.members[n], snap.members[n]), ro.members[n])
        BY <4>1, MergeMemberFacts DEF SameMedia
      <4>3. \/ p.members[n] = MergeMember(ro.members[n], snap.members[n])
            \/ p.members[n] = ro.members[n]
        BY <1>1, <2>1, <2>2
      <4> QED BY <4>2, <4>3 DEF SameMedia
    <3> QED BY <2>2, <3>1, <3>2 DEF MediaReflects, SameMedia
  <2>3. CASE n \notin ro.known
    <3>1. SaidOn(all, n, d) = SaidOn(others, n, d)
      BY <2>3 DEF SaidOn
    <3>2. n \in snap.known /\ p.members[n] = snap.members[n]
      BY <1>1, <1>2, <2>1, <2>3
    <3> QED BY <3>1, <3>2 DEF MediaReflects
  <2> QED BY <2>2, <2>3
<1>3. MediaReflects(p, all)
  BY <1>2 DEF MediaReflects
<1> QED BY <1>3 DEF p

MediaKept ==
  \A r \in Nodes : /\ MediaReflects(room[r], heard[r])
                    /\ MediaReflects(saved[r], savedHeard[r])

LEMMA MediaKeptStep == BeliefInv /\ MediaKept /\ [RecoveryNext]_recoveryVars => MediaKept'
<1>1. SUFFICES ASSUME BeliefInv, MediaKept, [RecoveryNext]_recoveryVars PROVE MediaKept'
  OBVIOUS
<1>2. RecoveryTypeOK /\ TypeOK
  BY <1>1 DEF BeliefInv, RecoveryTypeOK
<1> DEFINE Live(r) == MediaReflects(room[r], heard[r])
           Kept(r) == MediaReflects(saved[r], savedHeard[r])
           Goal == \A p \in Nodes : Live(p)' /\ Kept(p)'
<1>3. \A r \in Nodes : Live(r) /\ Kept(r)
  BY <1>1 DEF MediaKept
<1>4. /\ \A r \in Nodes : \A e \in heard[r] : e.from \in room[r].known
      /\ \A r \in Nodes : room[r] \in Rooms /\ heard[r] \in SUBSET Envelopes
      /\ \A r \in Nodes : saved[r] \in Snapshots /\ savedHeard[r] \in SUBSET Envelopes
  BY <1>1, <1>2 DEF BeliefInv, Grounded, TypeOK, RecoveryTypeOK
\* A step of r's room, storage untouched
<1>5. ASSUME NEW r \in Nodes, UNCHANGED storage, Live(r)',
             \A q \in Nodes \ {r} : room'[q] = room[q] /\ heard'[q] = heard[q]
      PROVE  Goal
  <2>1. \A p \in Nodes : Live(p)'
    BY <1>3, <1>5
  <2>2. \A p \in Nodes : Kept(p)'
    BY <1>3, <1>5 DEF storage
  <2> QED BY <2>1, <2>2
<1>6. ASSUME NEW n \in Speakers, AllocateSeq(n), UNCHANGED heard, UNCHANGED storage
      PROVE  Goal
  <2>1. \A r \in Nodes : room'[r].known = room[r].known /\ room'[r].members = room[r].members
    BY <1>2, <1>6, SpeakersAssumption, SendStep
  <2>2. \A r \in Nodes : Live(r)'
    BY <1>3, <1>6, <2>1 DEF MediaReflects
  <2>3. \A r \in Nodes : Kept(r)'
    BY <1>3, <1>6 DEF storage
  <2> QED BY <2>2, <2>3
<1>7. ASSUME NEW r \in Nodes, NEW e \in published, Receive(r, e), UNCHANGED storage
      PROVE  Goal
  <2>1. /\ e \in Envelopes
        /\ room'[r] = Apply(room[r], e)
        /\ heard'[r] = heard[r] \cup Absorbed(r, e)
        /\ \A q \in Nodes \ {r} : room'[q] = room[q] /\ heard'[q] = heard[q]
    BY <1>2, <1>7, ReceiveStep
  <2>2. MediaReflects(Apply(room[r], e), heard[r] \cup Absorbed(r, e))
    BY <1>3, <1>4, <2>1, ApplyMedia DEF Absorbed
  <2> QED BY <1>5, <1>7, <2>1, <2>2
<1>8. ASSUME NEW r \in Nodes, Prune(r) PROVE Goal
  <2>1. PICK now :
          /\ room'[r] = PruneStale(room[r], now, StaleSecs) /\ heard'[r] = heard[r]
          /\ \A q \in Nodes \ {r} : room'[q] = room[q] /\ heard'[q] = heard[q]
    BY <1>2, <1>8, PruneStep
  <2>2. Live(r)'
    BY <1>3, <1>4, <2>1, PruneMedia
  <2>3. UNCHANGED storage
    BY <1>8 DEF Prune
  <2> QED BY <1>5, <2>1, <2>2, <2>3
<1>9. ASSUME NEW r \in Keepers, Save(r) PROVE Goal
  <2>1. r \in Nodes /\ saved \in [Nodes -> Snapshots] /\ savedHeard \in [Nodes -> SUBSET Envelopes]
    BY <1>2, KeepersAssumption DEF RecoveryTypeOK
  <2> DEFINE snap == Snapshot(room[r])
  <2>2. snap.known = room[r].known /\ snap.members = room[r].members
    BY <1>4, <2>1, SnapshotFacts
  <2>3. /\ saved' = [saved EXCEPT ![r] = snap]
        /\ savedHeard' = [savedHeard EXCEPT ![r] = heard[r]]
        /\ UNCHANGED room /\ UNCHANGED heard
    BY <1>9 DEF Save, vars
  <2> HIDE DEF snap
  <2>4. /\ saved'[r] = snap /\ savedHeard'[r] = heard[r]
        /\ \A q \in Nodes \ {r} : saved'[q] = saved[q] /\ savedHeard'[q] = savedHeard[q]
    BY <2>1, <2>3
  <2>5. Kept(r)'
    BY <1>3, <2>1, <2>2, <2>4 DEF MediaReflects
  <2>6. \A p \in Nodes : Kept(p)'
    BY <1>3, <2>4, <2>5
  <2>7. \A p \in Nodes : Live(p)'
    BY <1>3, <2>3
  <2> QED BY <2>6, <2>7
<1>10. ASSUME NEW r \in Nodes, Restart(r) PROVE Goal
  <2>1. /\ room'[r] = Restore(saved[r]) /\ heard'[r] = savedHeard[r]
        /\ \A q \in Nodes \ {r} : room'[q] = room[q] /\ heard'[q] = heard[q]
    BY <1>2, <1>10, RestartStep
  <2>2. room'[r].known = saved[r].known /\ room'[r].members = saved[r].members
    BY <1>4, <2>1, RestoreFacts
  <2>3. Live(r)'
    BY <1>3, <2>1, <2>2 DEF MediaReflects
  <2>4. UNCHANGED storage
    BY <1>10 DEF Restart
  <2> QED BY <1>5, <2>1, <2>3, <2>4
<1>11. ASSUME NEW r \in Nodes, StartAfresh(r) PROVE Goal
  <2>1. /\ room'[r] = NewRoom(MaxMembers[r]) /\ heard'[r] = {}
        /\ \A q \in Nodes \ {r} : room'[q] = room[q] /\ heard'[q] = heard[q]
    BY <1>2, <1>11, StartAfreshStep
  <2>2. NewRoom(MaxMembers[r]).known = {}
    BY CapsAssumption, NewRoomFacts
  <2>3. Live(r)'
    BY <2>1, <2>2 DEF MediaReflects
  <2>4. UNCHANGED storage
    BY <1>11 DEF StartAfresh
  <2> QED BY <1>5, <2>1, <2>3, <2>4
<1>12. ASSUME NEW r \in Nodes, ResumeOutbound(r) PROVE Goal
  <2>1. /\ room'[r] = ResumeOutboundFrom(room[r], saved[r].next_seq)
        /\ heard'[r] = heard[r]
        /\ \A q \in Nodes \ {r} : room'[q] = room[q] /\ heard'[q] = heard[q]
    BY <1>2, <1>12, ResumeStep
  <2>2. saved[r].next_seq \in Seqs
    BY <1>4, SnapshotFields
  <2>3. room'[r].known = room[r].known /\ room'[r].members = room[r].members
    BY <1>4, <2>1, <2>2, ResumeFacts
  <2>4. Live(r)'
    BY <1>3, <2>1, <2>3 DEF MediaReflects
  <2>5. UNCHANGED storage
    BY <1>12 DEF ResumeOutbound
  <2> QED BY <1>5, <2>1, <2>4, <2>5
<1>13. ASSUME NEW r \in Nodes, NEW q \in Nodes, Merge(r, q) PROVE Goal
  <2>1. /\ room'[r] = MergeSnapshot(room[r], saved[q])
        /\ heard'[r] = heard[r] \cup AbsorbedFrom(r, q)
        /\ \A p \in Nodes \ {r} : room'[p] = room[p] /\ heard'[p] = heard[p]
    BY <1>2, <1>13, MergeStep
  <2> DEFINE absorbed == AbsorbedFrom(r, q)
  <2>2. absorbed = {e \in savedHeard[q] :
                      e.kind \in PresenceKinds \/ e.from \notin room[r].known}
    BY DEF AbsorbedFrom
  <2> HIDE DEF absorbed
  <2>3. MediaReflects(MergeSnapshot(room[r], saved[q]), heard[r] \cup absorbed)
    BY <1>3, <1>4, <2>2, MergeMedia
  <2>4. Live(r)'
    BY <2>1, <2>3 DEF absorbed
  <2>5. UNCHANGED storage
    BY <1>13 DEF Merge
  <2> QED BY <1>5, <2>1, <2>4, <2>5
<1>14. ASSUME UNCHANGED recoveryVars PROVE Goal
  BY <1>3, <1>14 DEF recoveryVars, storage, vars
<1>15. Goal
  <2> HIDE DEF Goal
  <2> QED
    BY <1>1, <1>6, <1>7, <1>8, <1>9, <1>10, <1>11, <1>12, <1>13, <1>14
      DEF RecoveryNext, Next, Send, SendFails
<1> QED BY <1>15 DEF MediaKept

(* What a roster says of a member's microphone, screen and hand is what    *)
(* the member itself last signalled of it among what the replica took in,  *)
(* and nothing else sets it: not a sweep, a restart from a snapshot, or a  *)
(* merge with another replica.  The same holds on disk.  Numbers may       *)
(* repeat here, since a participant may start over at 0 (MediaUpdate,      *)
(* media_lww, merge_snapshot).                                             *)
THEOREM MediaSurviveRecovery ==
  RecoverySpec =>
    [](\A r \in Nodes : /\ MediaReflects(room[r], heard[r])
                         /\ MediaReflects(saved[r], savedHeard[r]))
<1>1. RecoveryInit => MediaKept
  <2>1. SUFFICES ASSUME RecoveryInit, NEW r \in Nodes
                 PROVE  /\ MediaReflects(room[r], heard[r])
                        /\ MediaReflects(saved[r], savedHeard[r])
    BY DEF MediaKept
  <2> DEFINE ro == NewRoom(MaxMembers[r])
  <2>2. ro \in Rooms /\ ro.known = {}
    BY CapsAssumption, NewRoomFacts
  <2>3. room[r] = ro /\ saved[r] = Snapshot(ro)
    BY <2>1 DEF RecoveryInit, Init
  <2> HIDE DEF ro
  <2>4. saved[r].known = {}
    BY <2>2, <2>3, SnapshotFacts
  <2> QED BY <2>2, <2>3, <2>4 DEF MediaReflects
<1>2. RecoverySpec => []MediaKept
  BY <1>1, MediaKeptStep, BeliefInvariant, PTL DEF RecoverySpec
<1> QED BY <1>2 DEF MediaKept

-----------------------------------------------------------------------------
(* Registers *)

\* A member that is absent comes back only by a word newer than all before.
RevivedByNewer(m, k) == k.present /\ ~m.present => k.last_seq > m.last_seq

Advances(a, b) ==
  /\ a.known \subseteq b.known
  /\ a.next_seq <= b.next_seq
  /\ \A n \in a.known : /\ NotBehind(a.members[n], b.members[n])
                         /\ RevivedByNewer(a.members[n], b.members[n])

(* Enough for an advance: the members stay as they are in what counts.     *)
LEMMA AdvancesSame ==
  ASSUME NEW ro \in Rooms, NEW later,
         later.known = ro.known, later.next_seq >= ro.next_seq,
         \A n \in ro.known :
           /\ later.members[n].last_seq = ro.members[n].last_seq
           /\ later.members[n].last_seen = ro.members[n].last_seen
           /\ later.members[n].floor = ro.members[n].floor
           /\ later.members[n].present => ro.members[n].present
  PROVE  Advances(ro, later)
<1>1. ASSUME NEW n \in ro.known PROVE NotBehind(ro.members[n], later.members[n])
  <2>1. ro.members[n] \in Members
    BY RoomFields
  <2>2. ro.members[n].last_seq \in Nat /\ ro.members[n].last_seen \in Nat
    BY <2>1, MemberFields, SeqsAreNat
  <2> QED BY <2>1, <2>2, SameIsNotBehind
<1>2. ro.next_seq \in Nat
  BY RoomFields, SeqsAreNat
<1> QED BY <1>1, <1>2 DEF Advances, RevivedByNewer

LEMMA AdvancesApply ==
  ASSUME NEW ro \in Rooms, NEW e \in Envelopes
  PROVE  Advances(ro, Apply(ro, e))
<1> DEFINE after == Apply(ro, e)
<1>1. /\ TouchesOnly(ro, after, e.from)
      /\ e.kind \in PresenceKinds => AsPresence(ro, after, e)
      /\ e.kind \notin PresenceKinds \cup MediaKinds => AsPassing(ro, after, e)
  BY ApplyFacts
<1>2. \A n \in ro.known : NotBehind(ro.members[n], after.members[n])
  BY ApplyNeverGoesBack
<1>3. e.kind \in MediaKinds /\ e.from \in ro.known =>
        after.members[e.from] = MediaMember(ro.members[e.from], e)
  BY MediaRoom, ApplyArms
<1> HIDE DEF after
<1>4. ASSUME NEW n \in ro.known PROVE RevivedByNewer(ro.members[n], after.members[n])
  <2> DEFINE m == ro.members[n]
             k == after.members[n]
  <2>1. n \in Nodes /\ m \in Members
    BY RoomFields
  <2>2. m.last_seq \in Nat /\ e.seq \in Nat
    BY <2>1, MemberFields, EnvelopeFields, SeqsAreNat
  <2>3. CASE n # e.from
    BY <1>1, <2>1, <2>3 DEF TouchesOnly, RevivedByNewer
  <2>4. CASE n = e.from /\ e.kind \in PresenceKinds
    <3> DEFINE w == LwwMember(m, e)
    <3>1. /\ w.last_seq = Later(m.last_seq, e.seq)
          /\ e.seq = m.last_seq => (w.present => m.present)
          /\ e.seq < m.last_seq => (w.present => m.present)
      BY <2>1, LwwMemberFacts
    <3>2. k.present = w.present /\ k.last_seq = w.last_seq
      BY <1>1, <1>4, <2>4 DEF AsPresence, SamePresence
    <3> HIDE DEF w, m, k
    <3>3. RevivedByNewer(m, k)
      BY <2>2, <3>1, <3>2 DEF RevivedByNewer, Later
    <3> QED BY <3>3 DEF m, k
  <2>5. CASE n = e.from /\ e.kind \in MediaKinds
    <3>1. MediaMember(m, e).present = m.present
      BY <2>1, <2>5, MediaMemberFacts
    <3>2. k.present = m.present
      BY <1>3, <1>4, <2>5, <3>1
    <3> QED BY <3>2 DEF RevivedByNewer
  <2>6. CASE n = e.from /\ e.kind \notin PresenceKinds \cup MediaKinds
    BY <1>1, <2>6 DEF AsPassing, SamePresence, RevivedByNewer
  <2> QED BY <2>3, <2>4, <2>5, <2>6
<1>5. ro.known \subseteq after.known /\ ro.next_seq <= after.next_seq
  <2>1. ro.next_seq \in Nat /\ after.next_seq = ro.next_seq
    BY <1>1, RoomFields, SeqsAreNat DEF TouchesOnly
  <2> QED BY <1>1, <2>1 DEF TouchesOnly
<1>6. Advances(ro, after)
  BY <1>2, <1>4, <1>5 DEF Advances
<1> QED BY <1>6 DEF after

LEMMA AdvancesMerge ==
  ASSUME NEW ro \in Rooms, NEW snap \in Snapshots
  PROVE  Advances(ro, MergeSnapshot(ro, snap))
<1> DEFINE p == MergeSnapshot(ro, snap)
<1>1. /\ p.known = ro.known \cup snap.known /\ p.next_seq = ro.next_seq
      /\ \A n \in Nodes :
           /\ n \in snap.known /\ n \in ro.known =>
                p.members[n] = MergeMember(ro.members[n], snap.members[n])
           /\ n \notin snap.known => p.members[n] = ro.members[n]
  BY MergeFacts
<1> HIDE DEF p
<1>2. ASSUME NEW n \in ro.known
      PROVE  NotBehind(ro.members[n], p.members[n]) /\ RevivedByNewer(ro.members[n], p.members[n])
  <2> DEFINE m == ro.members[n]
             om == snap.members[n]
             k == p.members[n]
             mm == MergeMember(m, om)
  <2>1. n \in Nodes /\ m \in Members /\ om \in Members
    BY RoomFields, SnapshotFields
  <2>2. m.last_seq \in Nat /\ m.last_seen \in Nat /\ om.last_seq \in Nat
    BY <2>1, MemberFields, SeqsAreNat
  <2>3. mm.last_seq >= m.last_seq /\ mm.last_seen >= m.last_seen /\ mm.floor = m.floor
    <3>1. /\ mm.last_seq = Later(m.last_seq, om.last_seq)
          /\ mm.last_seen >= m.last_seen /\ mm.floor = m.floor
      BY <2>1, MergeMemberFacts
    <3> HIDE DEF mm
    <3> QED BY <2>2, <3>1, LaterFacts
  <2>7. RevivedByNewer(m, mm)
    <3>1. /\ mm.last_seq = Later(m.last_seq, om.last_seq)
          /\ om.last_seq = m.last_seq => (mm.present => m.present)
          /\ om.last_seq < m.last_seq => (mm.present => m.present)
      BY <2>1, MergeMemberFacts
    <3> HIDE DEF mm, m, om
    <3> QED BY <2>2, <3>1 DEF RevivedByNewer, Later
  <2>4. k = mm \/ k = m
    BY <1>1, <2>1
  <2> HIDE DEF m, k, mm
  <2>5. k.last_seq >= m.last_seq /\ k.last_seen >= m.last_seen /\ k.floor = m.floor
    BY <2>2, <2>3, <2>4
  <2>6. NotBehind(m, k)
    BY <2>1, <2>5, SameIsNotBehind
  <2>8. RevivedByNewer(m, k)
    BY <2>4, <2>7 DEF RevivedByNewer
  <2> QED BY <2>6, <2>8 DEF m, k
<1>3. ro.next_seq \in Nat
  BY RoomFields, SeqsAreNat
<1>4. Advances(ro, p)
  BY <1>1, <1>2, <1>3 DEF Advances
<1> QED BY <1>4 DEF p

\* Everything but a restart of r takes its room forward.
LEMMA RoomsAdvance ==
  RecoveryTypeOK /\ [RecoveryNext]_recoveryVars =>
    \A r \in Nodes : Restart(r) \/ StartAfresh(r) \/ Advances(room[r], room'[r])
<1>1. SUFFICES ASSUME RecoveryTypeOK, [RecoveryNext]_recoveryVars, NEW r \in Nodes
               PROVE  Restart(r) \/ StartAfresh(r) \/ Advances(room[r], room'[r])
  OBVIOUS
<1>2. TypeOK /\ room[r] \in Rooms /\ room[r].next_seq \in Nat
  BY <1>1, StayingPut, RoomFields, SeqsAreNat DEF RecoveryTypeOK
<1>3. ASSUME room'[r] = room[r] PROVE Advances(room[r], room'[r])
  BY <1>2, <1>3, AdvancesSame
<1>4. ASSUME NEW n \in Speakers, AllocateSeq(n) PROVE Advances(room[r], room'[r])
  <2>1. /\ room'[r].known = room[r].known /\ room'[r].members = room[r].members
        /\ room'[r].next_seq >= room[r].next_seq
    BY <1>2, <1>4, SpeakersAssumption, SendStep
  <2> QED BY <1>2, <2>1, AdvancesSame
<1>5. ASSUME NEW q \in Nodes, NEW e \in published, Receive(q, e)
      PROVE  Advances(room[r], room'[r])
  <2>1. /\ e \in Envelopes /\ room'[q] = Apply(room[q], e)
        /\ q # r => room'[r] = room[r]
    BY <1>2, <1>5, ReceiveStep
  <2> QED BY <1>2, <1>3, <2>1, AdvancesApply
<1>6. ASSUME NEW q \in Nodes, Prune(q) PROVE Advances(room[r], room'[r])
  <2>1. PICK now : /\ room'[q] = PruneStale(room[q], now, StaleSecs)
                   /\ \A p \in Nodes \ {q} : room'[p] = room[p]
    BY <1>1, <1>6, PruneStep
  <2>2. CASE q = r
    <3> DEFINE ro == PruneStale(room[r], now, StaleSecs)
    <3>1. /\ ro.known = room[r].known /\ ro.next_seq = room[r].next_seq
          /\ \A n \in Nodes :
               /\ ro.members[n].last_seq = room[r].members[n].last_seq
               /\ ro.members[n].last_seen = room[r].members[n].last_seen
               /\ ro.members[n].floor = room[r].members[n].floor
               /\ ro.members[n].present => room[r].members[n].present
      BY <1>2, PruneFacts
    <3>2. room'[r] = ro /\ room[r].known \subseteq Nodes
      BY <1>2, <2>1, <2>2, RoomFields
    <3> HIDE DEF ro
    <3> QED BY <1>2, <3>1, <3>2, AdvancesSame
  <2> QED BY <1>3, <2>1, <2>2
<1>7. ASSUME NEW q \in Keepers, Save(q) PROVE Advances(room[r], room'[r])
  BY <1>3, <1>7 DEF Save, vars
<1>8. ASSUME NEW q \in Nodes, Restart(q) PROVE Restart(r) \/ Advances(room[r], room'[r])
  BY <1>1, <1>3, <1>8, RestartStep
<1>9. ASSUME NEW q \in Nodes, StartAfresh(q)
      PROVE  StartAfresh(r) \/ Advances(room[r], room'[r])
  BY <1>1, <1>3, <1>9, StartAfreshStep
<1>10. ASSUME NEW q \in Nodes, ResumeOutbound(q) PROVE Advances(room[r], room'[r])
  <2>1. /\ room'[q] = ResumeOutboundFrom(room[q], saved[q].next_seq)
        /\ \A p \in Nodes \ {q} : room'[p] = room[p]
        /\ saved[q].next_seq \in Seqs
    BY <1>1, <1>10, ResumeStep, SnapshotFields DEF RecoveryTypeOK
  <2>2. CASE q = r
    <3>1. /\ room'[r].known = room[r].known /\ room'[r].members = room[r].members
          /\ room'[r].next_seq >= room[r].next_seq
      BY <1>2, <2>1, <2>2, ResumeFacts
    <3> QED BY <1>2, <3>1, AdvancesSame
  <2> QED BY <1>3, <2>1, <2>2
<1>11. ASSUME NEW q \in Nodes, NEW p \in Nodes, Merge(q, p)
       PROVE  Advances(room[r], room'[r])
  <2>1. /\ room'[q] = MergeSnapshot(room[q], saved[p])
        /\ \A k \in Nodes \ {q} : room'[k] = room[k]
        /\ saved[p] \in Snapshots
    BY <1>1, <1>11, MergeStep DEF RecoveryTypeOK
  <2>2. CASE q = r
    BY <1>2, <2>1, <2>2, AdvancesMerge
  <2> QED BY <1>3, <2>1, <2>2
<1>12. CASE UNCHANGED recoveryVars
  BY <1>3, <1>12 DEF recoveryVars, vars
<1> QED
  BY <1>1, <1>4, <1>5, <1>6, <1>7, <1>8, <1>9, <1>10, <1>11, <1>12
    DEF RecoveryNext, Next, Send, SendFails

(* Only a restart takes a register back: not a sweep, not a merge with an  *)
(* older snapshot, not a resumed counter.                                  *)
THEOREM OnlyRestartsTakeBack == RecoverySpec => OnlyRestartsGoBack
<1>1. RecoveryTypeOK /\ [RecoveryNext]_recoveryVars =>
        [\A r \in Nodes :
           \/ Restart(r) \/ StartAfresh(r)
           \/ /\ room[r].known \subseteq room'[r].known
              /\ room[r].next_seq <= room'[r].next_seq
              /\ \A n \in room[r].known :
                   LET m == room[r].members[n]
                       later == room'[r].members[n]
                   IN  /\ m.last_seq <= later.last_seq
                       /\ m.last_seen <= later.last_seen
                       /\ \A d \in MediaKinds : m.floor[d] <= later.floor[d]]_recoveryVars
  BY RoomsAdvance DEF Advances, NotBehind
<1> QED BY <1>1, RecoveryTypeCorrect, PTL DEF RecoverySpec, OnlyRestartsGoBack

(* Whoever left or was swept comes back only by its own newer word: no     *)
(* duplicate, no late envelope, no tie and no merge with a replica that    *)
(* still believed in it shows it again, short of a restart (Room::lww,     *)
(* merge_snapshot, prune_stale).                                           *)
THEOREM OnlyNewerWordsRevive ==
  RecoverySpec =>
    [][\A r \in Nodes : \A n \in Present(room'[r]) \ Present(room[r]) :
         \/ Restart(r) \/ StartAfresh(r)
         \/ n \notin room[r].known
         \/ room'[r].members[n].last_seq > room[r].members[n].last_seq]_recoveryVars
<1> DEFINE Revived == \A r \in Nodes : \A n \in Present(room'[r]) \ Present(room[r]) :
         \/ Restart(r) \/ StartAfresh(r)
         \/ n \notin room[r].known
         \/ room'[r].members[n].last_seq > room[r].members[n].last_seq
<1>1. RecoveryTypeOK /\ [RecoveryNext]_recoveryVars => [Revived]_recoveryVars
  BY RoomsAdvance DEF Advances, RevivedByNewer, Present
<1> HIDE DEF Revived
<1>2. RecoverySpec => [][Revived]_recoveryVars
  BY <1>1, RecoveryTypeCorrect, PTL DEF RecoverySpec
<1> QED BY <1>2 DEF Revived


-----------------------------------------------------------------------------
(* The cap *)

WithinCap(ro) == Cardinality(ro.known) <= ro.max_members

LEMMA ApplyWithinCap ==
  ASSUME NEW ro \in Rooms, NEW after, NEW n, IsFiniteSet(ro.known),
         TouchesOnly(ro, after, n), WithinCap(ro)
  PROVE  WithinCap(after)
<1> DEFINE known == ro.known
           max == ro.max_members
<1>1. max \in Nat
  BY RoomFields
<1>2. CASE after.known = known
  BY <1>2 DEF TouchesOnly, WithinCap
<1>3. CASE after.known # known
  <2>1. after.known = known \cup {n} /\ after.max_members = max /\ Cardinality(known) < max
    BY <1>3 DEF TouchesOnly, HasSlot
  <2> HIDE DEF known, max
  <2>2. IsFiniteSet(known)
    BY DEF known
  <2>3. Cardinality(known \cup {n}) <= max
    BY <1>1, <2>1, <2>2, AddWithinCap
  <2> QED BY <2>1, <2>3 DEF WithinCap
<1> QED BY <1>2, <1>3

(* Hearing, sweeping and starting afresh keep a roster within its cap.  The *)
(* two ways past it are the ones that copy members without asking for a     *)
(* slot: a merge, and a restart from a snapshot (merge_snapshot, restore).  *)
THEOREM OnlyMergesOverfill ==
  ASSUME IsFiniteSet(Nodes)
  PROVE  RecoverySpec =>
           [][\A r \in Nodes : WithinCap(room[r]) /\ ~WithinCap(room'[r]) =>
                Restart(r) \/ \E q \in Nodes : Merge(r, q)]_recoveryVars
<1> DEFINE Overfilled == \A r \in Nodes : WithinCap(room[r]) /\ ~WithinCap(room'[r]) =>
                Restart(r) \/ \E q \in Nodes : Merge(r, q)
<1>1. ASSUME RecoveryTypeOK, [RecoveryNext]_recoveryVars  PROVE Overfilled
  <2>1. SUFFICES ASSUME NEW r \in Nodes, WithinCap(room[r]), ~WithinCap(room'[r])
                 PROVE  Restart(r) \/ \E q \in Nodes : Merge(r, q)
    OBVIOUS
  <2>2. TypeOK /\ room[r] \in Rooms /\ IsFiniteSet(room[r].known)
    BY <1>1, StayingPut, RoomFields, FS_Subset DEF RecoveryTypeOK
  <2>3. room'[r] # room[r]
    BY <2>1
  <2>4. ASSUME room'[r].known = room[r].known, room'[r].max_members = room[r].max_members
        PROVE  FALSE
    BY <2>1, <2>4 DEF WithinCap
  <2>5. ASSUME NEW n \in Speakers, AllocateSeq(n)  PROVE FALSE
    BY <2>2, <2>4, <2>5, SpeakersAssumption, SendStep
  <2>6. ASSUME NEW q \in Nodes, NEW e \in published, Receive(q, e)  PROVE FALSE
    <3>1. q = r /\ TouchesOnly(room[r], room'[r], e.from)
      BY <2>2, <2>3, <2>6, ReceiveStep
    <3> QED BY <2>1, <2>2, <3>1, ApplyWithinCap
  <2>7. ASSUME NEW q \in Nodes, Prune(q)  PROVE FALSE
    <3>1. PICK now : room'[r] = PruneStale(room[r], now, StaleSecs)
      BY <1>1, <2>3, <2>7, PruneStep
    <3>2. room'[r].known = room[r].known /\ room'[r].max_members = room[r].max_members
      BY <2>2, <3>1, PruneFacts
    <3> QED BY <2>4, <3>2
  <2>8. ASSUME NEW q \in Keepers, Save(q)  PROVE FALSE
    BY <2>3, <2>8 DEF Save, vars
  <2>9. ASSUME NEW q \in Nodes, Restart(q)  PROVE Restart(r)
    BY <1>1, <2>3, <2>9, RestartStep
  <2>10. ASSUME NEW q \in Nodes, StartAfresh(q)  PROVE FALSE
    <3>1. room'[r] = NewRoom(MaxMembers[r])
      BY <1>1, <2>3, <2>10, StartAfreshStep
    <3>2. room'[r].known = {} /\ room'[r].max_members \in Nat
      BY <3>1, CapsAssumption, NewRoomFacts, RoomFields
    <3>3. Cardinality({}) = 0
      BY FS_EmptySet
    <3> QED BY <2>1, <3>2, <3>3 DEF WithinCap
  <2>11. ASSUME NEW q \in Nodes, ResumeOutbound(q)  PROVE FALSE
    <3>1. room'[r] = ResumeOutboundFrom(room[r], saved[r].next_seq) /\ saved[r].next_seq \in Seqs
      BY <1>1, <2>3, <2>11, ResumeStep, SnapshotFields DEF RecoveryTypeOK
    <3>2. room'[r].known = room[r].known /\ room'[r].max_members = room[r].max_members
      BY <2>2, <3>1, ResumeFacts
    <3> QED BY <2>4, <3>2
  <2>12. ASSUME NEW q \in Nodes, NEW p \in Nodes, Merge(q, p)
         PROVE  \E o \in Nodes : Merge(r, o)
    BY <1>1, <2>3, <2>12, MergeStep
  <2>13. CASE UNCHANGED recoveryVars
    BY <2>3, <2>13 DEF recoveryVars, vars
  <2> QED
    BY <1>1, <2>5, <2>6, <2>7, <2>8, <2>9, <2>10, <2>11, <2>12, <2>13
      DEF RecoveryNext, Next, Send, SendFails
<1>2. RecoveryTypeOK /\ [RecoveryNext]_recoveryVars => [Overfilled]_recoveryVars
  BY <1>1
<1> HIDE DEF Overfilled
<1>3. RecoverySpec => [][Overfilled]_recoveryVars
  BY <1>2, RecoveryTypeCorrect, PTL DEF RecoverySpec
<1> QED BY <1>3 DEF Overfilled

-----------------------------------------------------------------------------
(* Merging: for presence, MergeMember is a join *)

LEMMA MergeMembersCommute ==
  ASSUME NEW a \in Members, NEW b \in Members
  PROVE  SamePresence(MergeMember(a, b), MergeMember(b, a))
<1> DEFINE ab == MergeMember(a, b)
           ba == MergeMember(b, a)
<1>1. a.last_seq \in Nat /\ b.last_seq \in Nat
  BY MemberFields, SeqsAreNat
<1>2. /\ ab.last_seq = Later(a.last_seq, b.last_seq)
      /\ b.last_seq > a.last_seq => (ab.present <=> b.present)
      /\ b.last_seq = a.last_seq => (ab.present <=> a.present /\ b.present)
      /\ b.last_seq < a.last_seq => (ab.present <=> a.present)
      /\ ba.last_seq = Later(b.last_seq, a.last_seq)
      /\ a.last_seq > b.last_seq => (ba.present <=> a.present)
      /\ a.last_seq = b.last_seq => (ba.present <=> b.present /\ a.present)
      /\ a.last_seq < b.last_seq => (ba.present <=> b.present)
  BY MergeMemberFacts
<1>3. ab.present \in BOOLEAN /\ ba.present \in BOOLEAN
  BY MergeMemberFacts, MemberFields
<1> HIDE DEF ab, ba
<1>4. ab.last_seq = ba.last_seq
  BY <1>1, <1>2 DEF Later
<1>5. ab.present <=> ba.present
  <2>1. a.last_seq < b.last_seq \/ a.last_seq = b.last_seq \/ b.last_seq < a.last_seq
    BY <1>1
  <2>2. /\ a.last_seq < b.last_seq => b.last_seq > a.last_seq
        /\ b.last_seq < a.last_seq => a.last_seq > b.last_seq
    BY <1>1
  <2> QED BY <1>2, <2>1, <2>2
<1>6. SamePresence(ab, ba)
  BY <1>3, <1>4, <1>5 DEF SamePresence
<1> QED BY <1>6 DEF ab, ba

LEMMA MergeMembersAssociate ==
  ASSUME NEW a \in Members, NEW b \in Members, NEW c \in Members
  PROVE  SamePresence(MergeMember(MergeMember(a, b), c),
                      MergeMember(a, MergeMember(b, c)))
<1> DEFINE ab == MergeMember(a, b)
           bc == MergeMember(b, c)
           left == MergeMember(ab, c)
           right == MergeMember(a, bc)
           sa == a.last_seq
           sb == b.last_seq
           sc == c.last_seq
<1>1. sa \in Nat /\ sb \in Nat /\ sc \in Nat
  BY MemberFields, SeqsAreNat
<1>2. ab \in Members /\ bc \in Members
  BY MergeMemberFacts
<1>3. /\ ab.last_seq = Later(sa, sb)
      /\ sb > sa => (ab.present <=> b.present)
      /\ sb = sa => (ab.present <=> a.present /\ b.present)
      /\ sb < sa => (ab.present <=> a.present)
  BY MergeMemberFacts
<1>4. /\ bc.last_seq = Later(sb, sc)
      /\ sc > sb => (bc.present <=> c.present)
      /\ sc = sb => (bc.present <=> b.present /\ c.present)
      /\ sc < sb => (bc.present <=> b.present)
  BY MergeMemberFacts
<1> HIDE DEF ab, bc
<1>5. /\ left.last_seq = Later(ab.last_seq, sc)
      /\ sc > ab.last_seq => (left.present <=> c.present)
      /\ sc = ab.last_seq => (left.present <=> ab.present /\ c.present)
      /\ sc < ab.last_seq => (left.present <=> ab.present)
      /\ left.present \in BOOLEAN
  BY <1>2, MergeMemberFacts, MemberFields
<1>6. /\ right.last_seq = Later(sa, bc.last_seq)
      /\ bc.last_seq > sa => (right.present <=> bc.present)
      /\ bc.last_seq = sa => (right.present <=> a.present /\ bc.present)
      /\ bc.last_seq < sa => (right.present <=> a.present)
      /\ right.present \in BOOLEAN
  BY <1>2, MergeMemberFacts, MemberFields
<1> HIDE DEF left, right, sa, sb, sc
<1>7. left.last_seq = right.last_seq
  BY <1>1, <1>3, <1>4, <1>5, <1>6 DEF Later
<1>8. left.present <=> right.present
  <2>1. CASE sa < sb
    BY <1>1, <1>3, <1>4, <1>5, <1>6, <2>1 DEF Later
  <2>2. CASE sa = sb
    BY <1>1, <1>3, <1>4, <1>5, <1>6, <2>2 DEF Later
  <2>3. CASE sb < sa
    BY <1>1, <1>3, <1>4, <1>5, <1>6, <2>3 DEF Later
  <2> QED BY <1>1, <2>1, <2>2, <2>3
<1>9. SamePresence(left, right)
  BY <1>5, <1>6, <1>7, <1>8 DEF SamePresence
<1> QED BY <1>9 DEF left, right, ab, bc

MergedRoom(a, b) == MergeSnapshot(a, Snapshot(b))

LEMMA MergedRoomFacts ==
  ASSUME NEW a \in Rooms, NEW b \in Rooms
  PROVE  LET p == MergedRoom(a, b)
         IN  /\ p \in Rooms /\ p.known = a.known \cup b.known
             /\ \A n \in Nodes :
                  /\ n \in b.known /\ n \in a.known =>
                       p.members[n] = MergeMember(a.members[n], b.members[n])
                  /\ n \in b.known /\ n \notin a.known => p.members[n] = b.members[n]
                  /\ n \notin b.known => p.members[n] = a.members[n]
<1> DEFINE snap == Snapshot(b)
<1>1. snap \in Snapshots /\ snap.known = b.known /\ snap.members = b.members
  BY SnapshotFacts
<1> HIDE DEF snap
<1> DEFINE p == MergeSnapshot(a, snap)
<1>2. /\ p \in Rooms /\ p.known = a.known \cup snap.known
      /\ \A n \in Nodes :
           /\ n \in snap.known /\ n \in a.known =>
                p.members[n] = MergeMember(a.members[n], snap.members[n])
           /\ n \in snap.known /\ n \notin a.known => p.members[n] = snap.members[n]
           /\ n \notin snap.known => p.members[n] = a.members[n]
  BY <1>1, MergeFacts
<1>3. MergedRoom(a, b) = p
  BY DEF MergedRoom, snap
<1> HIDE DEF p
<1> QED BY <1>1, <1>2, <1>3

LEMMA SameDigest ==
  ASSUME NEW x, NEW y, x.known = y.known,
         \A n \in x.known : SamePresence(x.members[n], y.members[n])
  PROVE  Digest(x) = Digest(y)
  BY DEF Digest, SamePresence

LEMMA MergedRoomsCommute ==
  ASSUME NEW a \in Rooms, NEW b \in Rooms
  PROVE  Digest(MergedRoom(a, b)) = Digest(MergedRoom(b, a))
<1> DEFINE ab == MergedRoom(a, b)
           ba == MergedRoom(b, a)
<1>1. /\ ab.known = a.known \cup b.known
      /\ \A n \in Nodes :
           /\ n \in b.known /\ n \in a.known =>
                ab.members[n] = MergeMember(a.members[n], b.members[n])
           /\ n \in b.known /\ n \notin a.known => ab.members[n] = b.members[n]
           /\ n \notin b.known => ab.members[n] = a.members[n]
  BY MergedRoomFacts
<1>2. /\ ba.known = b.known \cup a.known
      /\ \A n \in Nodes :
           /\ n \in a.known /\ n \in b.known =>
                ba.members[n] = MergeMember(b.members[n], a.members[n])
           /\ n \in a.known /\ n \notin b.known => ba.members[n] = a.members[n]
           /\ n \notin a.known => ba.members[n] = b.members[n]
  BY MergedRoomFacts
<1> HIDE DEF ab, ba
<1>3. ASSUME NEW n \in ab.known PROVE SamePresence(ab.members[n], ba.members[n])
  <2>1. n \in Nodes /\ a.members[n] \in Members /\ b.members[n] \in Members
    BY <1>1, RoomFields
  <2>2. CASE n \in a.known /\ n \in b.known
    BY <1>1, <1>2, <2>1, <2>2, MergeMembersCommute
  <2>3. CASE n \notin a.known \/ n \notin b.known
    <3>1. ab.members[n] = ba.members[n]
      BY <1>1, <1>2, <2>1, <2>3
    <3> QED BY <3>1 DEF SamePresence
  <2> QED BY <2>2, <2>3
<1>4. Digest(ab) = Digest(ba)
  BY <1>1, <1>2, <1>3, SameDigest
<1> QED BY <1>4 DEF ab, ba

LEMMA MergedRoomsAssociate ==
  ASSUME NEW a \in Rooms, NEW b \in Rooms, NEW c \in Rooms
  PROVE  Digest(MergedRoom(MergedRoom(a, b), c)) = Digest(MergedRoom(a, MergedRoom(b, c)))
<1> DEFINE ab == MergedRoom(a, b)
           bc == MergedRoom(b, c)
           left == MergedRoom(ab, c)
           right == MergedRoom(a, bc)
<1>1. /\ ab \in Rooms /\ ab.known = a.known \cup b.known
      /\ \A n \in Nodes :
           /\ n \in b.known /\ n \in a.known =>
                ab.members[n] = MergeMember(a.members[n], b.members[n])
           /\ n \in b.known /\ n \notin a.known => ab.members[n] = b.members[n]
           /\ n \notin b.known => ab.members[n] = a.members[n]
  BY MergedRoomFacts
<1>2. /\ bc \in Rooms /\ bc.known = b.known \cup c.known
      /\ \A n \in Nodes :
           /\ n \in c.known /\ n \in b.known =>
                bc.members[n] = MergeMember(b.members[n], c.members[n])
           /\ n \in c.known /\ n \notin b.known => bc.members[n] = c.members[n]
           /\ n \notin c.known => bc.members[n] = b.members[n]
  BY MergedRoomFacts
<1> HIDE DEF ab, bc
<1>3. /\ left.known = ab.known \cup c.known
      /\ \A n \in Nodes :
           /\ n \in c.known /\ n \in ab.known =>
                left.members[n] = MergeMember(ab.members[n], c.members[n])
           /\ n \in c.known /\ n \notin ab.known => left.members[n] = c.members[n]
           /\ n \notin c.known => left.members[n] = ab.members[n]
  BY <1>1, MergedRoomFacts
<1>4. /\ right.known = a.known \cup bc.known
      /\ \A n \in Nodes :
           /\ n \in bc.known /\ n \in a.known =>
                right.members[n] = MergeMember(a.members[n], bc.members[n])
           /\ n \in bc.known /\ n \notin a.known => right.members[n] = bc.members[n]
           /\ n \notin bc.known => right.members[n] = a.members[n]
  BY <1>2, MergedRoomFacts
<1> HIDE DEF left, right
<1>5. left.known = right.known
  BY <1>1, <1>2, <1>3, <1>4
<1>6. ASSUME NEW n \in left.known PROVE SamePresence(left.members[n], right.members[n])
  <2>1. /\ n \in Nodes /\ a.members[n] \in Members /\ b.members[n] \in Members
        /\ c.members[n] \in Members
    BY <1>1, <1>3, RoomFields
  <2>2. CASE n \in a.known /\ n \in b.known /\ n \in c.known
    <3>1. /\ left.members[n] = MergeMember(MergeMember(a.members[n], b.members[n]), c.members[n])
          /\ right.members[n] = MergeMember(a.members[n], MergeMember(b.members[n], c.members[n]))
      BY <1>1, <1>2, <1>3, <1>4, <2>1, <2>2
    <3> QED BY <2>1, <3>1, MergeMembersAssociate
  <2>3. CASE n \notin a.known \/ n \notin b.known \/ n \notin c.known
    <3>1. left.members[n] = right.members[n]
      BY <1>1, <1>2, <1>3, <1>4, <2>1, <2>3
    <3> QED BY <3>1 DEF SamePresence
  <2> QED BY <2>2, <2>3
<1>7. Digest(left) = Digest(right)
  BY <1>5, <1>6, SameDigest
<1> QED BY <1>7 DEF left, right, ab, bc

(* Replicas that reconcile agree: merging rooms is commutative and         *)
(* associative in what the digest compares, so neither who merges whom nor *)
(* the order of three matters.                                             *)
THEOREM MergesReconcile == RecoverySpec => []MergeReconciles
<1>1. RecoveryTypeOK => MergeReconciles
  <2>1. SUFFICES ASSUME RecoveryTypeOK PROVE MergeReconciles
    OBVIOUS
  <2>2. \A r \in Nodes : room[r] \in Rooms
    BY <2>1 DEF RecoveryTypeOK, TypeOK
  <2>3. ASSUME NEW p \in Nodes, NEW q \in Nodes
        PROVE  Digest(MergedRoom(room[p], room[q])) = Digest(MergedRoom(room[q], room[p]))
    BY <2>2, MergedRoomsCommute
  <2>4. ASSUME NEW p \in Nodes, NEW q \in Nodes, NEW r \in Nodes
        PROVE  Digest(MergedRoom(MergedRoom(room[p], room[q]), room[r]))
                 = Digest(MergedRoom(room[p], MergedRoom(room[q], room[r])))
    BY <2>2, MergedRoomsAssociate
  <2> QED BY <2>3, <2>4 DEF MergeReconciles, MergedRoom
<1> QED BY <1>1, RecoveryTypeCorrect, PTL

-----------------------------------------------------------------------------
(* Effects *)

\* The members a sweep reports are those it turns absent.
LEMMA SweptPresence ==
  ASSUME NEW ro \in Rooms, NEW now, NEW stale
  PROVE  Present(PruneStale(ro, now, stale)) = Present(ro) \ Stale(ro, now, stale)
<1> DEFINE gone == Stale(ro, now, stale)
           members == [n \in Nodes |->
             IF n \in gone THEN [ro.members[n] EXCEPT !.present = FALSE] ELSE ro.members[n]]
           p == PruneStale(ro, now, stale)
<1>1. p.known = ro.known /\ p.members = members
  BY RoomFields DEF PruneStale, Rooms
<1>2. ASSUME NEW n \in Nodes
      PROVE  members[n].present <=> n \notin gone /\ ro.members[n].present
  <2>1. ro.members[n] \in Members
    BY RoomFields
  <2> HIDE DEF gone
  <2>2. CASE n \in gone
    BY <2>1, <2>2 DEF Members
  <2>3. CASE n \notin gone
    BY <2>3
  <2> QED  BY <2>2, <2>3
<1>3. ro.known \subseteq Nodes
  BY RoomFields
<1> HIDE DEF gone, members, p
<1>4. Present(p) = Present(ro) \ gone
  BY <1>1, <1>2, <1>3 DEF Present
<1> QED  BY <1>4 DEF gone, p

\* The members a merge reports are those whose presence it turns over.
LEMMA MergedPresence ==
  ASSUME NEW ro \in Rooms, NEW snap \in Snapshots
  PROVE  LET changed == MergeChanged(ro, snap)
         IN  Present(MergeSnapshot(ro, snap)) = (Present(ro) \ changed) \cup (changed \ Present(ro))
<1> DEFINE changed == MergeChanged(ro, snap)
           p == MergeSnapshot(ro, snap)
           Turned(n) == n \in changed
<1>0. /\ p.known = ro.known \cup snap.known
      /\ ro.known \subseteq Nodes /\ snap.known \subseteq Nodes
      /\ changed \subseteq snap.known
  BY MergeFacts, RoomFields, SnapshotFields DEF MergeChanged
<1>1. ASSUME NEW n \in Nodes
      PROVE  n \in Present(p) <=> (n \in Present(ro) /\ ~Turned(n)) \/ (Turned(n) /\ n \notin Present(ro))
  <2> DEFINE m == ro.members[n]
             om == snap.members[n]
             k == p.members[n]
  <2>1. /\ m \in Members /\ om \in Members
        /\ m.last_seq \in Nat /\ om.last_seq \in Nat
        /\ m.present \in BOOLEAN /\ om.present \in BOOLEAN
    BY RoomFields, SnapshotFields, MemberFields, SeqsAreNat
  <2>2. /\ n \in snap.known /\ n \in ro.known => k = MergeMember(m, om)
        /\ n \in snap.known /\ n \notin ro.known => k = om
        /\ n \notin snap.known => k = m
    BY MergeFacts
  <2>3. /\ n \in Present(p) <=> n \in ro.known \cup snap.known /\ k.present
        /\ n \in Present(ro) <=> n \in ro.known /\ m.present
    BY <1>0 DEF Present
  <2>4. Turned(n) <=>
          /\ n \in snap.known
          /\ \/ n \notin ro.known /\ om.present
             \/ n \in ro.known /\ om.last_seq > m.last_seq /\ om.present # m.present
             \/ n \in ro.known /\ om.last_seq = m.last_seq /\ ~om.present /\ m.present
    BY DEF MergeChanged
  <2> HIDE DEF p, changed, Turned
  <2>5. CASE n \in snap.known /\ n \in ro.known
    <3>1. /\ om.last_seq > m.last_seq => (k.present <=> om.present)
          /\ om.last_seq = m.last_seq => (k.present <=> m.present /\ om.present)
          /\ om.last_seq < m.last_seq => (k.present <=> m.present)
      <4> HIDE DEF m, om, k
      <4> QED  BY <2>1, <2>2, <2>5, MergeMemberFacts
    <3> HIDE DEF m, om, k
    <3>2. \/ om.last_seq > m.last_seq \/ om.last_seq = m.last_seq
          \/ om.last_seq < m.last_seq /\ ~(om.last_seq > m.last_seq) /\ om.last_seq # m.last_seq
      BY <2>1
    <3>3. om.last_seq > m.last_seq => om.last_seq # m.last_seq
      BY <2>1
    <3> QED  BY <2>1, <2>3, <2>4, <2>5, <3>1, <3>2, <3>3
  <2>6. CASE ~(n \in snap.known /\ n \in ro.known)
    <3> HIDE DEF m, om, k
    <3> QED  BY <2>2, <2>3, <2>4, <2>6
  <2> QED  BY <2>5, <2>6
<1>2. Present(p) \subseteq Nodes /\ Present(ro) \subseteq Nodes /\ changed \subseteq Nodes
  BY <1>0 DEF Present
<1> HIDE DEF p, changed
<1> QED  BY <1>1, <1>2 DEF p, changed

\* A step that replaces r's room and tiles in accord, or leaves all tiles in place.
LEMMA TilesReplaced ==
  ASSUME RecoveryTypeOK, EffectsTrackPresence, NEW r \in Nodes, NEW ro,
         room' = [room EXCEPT ![r] = ro],
         shown' = [shown EXCEPT ![r] = Present(ro)]
  PROVE  EffectsTrackPresence'
<1>1. /\ room'[r] = ro /\ shown'[r] = Present(ro)
      /\ \A q \in Nodes \ {r} : room'[q] = room[q] /\ shown'[q] = shown[q]
  BY DEF RecoveryTypeOK, TypeOK
<1>2. ASSUME NEW q \in Nodes PROVE shown'[q] = Present(room'[q])
  BY <1>1 DEF EffectsTrackPresence
<1> QED  BY <1>2 DEF EffectsTrackPresence

(* An application that follows the effects, the sweeps and the merges      *)
(* (prune_stale and merge_snapshot return whom they changed, room.rs), and *)
(* redraws after a restart, shows exactly who is present.                  *)
THEOREM TilesFollowReports == RecoverySpec => []EffectsTrackPresence
<1> DEFINE TilesInv == RecoveryTypeOK /\ EffectsTrackPresence
<1>1. RecoveryInit => TilesInv
  <2>1. SUFFICES ASSUME RecoveryInit PROVE EffectsTrackPresence
    BY RecoveryTypeInit
  <2> QED  BY <2>1 DEF RecoveryInit, Init, EffectsTrackPresence, Present, NewRoom
<1>2. TilesInv /\ [RecoveryNext]_recoveryVars => TilesInv'
  <2>1. SUFFICES ASSUME RecoveryTypeOK, EffectsTrackPresence, [RecoveryNext]_recoveryVars
                 PROVE  EffectsTrackPresence'
    BY RecoveryTypeStep
  <2>2. TypeOK /\ saved \in [Nodes -> Snapshots]
    BY <2>1 DEF RecoveryTypeOK
  <2>3. ASSUME [Next]_vars PROVE EffectsTrackPresence'
    BY <2>1, <2>2, <2>3, TileStep DEF TileInv
  <2>4. ASSUME NEW r \in Nodes, Prune(r) PROVE EffectsTrackPresence'
    <3>1. PICK at \in Times :
            /\ room' = [room EXCEPT ![r] = PruneStale(room[r], at, StaleSecs)]
            /\ shown' = [shown EXCEPT ![r] = shown[r] \ Stale(room[r], at, StaleSecs)]
      BY <2>4 DEF Prune
    <3>2. Present(PruneStale(room[r], at, StaleSecs)) = shown[r] \ Stale(room[r], at, StaleSecs)
      BY <2>1, <2>2, StayingPut, SweptPresence DEF EffectsTrackPresence
    <3> QED  BY <2>1, <3>1, <3>2, TilesReplaced
  <2>5. ASSUME NEW r \in Nodes, Restart(r) PROVE EffectsTrackPresence'
    BY <2>1, <2>5, TilesReplaced DEF Restart
  <2>6. ASSUME NEW r \in Nodes, StartAfresh(r) PROVE EffectsTrackPresence'
    <3>1. Present(NewRoom(MaxMembers[r])) = {}
      BY DEF Present, NewRoom
    <3> QED  BY <2>1, <2>6, <3>1, TilesReplaced DEF StartAfresh
  <2>7. ASSUME NEW r \in Nodes, ResumeOutbound(r) PROVE EffectsTrackPresence'
    <3> DEFINE ro == ResumeOutboundFrom(room[r], saved[r].next_seq)
    <3>1. ro.known = room[r].known /\ ro.members = room[r].members
      BY <2>2, StayingPut, SnapshotFields, ResumeFacts
    <3>2. room' = [room EXCEPT ![r] = ro] /\ shown' = [shown EXCEPT ![r] = shown[r]]
      BY <2>2, <2>7, StayingPut DEF ResumeOutbound
    <3> HIDE DEF ro
    <3>3. Present(ro) = shown[r]
      BY <2>1, <3>1 DEF EffectsTrackPresence, Present
    <3> QED  BY <2>1, <3>2, <3>3, TilesReplaced
  <2>8. ASSUME NEW r \in Nodes, NEW q \in Nodes, Merge(r, q) PROVE EffectsTrackPresence'
    <3> DEFINE changed == MergeChanged(room[r], saved[q])
               tiles == (shown[r] \ changed) \cup (changed \ shown[r])
               ro == MergeSnapshot(room[r], saved[q])
    <3>1. room' = [room EXCEPT ![r] = ro] /\ shown' = [shown EXCEPT ![r] = tiles]
      BY <2>8 DEF Merge
    <3>2. Present(ro) = tiles
      BY <2>1, <2>2, StayingPut, MergedPresence DEF EffectsTrackPresence
    <3> HIDE DEF ro, tiles
    <3> QED  BY <2>1, <3>1, <3>2, TilesReplaced
  <2>9. ASSUME UNCHANGED vars PROVE EffectsTrackPresence'
    BY <2>3, <2>9
  <2> QED  BY <2>1, <2>3, <2>4, <2>5, <2>6, <2>7, <2>8, <2>9
           DEF RecoveryNext, recoveryVars, Save
<1> HIDE DEF TilesInv
<1>3. RecoverySpec => []TilesInv
  BY <1>1, <1>2, PTL DEF RecoverySpec
<1>4. TilesInv => EffectsTrackPresence
  BY DEF TilesInv
<1> QED  BY <1>3, <1>4, PTL
=============================================================================
