------------------------------- MODULE Roster -------------------------------
(***************************************************************************)
(* The roster of a room (src/src/room.rs) as operators on its value: what  *)
(* Room::apply, prune_stale, snapshot, restore and merge_snapshot make of  *)
(* a room, and the effect each of them reports.  No state lives here: the  *)
(* state machines RoomReplicas and RoomRecovery keep one room per          *)
(* participant and use these operators as their steps.                     *)
(*                                                                         *)
(* A room is a record.  The HashMap from node id to Member is the pair of  *)
(* its key set, known, and a total function, members, that holds Blank     *)
(* for the nodes that are not keys.  Only one room is modelled: envelopes  *)
(* of another room reach nobody (topic filter, first guard of apply).      *)
(***************************************************************************)
EXTENDS Naturals, FiniteSets

CONSTANTS
  Nodes,        \* node ids of the participants
  Names,        \* display names a Join may carry
  NoName,       \* display_name = None
  MediaValues,  \* what a media signal sets (the two mute flags of Media are one value)
  DefaultValue, \* "not muted", "not sharing", "hand down"
  U64Max,       \* the largest sequence number (u64::MAX in the code)
  DefaultMaxMembers  \* DEFAULT_MAX_MEMBERS

ASSUME NamesAssumption == NoName \notin Names
ASSUME MediaAssumption == DefaultValue \in MediaValues
ASSUME U64Assumption == U64Max \in Nat \ {0}
ASSUME CapAssumption == DefaultMaxMembers \in Nat \ {0}

-----------------------------------------------------------------------------
(* Signals and envelopes *)

PresenceKinds == {"Join", "Leave", "Keepalive"}
MediaKinds == {"Media", "ScreenShare", "RaiseHand"}
TransientKinds == {"Reaction", "Chat"}
\* Offer, Answer, IceCandidate, IceEnd, Kick and ForceMute: Room::apply only routes them.
DirectedKind == "Directed"
Kinds == PresenceKinds \cup MediaKinds \cup TransientKinds
           \cup {"Recording", "EndRoom", DirectedKind}

Seqs == 0 .. U64Max

\* What a signal carries that the roster keeps: a name (Join) or a media value.
Payloads == Names \cup {NoName} \cup MediaValues

\* The payloads a signal of a kind can carry (the variants of Signal).
BodiesOf(kind) ==
  IF kind = "Join" THEN Names \cup {NoName}
  ELSE IF kind \in MediaKinds THEN MediaValues ELSE {NoName}

Envelopes ==
  {e \in [from : Nodes, seq : Seqs, sent_at : Nat, kind : Kinds, body : Payloads] :
     e.body \in BodiesOf(e.kind)}

\* A Join and a Keepalive assert presence, a Leave asserts absence.
AssertsPresent(e) == e.kind \in {"Join", "Keepalive"}

-----------------------------------------------------------------------------
(* Members and rooms *)

Members == [present : BOOLEAN,
            display_name : Names \cup {NoName},
            last_seq : Seqs,
            last_seen : Nat,
            value : [MediaKinds -> MediaValues],
            floor : [MediaKinds -> Seqs]]

Rooms == [known : SUBSET Nodes,
          members : [Nodes -> Members],
          next_seq : Seqs,
          max_members : Nat \ {0},
          ended : BOOLEAN]

Snapshots == [known : SUBSET Nodes,
              members : [Nodes -> Members],
              next_seq : Seqs]

\* A member before anything of it was recorded.
Blank == [present |-> FALSE,
          display_name |-> NoName,
          last_seq |-> 0,
          last_seen |-> 0,
          value |-> [d \in MediaKinds |-> DefaultValue],
          floor |-> [d \in MediaKinds |-> 0]]

\* Wrong variant: with_max_members without max(1).
NewRoomUnclamped(max) ==
  [known |-> {}, members |-> [n \in Nodes |-> Blank], next_seq |-> 0,
   max_members |-> max, ended |-> FALSE]

\* Room::new followed by with_max_members.
NewRoom(max) ==
  [known |-> {},
   members |-> [n \in Nodes |-> Blank],
   next_seq |-> 0,
   max_members |-> IF max = 0 THEN 1 ELSE max,
   ended |-> FALSE]

Later(a, b) == IF a < b THEN b ELSE a

\* seq.saturating_add(1)
NextAfter(seq) == IF seq < U64Max THEN seq + 1 ELSE U64Max

HasSlot(room) == Cardinality(room.known) < room.max_members

Put(room, n, m) == [room EXCEPT !.known = @ \cup {n}, !.members[n] = m]

Present(room) == {n \in room.known : room.members[n].present}

\* last_seen of a known member moves forward to at, of an unknown one not at all.
Touch(room, n, at) ==
  IF n \in room.known
  THEN [room EXCEPT !.members[n].last_seen = Later(@, at)]
  ELSE room

-----------------------------------------------------------------------------
(* Presence: the last-writer-wins register *)

\* Wrong variants: the last arrival wins; a Leave does not advance last_seq;
\* a tie may turn an absent member present.
LwwMemberLastArrival(m, e) ==
  [m EXCEPT !.present = AssertsPresent(e), !.last_seq = Later(@, e.seq),
            !.last_seen = Later(@, e.sent_at)]
LwwMemberLeaveKeepsSeq(m, e) ==
  IF e.seq <= m.last_seq THEN m
  ELSE [m EXCEPT !.present = AssertsPresent(e), !.last_seen = Later(@, e.sent_at),
                 !.last_seq = IF AssertsPresent(e) THEN e.seq ELSE @]
LwwMemberTieRejoins(m, e) ==
  IF e.seq < m.last_seq THEN m
  ELSE [m EXCEPT !.present = AssertsPresent(e), !.last_seen = Later(@, e.sent_at),
                 !.last_seq = e.seq]

\* A presence assertion e meets the member m its sender already is.
LwwMember(m, e) ==
  LET newer == e.seq > m.last_seq
      tie == e.seq = m.last_seq
  IN  [m EXCEPT
        !.present = \/ newer /\ AssertsPresent(e)
                    \/ ~newer /\ @ /\ (tie => AssertsPresent(e)),
        !.display_name = IF (newer \/ tie) /\ e.kind = "Join" /\ e.body # NoName
                         THEN e.body ELSE @,
        !.last_seq = Later(@, e.seq),
        !.last_seen = IF newer \/ tie THEN Later(@, e.sent_at) ELSE @]

\* The member a presence assertion of an unknown sender creates.
FirstPresence(e) ==
  [Blank EXCEPT !.present = AssertsPresent(e),
                !.display_name = IF e.kind = "Join" THEN e.body ELSE NoName,
                !.last_seq = e.seq,
                !.last_seen = e.sent_at]

Lww(room, e) ==
  IF e.from \in room.known THEN Put(room, e.from, LwwMember(room.members[e.from], e))
  ELSE IF HasSlot(room) THEN Put(room, e.from, FirstPresence(e))
  ELSE room

LwwEffect(room, e) ==
  LET m == room.members[e.from]
      asserts == AssertsPresent(e)
  IN  CASE e.from \notin room.known ->
             IF HasSlot(room) /\ asserts THEN "Joined" ELSE "NoChange"
        [] e.from \in room.known /\ e.seq < m.last_seq -> "NoChange"
        [] e.from \in room.known /\ e.seq = m.last_seq ->
             IF ~asserts /\ m.present THEN "Left" ELSE "NoChange"
        [] e.from \in room.known /\ e.seq > m.last_seq ->
             IF asserts = m.present THEN "NoChange"
             ELSE IF asserts THEN "Joined" ELSE "Left"

\* Wrong variant: a keepalive is nothing but a presence assertion.
KeepaliveOnlyLww(room, e) == Lww(room, e)

\* A keepalive that the register ignored still refreshes a present member.
Keepalive(room, e) ==
  LET after == Lww(room, e)
  IN  IF LwwEffect(room, e) = "NoChange" /\ e.from \in Present(after)
      THEN Touch(after, e.from, e.sent_at)
      ELSE after

\* Wrong variant: a keepalive never reports the member it brought back.
KeepaliveEffectAlwaysRefreshed(room, e) == "Refreshed"

KeepaliveEffect(room, e) ==
  IF LwwEffect(room, e) = "NoChange" THEN "Refreshed" ELSE LwwEffect(room, e)

-----------------------------------------------------------------------------
(* Media: one register per dimension, with the next acceptable seq as floor *)

\* MediaUpdate::apply_to: the new value, and the floor one past its seq.
UpdateMedia(m, e) ==
  [m EXCEPT !.value[e.kind] = e.body, !.floor[e.kind] = NextAfter(e.seq)]

\* Wrong variants: one floor for all dimensions; last_seen without max.
MediaMemberSharedFloor(m, e) ==
  LET seen == [m EXCEPT !.last_seen = Later(@, e.sent_at)]
  IN  IF \E d \in MediaKinds : e.seq < m.floor[d] THEN seen ELSE UpdateMedia(seen, e)
MediaMemberClockBack(m, e) ==
  LET seen == [m EXCEPT !.last_seen = e.sent_at]
  IN  IF e.seq < m.floor[e.kind] THEN seen ELSE UpdateMedia(seen, e)

MediaMember(m, e) ==
  LET seen == [m EXCEPT !.last_seen = Later(@, e.sent_at)]
  IN  IF e.seq < m.floor[e.kind] THEN seen ELSE UpdateMedia(seen, e)

\* Media from an unknown sender leaves an absent placeholder at last_seq 0.
Placeholder(e) == UpdateMedia([Blank EXCEPT !.last_seen = e.sent_at], e)

\* Wrong variant: a placeholder is created past the cap.
MediaLwwNoCap(room, e) ==
  Put(room, e.from, IF e.from \in room.known
                    THEN MediaMember(room.members[e.from], e) ELSE Placeholder(e))

MediaLww(room, e) ==
  IF e.from \in room.known THEN Put(room, e.from, MediaMember(room.members[e.from], e))
  ELSE IF HasSlot(room) THEN Put(room, e.from, Placeholder(e))
  ELSE room

MediaEffect(room, e) ==
  IF \/ e.from \in room.known /\ e.seq >= room.members[e.from].floor[e.kind]
     \/ e.from \notin room.known /\ HasSlot(room)
  THEN "MediaChanged" ELSE "NoChange"

-----------------------------------------------------------------------------
(* Room::apply: the room after an envelope, and the effect reported *)

Apply(room, e) ==
  CASE e.kind = "Keepalive" -> Keepalive(room, e)
    [] e.kind \in {"Join", "Leave"} -> Lww(room, e)
    [] e.kind \in MediaKinds -> MediaLww(room, e)
    [] e.kind \in TransientKinds -> Touch(room, e.from, e.sent_at)
    [] e.kind = "EndRoom" -> [room EXCEPT !.ended = TRUE]
    [] e.kind \in {"Recording", DirectedKind} -> room

Effect(room, e) ==
  CASE e.kind = "Keepalive" -> KeepaliveEffect(room, e)
    [] e.kind \in {"Join", "Leave"} -> LwwEffect(room, e)
    [] e.kind \in MediaKinds -> MediaEffect(room, e)
    [] e.kind \in TransientKinds \cup {"Recording", DirectedKind} -> e.kind
    [] e.kind = "EndRoom" -> "RoomEnded"

-----------------------------------------------------------------------------
(* Pruning, snapshots and merging *)

\* Wrong variant: stale a second early.
StaleEarly(room, now, stale) ==
  {n \in Present(room) : now >= room.members[n].last_seen + stale}

\* now.saturating_sub(last_seen) > stale, for the members that are present
Stale(room, now, stale) ==
  {n \in Present(room) : now > room.members[n].last_seen + stale}

PruneStale(room, now, stale) ==
  [room EXCEPT !.members = [n \in Nodes |->
     IF n \in Stale(room, now, stale) THEN [@[n] EXCEPT !.present = FALSE] ELSE @[n]]]

\* Wrong variant: the registers' clocks are not persisted.
SnapshotForgetsSeq(room) ==
  [known |-> room.known,
   members |-> [n \in Nodes |-> [room.members[n] EXCEPT !.last_seq = 0]],
   next_seq |-> room.next_seq]

\* The cap and the ended flag are not part of a snapshot.
Snapshot(room) ==
  [known |-> room.known, members |-> room.members, next_seq |-> room.next_seq]

\* Wrong variant: the cap is zeroed, as Default::default() would.
RestoreZeroCap(snap) ==
  [known |-> snap.known, members |-> snap.members, next_seq |-> snap.next_seq,
   max_members |-> 0, ended |-> FALSE]

Restore(snap) ==
  [known |-> snap.known,
   members |-> snap.members,
   next_seq |-> snap.next_seq,
   max_members |-> DefaultMaxMembers,
   ended |-> FALSE]

\* Wrong variant: on a tie the local presence stays.
MergeMemberOursOnTie(m, om) ==
  IF om.last_seq > m.last_seq
  THEN [m EXCEPT !.present = om.present, !.last_seq = om.last_seq,
                 !.last_seen = Later(@, om.last_seen)]
  ELSE m

\* The member m meets another replica's record om of the same node.
MergeMember(m, om) ==
  LET newer == om.last_seq > m.last_seq
      tie == om.last_seq = m.last_seq
      name == om.display_name
  IN  [m EXCEPT
        !.present = \/ newer /\ om.present
                    \/ ~newer /\ @ /\ (tie => om.present),
        !.display_name = IF name # NoName /\ (newer \/ (tie /\ @ = NoName))
                         THEN name ELSE @,
        !.last_seq = Later(@, om.last_seq),
        !.last_seen = IF newer \/ tie THEN Later(@, om.last_seen) ELSE @]

MergeSnapshot(room, snap) ==
  [room EXCEPT
    !.known = @ \cup snap.known,
    !.members = [n \in Nodes |->
       CASE n \in snap.known /\ n \in room.known -> MergeMember(@[n], snap.members[n])
         [] n \in snap.known /\ n \notin room.known -> snap.members[n]
         [] n \notin snap.known -> @[n]]]

\* Wrong variant: the tie that turns a member absent is not reported.
MergeChangedTieSilent(room, snap) ==
  {n \in snap.known :
     \/ n \notin room.known /\ snap.members[n].present
     \/ /\ n \in room.known
        /\ snap.members[n].last_seq > room.members[n].last_seq
        /\ snap.members[n].present # room.members[n].present}

\* The node ids merge_snapshot reports: those whose presence it says it changed.
MergeChanged(room, snap) ==
  {n \in snap.known :
     LET m == room.members[n]
         om == snap.members[n]
     IN  \/ n \notin room.known /\ om.present
         \/ n \in room.known /\ om.last_seq > m.last_seq /\ om.present # m.present
         \/ n \in room.known /\ om.last_seq = m.last_seq /\ ~om.present /\ m.present}

\* Wrong variant: the counter is set to the floor, even backwards.
ResumeOutboundFromSets(room, lowest) == [room EXCEPT !.next_seq = lowest]

ResumeOutboundFrom(room, lowest) == [room EXCEPT !.next_seq = Later(@, lowest)]

\* Room::digest: what two replicas compare.
Digest(room) ==
  [n \in room.known |-> <<room.members[n].present, room.members[n].last_seq>>]
=============================================================================
