---------------------------- MODULE RoomReplicas ----------------------------
(***************************************************************************)
(* The participants of one room, each with its own Room, over pubsub.      *)
(*                                                                         *)
(* Pubsub is at-most-once, unordered and duplicating: an envelope that was *)
(* published may reach a participant at any later time, any number of      *)
(* times, in any order, or never.  So the channel is the set of everything *)
(* ever published, and delivering an envelope does not remove it.          *)
(*                                                                         *)
(* Clocks are not synchronised: sent_at is whatever reading of Times the   *)
(* sender's clock gives when it publishes.                                 *)
(*                                                                         *)
(* heard and shown are history variables: what a replica absorbed, and the *)
(* set of tiles an application displays that adds a node at each Joined    *)
(* effect and removes it at each Left.                                     *)
(***************************************************************************)
EXTENDS Roster

CONSTANTS
  Speakers,    \* bound: the participants that publish
  SpokenKinds, \* SpokenKinds[n], bound: the kinds of signal n publishes
  Times,       \* bound: the readings of a clock
  MaxSends,    \* MaxSends[n], bound: how many sequence numbers n allocates
  MaxPublished,\* bound: how many envelopes are published
  MaxMembers   \* MaxMembers[n]: the argument participant n gives with_max_members

ASSUME SpeakersAssumption == Speakers \subseteq Nodes
ASSUME KindsAssumption == SpokenKinds \in [Nodes -> SUBSET Kinds]
ASSUME TimesAssumption == Times \subseteq Nat
ASSUME SendsAssumption == MaxSends \in [Nodes -> 0 .. U64Max]
ASSUME CapsAssumption == MaxMembers \in [Nodes -> Nat]

VARIABLES
  room,      \* room[n]: the Room of participant n
  published, \* every envelope the node accepted for the topic
  heard,     \* history: the presence and media envelopes n's roster absorbed
  shown      \* history: the tiles n's application displays

vars == <<room, published, heard, shown>>

TypeOK ==
  /\ room \in [Nodes -> Rooms]
  /\ published \subseteq Envelopes
  /\ heard \in [Nodes -> SUBSET Envelopes]
  /\ shown \in [Nodes -> SUBSET Nodes]

Init ==
  /\ room = [n \in Nodes |-> NewRoom(MaxMembers[n])]
  /\ published = {}
  /\ heard = [n \in Nodes |-> {}]
  /\ shown = [n \in Nodes |-> {}]

-----------------------------------------------------------------------------
(* Sending *)

\* Wrong variant: the counter is read and not advanced.
AllocateSeqOnlyReads(n) == room[n].next_seq < MaxSends[n] /\ UNCHANGED room

\* next_outbound_seq: the number is taken before anything is published.
AllocateSeq(n) ==
  /\ room[n].next_seq < MaxSends[n]
  /\ room' = [room EXCEPT ![n].next_seq = @ + 1]

\* announce_join, announce_leave, keepalive, broadcast and signal_peer.
Send(n) ==
  /\ AllocateSeq(n)
  /\ Cardinality(published) < MaxPublished
  /\ \E kind \in SpokenKinds[n] : \E body \in BodiesOf(kind) : \E at \in Times :
       published' = published \cup
         {[from |-> n, seq |-> room[n].next_seq, sent_at |-> at,
           kind |-> kind, body |-> body]}
  /\ UNCHANGED <<heard, shown>>

\* The same when validation, encoding or the node refuses: the seq is spent.
SendFails(n) ==
  /\ AllocateSeq(n)
  /\ UNCHANGED <<published, heard, shown>>

-----------------------------------------------------------------------------
(* Receiving: poll and event_loop hand one envelope to apply_message *)

Absorbed(r, e) ==
  IF e.kind \in PresenceKinds \cup MediaKinds /\ e.from \in Apply(room[r], e).known
  THEN {e} ELSE {}

\* The tiles an application shows after an effect about node n.
Tiles(tiles, effect, n) ==
  IF effect = "Joined" THEN tiles \cup {n}
  ELSE IF effect = "Left" THEN tiles \ {n} ELSE tiles

Receive(r, e) ==
  /\ e.from # r  \* our own echo
  /\ room' = [room EXCEPT ![r] = Apply(@, e)]
  /\ heard' = [heard EXCEPT ![r] = @ \cup Absorbed(r, e)]
  /\ shown' = [shown EXCEPT ![r] = Tiles(@, Effect(room[r], e), e.from)]
  /\ UNCHANGED published

Next ==
  \/ \E n \in Speakers : Send(n)
  \/ \E n \in Speakers : SendFails(n)
  \/ \E r \in Nodes : \E e \in published : Receive(r, e)

Spec == Init /\ [][Next]_vars

-----------------------------------------------------------------------------
(* What a replica ought to hold, computed from what it heard alone *)

Assertions(r, n) == {e \in heard[r] : e.from = n /\ e.kind \in PresenceKinds}

MediaHeard(r, n, d) == {e \in heard[r] : e.from = n /\ e.kind = d}

\* e is the latest of the set: no element has a higher seq.
IsLatest(e, set) == e \in set /\ \A f \in set : f.seq <= e.seq

-----------------------------------------------------------------------------
(* Properties *)

(* The presence of a member is the last word of its sender among what was  *)
(* heard, whatever the order and the duplicates: a member shown present    *)
(* did assert it with its highest seq, and no Leave of that seq or later   *)
(* was heard; above seq 0 the converse holds as well.  (Room::lww and the  *)
(* placeholder of media_lww.)                                              *)
PresenceIsLastWord ==
  \A r \in Nodes : \A n \in room[r].known :
    LET m == room[r].members[n]
        said == Assertions(r, n)
    IN  /\ \A e \in said : e.seq <= m.last_seq
        /\ m.last_seq > 0 \/ m.present => \E e \in said : e.seq = m.last_seq
        /\ m.present => \A e \in said : e.seq = m.last_seq => AssertsPresent(e)
        /\ m.last_seq > 0 /\ ~m.present =>
             \E e \in said : e.seq = m.last_seq /\ ~AssertsPresent(e)

(* Two replicas that heard the same presence assertions of a member, one   *)
(* of them above seq 0, agree on its digest entry: "all replicas that have *)
(* seen the same set of envelopes agree" (room.rs:13).                     *)
Convergence ==
  \A r, q \in Nodes : \A n \in room[r].known \cap room[q].known :
    /\ Assertions(r, n) = Assertions(q, n)
    /\ \E e \in Assertions(r, n) : e.seq > 0
    => Digest(room[r])[n] = Digest(room[q])[n]

(* The state of each media dimension is what the latest signal heard for   *)
(* it set, independently of the two others and of presence, and the floor  *)
(* is one past that signal (MediaUpdate and media_lww).                    *)
MediaIsLastWord ==
  \A r \in Nodes : \A n \in room[r].known : \A d \in MediaKinds :
    LET m == room[r].members[n]
        said == MediaHeard(r, n, d)
    IN  /\ said = {} => m.floor[d] = 0 /\ m.value[d] = DefaultValue
        /\ \A e \in said : IsLatest(e, said) =>
             m.floor[d] = NextAfter(e.seq) /\ m.value[d] = e.body

(* An application that only follows the Joined and Left effects shows      *)
(* exactly the members that are present: no effect is missing, doubled or  *)
(* contradicts the roster (the effects of Room::apply).                    *)
EffectsTrackPresence == \A r \in Nodes : shown[r] = Present(room[r])

(* A sequence number names one signal of its sender: next_outbound_seq is  *)
(* taken before the publish, so a failed publish leaves a hole and never a *)
(* second signal under the same number.  The registers rely on it.         *)
SeqNamesOneSignal ==
  /\ \A e, f \in published : e.from = f.from /\ e.seq = f.seq => e = f
  /\ \A e \in published : e.seq < room[e.from].next_seq

(* A flood of new senders never grows a roster past its cap, by presence   *)
(* or by media placeholders (max_members).                                 *)
RosterWithinCap ==
  \A r \in Nodes : Cardinality(room[r].known) <= room[r].max_members

(* No step takes a register of a roster back: a member is never forgotten, *)
(* and its last_seq, last_seen and media floors never decrease.            *)
RegistersOnlyAdvance ==
  [][\A r \in Nodes :
       /\ room[r].known \subseteq room'[r].known
       /\ room[r].next_seq <= room'[r].next_seq
       /\ \A n \in room[r].known :
            LET m == room[r].members[n]
                later == room'[r].members[n]
            IN  /\ m.last_seq <= later.last_seq
                /\ m.last_seen <= later.last_seen
                /\ \A d \in MediaKinds : m.floor[d] <= later.floor[d]]_vars

(* Every keepalive that may arrive counts for pruning: if its sender is    *)
(* present once it is processed, last_seen is at least its sent_at, even   *)
(* when the register ignores its seq (Room::apply, the Keepalive arm).     *)
EveryKeepaliveCounts ==
  \A r \in Nodes : \A e \in published :
    LET after == Apply(room[r], e)
    IN  e.from # r /\ e.kind = "Keepalive" /\ e.from \in Present(after)
          => e.sent_at <= after.members[e.from].last_seen

-----------------------------------------------------------------------------
(* What the documentation says and the code does not do *)

(* README.md and room.rs:10-13: replicas that have seen the same set of    *)
(* envelopes agree on membership, whatever the order of arrival.           *)
StrictConvergence ==
  \A r, q \in Nodes : \A n \in room[r].known \cap room[q].known :
    heard[r] = heard[q] => Digest(room[r])[n] = Digest(room[q])[n]
=============================================================================
