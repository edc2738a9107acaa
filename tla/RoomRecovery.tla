---------------------------- MODULE RoomRecovery ----------------------------
(***************************************************************************)
(* RoomReplicas with everything that lets a replica change other than by   *)
(* hearing an envelope: the liveness sweep (prune_stale), the snapshot a   *)
(* host persists, the restart from it, the restart without one, the        *)
(* resumed outbound counter, and the merge of another replica's snapshot.  *)
(*                                                                         *)
(* A snapshot is saved in one step here (save_atomic either replaces the   *)
(* file or leaves the old one) and stays readable by everyone, as a blob a *)
(* second host fetches: restarts and merges use whatever was saved last.   *)
(***************************************************************************)
EXTENDS RoomReplicas

CONSTANTS
  StaleSecs, \* the stale_secs every replica gives prune_stale
  Keepers    \* bound: the participants that persist snapshots

ASSUME KeepersAssumption == Keepers \subseteq Nodes
ASSUME StaleAssumption == StaleSecs \in Nat

VARIABLES
  stored,     \* the participants that have persisted a snapshot
  saved,      \* saved[n]: the snapshot n persisted last
  savedHeard  \* history: what n had heard when it persisted it

storage == <<stored, saved, savedHeard>>
recoveryVars == <<vars, storage>>

RecoveryTypeOK ==
  /\ TypeOK
  /\ stored \subseteq Nodes
  /\ saved \in [Nodes -> Snapshots]
  /\ savedHeard \in [Nodes -> SUBSET Envelopes]

RecoveryInit ==
  /\ Init
  /\ stored = {}
  /\ saved = [n \in Nodes |-> Snapshot(NewRoom(MaxMembers[n]))]
  /\ savedHeard = [n \in Nodes |-> {}]

-----------------------------------------------------------------------------

\* Room::prune_stale at a reading of r's clock; the caller shows what it returns.
Prune(r) ==
  /\ \E now \in Times :
       /\ room' = [room EXCEPT ![r] = PruneStale(@, now, StaleSecs)]
       /\ shown' = [shown EXCEPT ![r] = @ \ Stale(room[r], now, StaleSecs)]
  /\ UNCHANGED <<published, heard, storage>>

\* Room::snapshot and RoomSnapshot::save_atomic
Save(r) ==
  /\ stored' = stored \cup {r}
  /\ saved' = [saved EXCEPT ![r] = Snapshot(room[r])]
  /\ savedHeard' = [savedHeard EXCEPT ![r] = heard[r]]
  /\ UNCHANGED vars

\* A crash, RoomSnapshot::load and MeetClient::restore; the tiles are redrawn.
Restart(r) ==
  /\ r \in stored
  /\ room' = [room EXCEPT ![r] = Restore(saved[r])]
  /\ heard' = [heard EXCEPT ![r] = savedHeard[r]]
  /\ shown' = [shown EXCEPT ![r] = Present(Restore(saved[r]))]
  /\ UNCHANGED <<published, storage>>

\* A crash and MeetClient::new: every run of the command line starts so.
StartAfresh(r) ==
  /\ room' = [room EXCEPT ![r] = NewRoom(MaxMembers[r])]
  /\ heard' = [heard EXCEPT ![r] = {}]
  /\ shown' = [shown EXCEPT ![r] = {}]
  /\ UNCHANGED <<published, storage>>

\* resume_outbound_from with the next_seq of r's persisted snapshot
ResumeOutbound(r) ==
  /\ r \in stored
  /\ room' = [room EXCEPT ![r] = ResumeOutboundFrom(@, saved[r].next_seq)]
  /\ UNCHANGED <<published, heard, shown, storage>>

\* What r's roster absorbs from q's snapshot: media only with a new member.
AbsorbedFrom(r, q) ==
  {e \in savedHeard[q] : e.kind \in PresenceKinds \/ e.from \notin room[r].known}

\* Room::merge_snapshot; a reported node flips on the screen.
Merge(r, q) ==
  /\ q \in stored
  /\ room' = [room EXCEPT ![r] = MergeSnapshot(@, saved[q])]
  /\ heard' = [heard EXCEPT ![r] = @ \cup AbsorbedFrom(r, q)]
  /\ LET changed == MergeChanged(room[r], saved[q])
     IN  shown' = [shown EXCEPT ![r] = (@ \ changed) \cup (changed \ @)]
  /\ UNCHANGED <<published, storage>>

RecoveryNext ==
  \/ Next /\ UNCHANGED storage
  \/ \E r \in Nodes : Prune(r)
  \/ \E r \in Keepers : Save(r)
  \/ \E r \in Nodes : Restart(r)
  \/ \E r \in Nodes : StartAfresh(r)
  \/ \E r \in Nodes : ResumeOutbound(r)
  \/ \E r \in Nodes : \E q \in Nodes \ {r} : Merge(r, q)

RecoverySpec == RecoveryInit /\ [][RecoveryNext]_recoveryVars

-----------------------------------------------------------------------------
(* Properties *)

(* Nobody is shown present against a Leave: whatever mixture of envelopes, *)
(* sweeps, restarts and merges a replica went through, a present member    *)
(* asserted presence with the highest seq the replica took in from it, and *)
(* no Leave of that seq or later was taken in.                             *)
BelievedOn(members, said) ==
  \A n \in Nodes :
    LET own == {e \in said : e.from = n /\ e.kind \in PresenceKinds}
    IN  /\ \A e \in own : e.seq <= members[n].last_seq
        /\ members[n].last_seq > 0 \/ members[n].present =>
             \E e \in own : e.seq = members[n].last_seq
        /\ members[n].present =>
             \A e \in own : e.seq = members[n].last_seq => AssertsPresent(e)

NoResurrection == \A r \in Nodes : BelievedOn(room[r].members, heard[r])

\* The same of what is on disk: the invariant a restart relies on.
SavedBelief == \A r \in Nodes : BelievedOn(saved[r].members, savedHeard[r])

(* Two replicas that reconcile agree on membership: merging each other's   *)
(* state gives both the same digest, and a third replica may be merged in  *)
(* any order (merge_snapshot is "commutative and convergent", room.rs:532).*)
MergeReconciles ==
  LET merged(a, b) == MergeSnapshot(a, Snapshot(b))
  IN  \A p, q \in Nodes :
        /\ Digest(merged(room[p], room[q])) = Digest(merged(room[q], room[p]))
        /\ \A r \in Nodes :
             Digest(merged(merged(room[p], room[q]), room[r]))
               = Digest(merged(room[p], merged(room[q], room[r])))

(* Outside a restart no register goes back, not even by a merge with an    *)
(* older snapshot or a resumed counter below the current one.              *)
OnlyRestartsGoBack ==
  [][\A r \in Nodes :
       \/ Restart(r) \/ StartAfresh(r)
       \/ /\ room[r].known \subseteq room'[r].known
          /\ room[r].next_seq <= room'[r].next_seq
          /\ \A n \in room[r].known :
               LET m == room[r].members[n]
                   later == room'[r].members[n]
               IN  /\ m.last_seq <= later.last_seq
                   /\ m.last_seen <= later.last_seen
                   /\ \A d \in MediaKinds : m.floor[d] <= later.floor[d]]_recoveryVars
=============================================================================
