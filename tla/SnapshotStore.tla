---------------------------- MODULE SnapshotStore ----------------------------
(***************************************************************************)
(* RoomSnapshot::save_atomic and load (src/src/room.rs), file operation by *)
(* file operation, of host processes that persist to one path: create a    *)
(* temporary file, write, sync, rename over the destination, sync the      *)
(* directory.  Any operation may fail (the ? operator returns at once and  *)
(* leaves the temporary file), any process may be killed, and the power    *)
(* may fail at any moment.                                                 *)
(*                                                                         *)
(* Each call writes a file of its own: temporary names bear the process id *)
(* and next_seq, and calls that run at once are assumed to differ in one   *)
(* of them (a process that saves twice at once with one next_seq does not).*)
(* A left-over file of that name is truncated by create.                   *)
(*                                                                         *)
(* The file system: what is written but not synced may be lost from any    *)
(* point on when the power fails; the destination then names one of the    *)
(* files it named since the directory last reached the disk.               *)
(***************************************************************************)
EXTENDS Naturals, Sequences

CONSTANTS
  Saves,  \* the calls of save_atomic, each with a snapshot of its own
  NoSave, \* no file at the destination
  Blocks  \* the writes that one snapshot takes

ASSUME StoreAssumption == NoSave \notin Saves /\ Blocks \in Nat \ {0}

VARIABLES
  step,    \* step[s]: how far the call s came
  written, \* written[s]: how many blocks its file holds
  synced,  \* the calls whose file was synced
  dest,    \* the file the destination names
  onDisk,  \* the files it may name after a power failure
  settled, \* history: the calls whose directory sync succeeded
  renames  \* history: the calls in the order of their renames

vars == <<step, written, synced, dest, onDisk, settled, renames>>

Steps == {"idle", "writing", "synced", "renamed", "returned", "failed"}

TypeOK ==
  /\ step \in [Saves -> Steps]
  /\ written \in [Saves -> 0 .. Blocks]
  /\ synced \subseteq {s \in Saves : written[s] = Blocks}
  /\ dest \in Saves \cup {NoSave}
  /\ onDisk \subseteq Saves \cup {NoSave}
  /\ dest \in onDisk
  /\ settled \subseteq Saves
  /\ renames \in Seq(Saves)

Init ==
  /\ step = [s \in Saves |-> "idle"]
  /\ written = [s \in Saves |-> 0]
  /\ synced = {}
  /\ dest = NoSave
  /\ onDisk = {NoSave}
  /\ settled = {}
  /\ renames = <<>>

Goes(s, from, to) == step[s] = from /\ step' = [step EXCEPT ![s] = to]

-----------------------------------------------------------------------------
(* The operations of save_atomic *)

\* File::create
Create(s) ==
  /\ Goes(s, "idle", "writing")
  /\ UNCHANGED <<written, synced, dest, onDisk, settled, renames>>

\* one write of write_all
Write(s) ==
  /\ step[s] = "writing" /\ written[s] < Blocks
  /\ written' = [written EXCEPT ![s] = @ + 1]
  /\ UNCHANGED <<step, synced, dest, onDisk, settled, renames>>

\* Wrong variants: a sync that does not wait for the writes; flush taken for a sync.
SyncEarly(s) ==
  /\ Goes(s, "writing", "synced")
  /\ synced' = synced \cup {s}
  /\ UNCHANGED <<written, dest, onDisk, settled, renames>>
SyncOnlyFlushes(s) ==
  /\ written[s] = Blocks
  /\ Goes(s, "writing", "synced")
  /\ UNCHANGED <<written, synced, dest, onDisk, settled, renames>>

\* sync_all of the file
Sync(s) ==
  /\ written[s] = Blocks
  /\ Goes(s, "writing", "synced")
  /\ synced' = synced \cup {s}
  /\ UNCHANGED <<written, dest, onDisk, settled, renames>>

\* rename
Rename(s) ==
  /\ Goes(s, "synced", "renamed")
  /\ dest' = s
  /\ onDisk' = onDisk \cup {s}
  /\ renames' = Append(renames, s)
  /\ UNCHANGED <<written, synced, settled>>

\* Wrong variant: the directory is not synced.
SyncDirectoryOmitted(s) ==
  /\ Goes(s, "renamed", "returned")
  /\ settled' = settled \cup {s}
  /\ UNCHANGED <<written, synced, dest, onDisk, renames>>

\* sync_all of the parent directory, which also settles what others renamed
SyncDirectory(s) ==
  /\ Goes(s, "renamed", "returned")
  /\ onDisk' = {dest}
  /\ settled' = settled \cup {s}
  /\ UNCHANGED <<written, synced, dest, renames>>

\* The directory cannot be opened or synced: best effort, the call returns Ok.
SkipDirectory(s) ==
  /\ Goes(s, "renamed", "returned")
  /\ UNCHANGED <<written, synced, dest, onDisk, settled, renames>>

-----------------------------------------------------------------------------
(* Failures *)

\* An operation before or at the rename fails, or the process of s is killed.
Fail(s) ==
  /\ step[s] \in {"writing", "synced", "renamed"}
  /\ step' = [step EXCEPT ![s] = "failed"]
  /\ UNCHANGED <<written, synced, dest, onDisk, settled, renames>>

\* Every call under way is gone; unsynced files keep any part of their blocks.
PowerFailure ==
  /\ step' = [s \in Saves |->
       IF step[s] \in {"writing", "synced", "renamed"} THEN "failed" ELSE step[s]]
  /\ written' \in {w \in [Saves -> 0 .. Blocks] :
       \A s \in Saves : w[s] <= written[s] /\ (s \in synced => w[s] = written[s])}
  /\ dest' \in onDisk
  /\ onDisk' = {dest'}
  /\ UNCHANGED <<synced, settled, renames>>

Next ==
  \/ \E s \in Saves :
       \/ Create(s) \/ Write(s) \/ Sync(s) \/ Rename(s)
       \/ SyncDirectory(s) \/ SkipDirectory(s) \/ Fail(s)
  \/ PowerFailure

Spec == Init /\ [][Next]_vars

-----------------------------------------------------------------------------
(* Properties *)

\* What load makes of a file: from_bytes refuses what is not whole.
Loaded(f) ==
  IF f = NoSave THEN "nothing" ELSE IF written[f] = Blocks THEN f ELSE "malformed"

Store == INSTANCE AtomicSnapshot WITH
  Versions <- Saves, Nothing <- "nothing",
  current <- Loaded(dest), fallbacks <- {Loaded(f) : f \in onDisk}

(* save_atomic implements the atomic store: at every moment, and after any *)
(* crash, load returns the old snapshot or the new one and never a torn    *)
(* mix (room.rs:622-624).                                                  *)
ImplementsAtomicSnapshot == Store!StoreSpec

(* A snapshot whose directory reached the disk is never lost: whatever     *)
(* happens, the destination names it or one that was renamed after it.     *)
SettledSavesSurvive ==
  \A i \in DOMAIN renames : renames[i] \in settled =>
    \E j \in i .. Len(renames) : renames[j] = dest
=============================================================================
