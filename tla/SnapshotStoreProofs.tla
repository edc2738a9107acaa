------------------------- MODULE SnapshotStoreProofs -------------------------
(***************************************************************************)
(* Proofs about SnapshotStore, for any number of saves of any length.      *)
(*                                                                         *)
(* The invariant: a file is renamed only after it was synced, so whatever  *)
(* the destination may name after a power failure is whole; and what it    *)
(* may name then was renamed no earlier than any settled save.             *)
(***************************************************************************)
EXTENDS SnapshotStore, TLAPS

\* Whatever the destination may name is synced, and syncs precede renames.
Durable ==
  /\ \A s \in Saves : step[s] \in {"synced", "renamed", "returned"} => s \in synced
  /\ onDisk \subseteq synced \cup {NoSave}

\* f was renamed at position i of the history or later.
NoOlder(f, i) == \E j \in i .. Len(renames) : renames[j] = f

Survival ==
  /\ \A s \in settled : step[s] = "returned"
  /\ \A i \in DOMAIN renames : renames[i] \in settled =>
       \A f \in onDisk : NoOlder(f, i)
  /\ \A i \in DOMAIN renames : step[renames[i]] = "renamed" => NoOlder(dest, i)

IInv == TypeOK /\ Durable /\ Survival

\* One call of save_atomic advances by one operation.
CallStep(s) ==
  \/ Create(s) \/ Write(s) \/ Sync(s) \/ Rename(s)
  \/ SyncDirectory(s) \/ SkipDirectory(s) \/ Fail(s)

-----------------------------------------------------------------------------
(* Type correctness and durability *)

LEMMA InitEstablishes == Init => IInv
  BY StoreAssumption DEF Init, IInv, TypeOK, Durable, Survival, Steps

\* TypeOK and Durable are inductive together: a file that is synced holds all
\* its blocks, so no write and no power failure changes it.
LEMMA DurableStep ==
  ASSUME TypeOK, Durable, [Next]_vars
  PROVE  TypeOK' /\ Durable'
<1> USE StoreAssumption DEF TypeOK, Durable, Goes, Steps
<1>1. ASSUME NEW s \in Saves, CallStep(s)  PROVE TypeOK' /\ Durable'
  <2>1. CASE Create(s)         BY <2>1 DEF Create
  <2>2. CASE Write(s)          BY <2>2 DEF Write
  <2>3. CASE Sync(s)           BY <2>3 DEF Sync
  <2>4. CASE Rename(s)         BY <2>4 DEF Rename
  <2>5. CASE SyncDirectory(s)  BY <2>5 DEF SyncDirectory
  <2>6. CASE SkipDirectory(s)  BY <2>6 DEF SkipDirectory
  <2>7. CASE Fail(s)           BY <2>7 DEF Fail
  <2> QED  BY <1>1, <2>1, <2>2, <2>3, <2>4, <2>5, <2>6, <2>7 DEF CallStep
<1>2. CASE PowerFailure
  BY <1>2 DEF PowerFailure
<1>3. CASE UNCHANGED vars
  BY <1>3 DEF vars
<1> QED  BY <1>1, <1>2, <1>3 DEF Next, CallStep

-----------------------------------------------------------------------------
(* Survival of what was settled *)

\* An append to the history leaves what was no older no older, and the file
\* appended is no older than anything.
LEMMA AppendedIsNewest ==
  ASSUME NEW s \in Saves, renames \in Seq(Saves), renames' = Append(renames, s),
         NEW i \in DOMAIN renames'
  PROVE  /\ NoOlder(s, i)'
         /\ i \in DOMAIN renames => renames'[i] = renames[i]
         /\ i \notin DOMAIN renames => renames'[i] = s
         /\ \A f : i \in DOMAIN renames /\ NoOlder(f, i) => NoOlder(f, i)'
<1>1. /\ Len(renames) \in Nat
      /\ DOMAIN renames = 1 .. Len(renames)
      /\ Len(renames') = Len(renames) + 1
      /\ DOMAIN renames' = 1 .. Len(renames) + 1
      /\ renames'[Len(renames) + 1] = s
      /\ \A j \in 1 .. Len(renames) : renames'[j] = renames[j]
  OBVIOUS
<1> QED  BY <1>1 DEF NoOlder

LEMMA SurvivalStep ==
  ASSUME TypeOK, Survival, [Next]_vars
  PROVE  Survival'
<1> USE DEF Goes
<1>0. /\ step \in [Saves -> Steps] /\ renames \in Seq(Saves)
      /\ settled \subseteq Saves /\ dest \in onDisk
      /\ \A i \in DOMAIN renames : renames[i] \in Saves
  BY DEF TypeOK
\* A step that neither renames nor settles, nor makes a call "renamed".
<1>1. ASSUME renames' = renames, settled' = settled, dest' = dest, onDisk' = onDisk,
             \A s \in Saves : /\ step[s] = "returned" => step'[s] = "returned"
                              /\ step'[s] = "renamed" => step[s] = "renamed"
      PROVE  Survival'
  BY <1>0, <1>1 DEF Survival, NoOlder
<1>2. ASSUME NEW s \in Saves, Rename(s)  PROVE Survival'
  <2>1. /\ step[s] = "synced" /\ step' = [step EXCEPT ![s] = "renamed"]
        /\ dest' = s /\ onDisk' = onDisk \cup {s} /\ settled' = settled
        /\ renames' = Append(renames, s)
    BY <1>2 DEF Rename
  <2>2. s \notin settled
    BY <2>1 DEF Survival
  <2>3. \A t \in settled' : step'[t] = "returned"
    BY <2>1, <2>2, <1>0 DEF Survival
  <2>4. ASSUME NEW i \in DOMAIN renames', renames'[i] \in settled', NEW f \in onDisk'
        PROVE  NoOlder(f, i)'
    <3>1. i \in DOMAIN renames /\ renames[i] \in settled
      BY <2>1, <2>2, <2>4, <1>0, AppendedIsNewest
    <3>2. CASE f = s       BY <3>2, <2>1, <1>0, AppendedIsNewest
    <3>3. CASE f \in onDisk
      <4>1. NoOlder(f, i)  BY <3>1, <3>3 DEF Survival
      <4> QED  BY <4>1, <3>1, <2>1, <1>0, AppendedIsNewest
    <3> QED  BY <3>2, <3>3, <2>1
  <2>5. ASSUME NEW i \in DOMAIN renames'  PROVE NoOlder(dest, i)'
    <3>1. NoOlder(s, i)'
      BY <2>1, <1>0, AppendedIsNewest
    <3> QED  BY <3>1, <2>1 DEF NoOlder
  <2> QED  BY <2>3, <2>4, <2>5 DEF Survival, NoOlder
<1>3. ASSUME NEW s \in Saves, SyncDirectory(s)  PROVE Survival'
  <2>1. /\ step[s] = "renamed" /\ step' = [step EXCEPT ![s] = "returned"]
        /\ onDisk' = {dest} /\ settled' = settled \cup {s}
        /\ dest' = dest /\ renames' = renames
    BY <1>3 DEF SyncDirectory
  <2>2. \A t \in settled' : step'[t] = "returned"
    BY <2>1, <1>0 DEF Survival
  <2>3. \A i \in DOMAIN renames : renames[i] \in settled' => NoOlder(dest, i)
    BY <2>1, <1>0 DEF Survival
  <2>4. \A i \in DOMAIN renames : step'[renames[i]] = "renamed" => step[renames[i]] = "renamed"
    BY <2>1, <1>0
  <2> QED  BY <2>1, <2>2, <2>3, <2>4 DEF Survival, NoOlder
<1>4. CASE PowerFailure
  <2>1. /\ dest' \in onDisk /\ onDisk' = {dest'} /\ settled' = settled /\ renames' = renames
        /\ \A s \in Saves : /\ step[s] = "returned" => step'[s] = "returned"
                            /\ step'[s] # "renamed"
    BY <1>4, <1>0 DEF PowerFailure
  <2> QED  BY <2>1, <1>0 DEF Survival, NoOlder
<1>5. ASSUME NEW s \in Saves, CallStep(s)  PROVE Survival'
  <2>1. CASE Create(s)         BY <2>1, <1>0, <1>1 DEF Create
  <2>2. CASE Write(s)          BY <2>2, <1>0, <1>1 DEF Write
  <2>3. CASE Sync(s)           BY <2>3, <1>0, <1>1 DEF Sync
  <2>4. CASE SkipDirectory(s)  BY <2>4, <1>0, <1>1 DEF SkipDirectory
  <2>5. CASE Fail(s)           BY <2>5, <1>0, <1>1 DEF Fail
  <2> QED  BY <1>2, <1>3, <1>5, <2>1, <2>2, <2>3, <2>4, <2>5 DEF CallStep
<1>6. CASE UNCHANGED vars
  BY <1>6, <1>1 DEF vars
<1> QED  BY <1>4, <1>5, <1>6 DEF Next, CallStep

LEMMA StepPreserves == IInv /\ [Next]_vars => IInv'
  BY DurableStep, SurvivalStep DEF IInv

(* IInv is an invariant of every run.                                      *)
THEOREM Invariance == Spec => []IInv
<1>1. Init => IInv              BY InitEstablishes
<1>2. IInv /\ [Next]_vars => IInv'  BY StepPreserves
<1> QED  BY <1>1, <1>2, PTL DEF Spec

(* Type correctness.                                                       *)
THEOREM TypeCorrect == Spec => []TypeOK
<1>1. IInv => TypeOK  BY DEF IInv
<1> QED  BY <1>1, Invariance, PTL

(* A snapshot whose directory reached the disk is superseded, never lost   *)
(* (save_atomic's directory sync).                                         *)
THEOREM SettledSavesAreKept == Spec => []SettledSavesSurvive
<1>1. IInv => SettledSavesSurvive
  BY DEF IInv, TypeOK, Survival, NoOlder, SettledSavesSurvive
<1> QED  BY <1>1, Invariance, PTL

-----------------------------------------------------------------------------
(* The refinement of AtomicSnapshot *)

\* What load returns for a file that is whole.
Whole(f) == IF f = NoSave THEN "nothing" ELSE f

LEMMA LoadsWhole == IInv => \A f \in onDisk : Loaded(f) = Whole(f)
  BY DEF IInv, TypeOK, Durable, Loaded, Whole

\* The same of the state after a step.
LEMMA LoadsWholeNext == IInv' => \A f \in onDisk' : Loaded(f)' = Whole(f)
  BY DEF IInv, TypeOK, Durable, Loaded, Whole

LEMMA InitRefines == Init => Store!StoreInit
  BY DEF Init, Store!StoreInit, Loaded

\* A rename replaces, a directory sync settles, a power failure falls back;
\* no other step shows.
LEMMA StepRefines ==
  ASSUME IInv, IInv', [Next]_vars
  PROVE  [Store!StoreNext]_(Store!storeVars)
<1> DEFINE fallen == {Whole(f) : f \in onDisk}
<1>0. /\ Loaded(dest) = Whole(dest) /\ Loaded(dest)' = Whole(dest')
      /\ {Loaded(f) : f \in onDisk} = fallen
      /\ ({Loaded(f) : f \in onDisk})' = fallen'
  <2>1. dest \in onDisk /\ dest' \in onDisk'
    BY DEF IInv, TypeOK
  <2> QED  BY <2>1, LoadsWhole, LoadsWholeNext
<1> SUFFICES \/ Whole(dest') \in Saves /\ fallen' = fallen \cup {Whole(dest')}
             \/ dest' = dest /\ fallen' = {Whole(dest)}
             \/ Whole(dest') \in fallen /\ fallen' = {Whole(dest')}
             \/ Whole(dest') = Whole(dest) /\ fallen' = fallen
  BY <1>0 DEF Store!StoreNext, Store!storeVars, Store!Replace, Store!Settle, Store!FallBack
<1>1. ASSUME NEW s \in Saves, Rename(s)
      PROVE  Whole(dest') \in Saves /\ fallen' = fallen \cup {Whole(dest')}
  BY <1>1, StoreAssumption DEF Rename, Whole
<1>2. ASSUME NEW s \in Saves, SyncDirectory(s)
      PROVE  dest' = dest /\ fallen' = {Whole(dest)}
  BY <1>2 DEF SyncDirectory
<1>3. CASE PowerFailure
  BY <1>3 DEF PowerFailure
<1>4. ASSUME dest' = dest, onDisk' = onDisk
      PROVE  Whole(dest') = Whole(dest) /\ fallen' = fallen
  BY <1>4
<1> QED
  BY <1>1, <1>2, <1>3, <1>4
  DEF Next, vars, Create, Write, Sync, SkipDirectory, Fail

(* save_atomic implements the atomic store (room.rs:622-624), for any      *)
(* number of saves, whichever fail and whenever the power does.            *)
THEOREM Refinement == Spec => ImplementsAtomicSnapshot
<1>1. Init => Store!StoreInit
  BY InitRefines
<1>2. IInv /\ IInv' /\ [Next]_vars => [Store!StoreNext]_(Store!storeVars)
  BY StepRefines
<1> QED  BY <1>1, <1>2, Invariance, PTL DEF Spec, ImplementsAtomicSnapshot, Store!StoreSpec
=============================================================================
