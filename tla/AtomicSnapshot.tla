--------------------------- MODULE AtomicSnapshot ---------------------------
(***************************************************************************)
(* What RoomSnapshot::save_atomic promises (src/src/room.rs:621-624): the  *)
(* destination holds the old snapshot or the new one, whole, whatever      *)
(* crashes; and what a reader may rely on after a power failure: one of    *)
(* the snapshots it has held since the directory last reached the disk.    *)
(***************************************************************************)
CONSTANTS
  Versions, \* the snapshots that are ever saved
  Nothing   \* no snapshot was saved yet

VARIABLES
  current,  \* what load returns
  fallbacks \* what it may return after a power failure

storeVars == <<current, fallbacks>>

StoreTypeOK ==
  /\ current \in Versions \cup {Nothing}
  /\ fallbacks \subseteq Versions \cup {Nothing}

StoreInit == current = Nothing /\ fallbacks = {Nothing}

Replace ==
  /\ current' \in Versions
  /\ fallbacks' = fallbacks \cup {current'}

Settle == current' = current /\ fallbacks' = {current}

FallBack == current' \in fallbacks /\ fallbacks' = {current'}

StoreNext == Replace \/ Settle \/ FallBack

StoreSpec == StoreInit /\ [][StoreNext]_storeVars
=============================================================================
