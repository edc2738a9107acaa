--------------------------- MODULE InOrderStream ---------------------------
(***************************************************************************)
(* What the reorder buffer of src/src/order.rs promises to its consumer,   *)
(* without saying how: each call hands out a run of consecutive signals    *)
(* that were offered, all of them later than everything handed out before, *)
(* so the consumer sees a strictly ascending stream without duplicates.    *)
(***************************************************************************)
EXTENDS Naturals

CONSTANTS Signals  \* the sequence numbers

VARIABLES
  offered,  \* every signal the buffer was ever given
  earlier,  \* what all calls but the last one handed out
  released  \* what the last call handed out

streamVars == <<offered, earlier, released>>

StreamInit ==
  /\ offered = {}
  /\ earlier = {}
  /\ released = {}

Release ==
  /\ earlier' = earlier \cup released
  /\ released' \subseteq offered'
  /\ \A s \in released' : \A t \in earlier' : t < s
  /\ \A s, t \in released' : s .. t \subseteq released'

Take ==
  /\ \E s \in Signals : offered' = offered \cup {s}
  /\ Release

Skip ==
  /\ UNCHANGED offered
  /\ Release

StreamNext == Take \/ Skip

StreamSpec == StreamInit /\ [][StreamNext]_streamVars
=============================================================================
