--------------------------- MODULE MCRoomRecovery ---------------------------
(* RoomRecovery on small instances. *)
EXTENDS RoomRecovery, TLC

CONSTANTS CapOfAll, KindsOfAll, SendsOfAll

MCMaxMembers == [n \in Nodes |-> CapOfAll]

MCSpokenKinds == [n \in Nodes |-> KindsOfAll]
MCMaxSends == [n \in Nodes |-> SendsOfAll]

\* The participants that only listen are interchangeable.
Listeners == Permutations(Nodes \ (Speakers \cup Keepers))
=============================================================================
