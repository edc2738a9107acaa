--------------------------- MODULE MCRoomReplicas ---------------------------
(* RoomReplicas on small instances. *)
EXTENDS RoomReplicas, TLC

CONSTANTS CapOfAll, Talker, TalkerKinds, OtherKinds, TalkerSends, OtherSends

MCMaxMembers == [n \in Nodes |-> CapOfAll]

MCSpokenKinds == [n \in Nodes |-> IF n = Talker THEN TalkerKinds ELSE OtherKinds]
MCMaxSends == [n \in Nodes |-> IF n = Talker THEN TalkerSends ELSE OtherSends]

\* The participants that only listen are interchangeable.
Listeners == Permutations(Nodes \ Speakers)
=============================================================================
