---------------------------- MODULE MCAdmission ----------------------------
(* Admission on a small instance: two joiners, one with a chain. *)
EXTENDS Admission, TLC

CONSTANTS alice, bo, room, other_room, host_id, other_host, chain, link,
          AliceAsks, BoAsks, AliceSays, BoSays

MCHolder == [c \in Chains |-> alice]
MCNotAfter == [c \in Chains |-> 1]
MCLinks == [c \in Chains |-> {link}]
MCMaxAsks == [n \in Nodes |-> IF n = alice THEN AliceAsks ELSE BoAsks]
MCMaxSaid == [n \in Nodes |-> IF n = alice THEN AliceSays ELSE BoSays]

\* Alice asks as she should; bo with her chain, of another room, or garbled.
MCAsks ==
  [n \in Nodes |->
     IF n = alice THEN {[room_id |-> room, caps |-> chain, resume |-> NoToken]}
     ELSE {[room_id |-> room, caps |-> chain, resume |-> NoToken],
           [room_id |-> other_room, caps |-> NoChain, resume |-> NoToken],
           Garbled}]

MCSecrets == {MacSecret(id) : id \in {host_id, other_host}}

\* A token of bo's from another host, which served a room of the same name; and
\* the first token alice can get, with its expiry put off.
MCOtherTokens ==
  {IssueResume(MacSecret(other_host), room, bo, 0, 1),
   [IssueResume(Secret, room, alice, 0, 0) EXCEPT !.expires_at = @ + 2]}

\* A near relay of bad standing, one that scores like it, one far and praised
\* beyond the scale.
MCCandidates ==
  {[node_id |-> 1, rtt_ms |-> 20, reputation |-> 0],
   [node_id |-> 2, rtt_ms |-> 25, reputation |-> 100],
   [node_id |-> 3, rtt_ms |-> 30, reputation |-> 300]}
=============================================================================
