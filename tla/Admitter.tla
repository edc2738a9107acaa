------------------------------ MODULE Admitter ------------------------------
(***************************************************************************)
(* How a host decides an admission request (src/src/admit.rs and caps.rs), *)
(* as operators: the capability gate, resume tokens, Admitter::admit.      *)
(*                                                                         *)
(* A capability chain is a model value; what the ce-cap library finds out  *)
(* about it is given by constants.  A keyed MAC is the tuple of what went  *)
(* into it, secret first: it re-derives exactly if all of that is equal.   *)
(***************************************************************************)
EXTENDS RateLimiter, Integers

CONSTANTS
  Rooms,      \* room ids
  Secrets,    \* the MAC secrets of hosts
  Chains,     \* the capability chains participants hold
  NoChain,    \* caps = "", or what decode_chain refuses
  Holder,     \* Holder[c]: who holds the leaf of chain c
  Accepted,   \* the chains rooted at the host or at an accepted root that grant meet:join
  NotAfter,   \* NotAfter[c]: the last second chain c is valid
  Links,      \* Links[c]: the (issuer, nonce) pairs of chain c
  NoToken,    \* resume = None
  ResumeTtl   \* resume_ttl

ASSUME ChainAssumption ==
  /\ NoChain \notin Chains
  /\ Holder \in [Chains -> Nodes]
  /\ Accepted \subseteq Chains
  /\ NotAfter \in [Chains -> Nat]
ASSUME TtlAssumption == ResumeTtl \in Nat

AllLinks == UNION {Links[c] : c \in Chains}

-----------------------------------------------------------------------------
(* The capability gate *)

\* ce-cap's authorize: every link valid and unrevoked, the leaf held by node.
Authorizes(c, node, now, revoked) ==
  /\ c \in Accepted
  /\ Holder[c] = node
  /\ now <= NotAfter[c]
  /\ Links[c] \cap revoked = {}

\* Gate::check for meet:join.  An open room asks nothing; else the chain
\* must decode and ce-cap must accept it.
GateAllows(gate, node, c, now) ==
  gate.open \/ (c \in Chains /\ Authorizes(c, node, now, gate.revoked))

-----------------------------------------------------------------------------
(* Resume tokens *)

\* Admitter::resume_mac
ResumeMac(secret, room, node, expires_at, seq_floor) ==
  <<secret, room, node, expires_at, seq_floor>>

Tokens == [room_id : Rooms, node_id : Nodes, expires_at : Nat, seq_floor : Nat,
           mac : Secrets \X Rooms \X Nodes \X Nat \X Nat]

\* Admitter::issue_resume
IssueResume(secret, room, node, seq_floor, now) ==
  LET expires_at == now + ResumeTtl
  IN  [room_id |-> room, node_id |-> node, expires_at |-> expires_at,
       seq_floor |-> seq_floor,
       mac |-> ResumeMac(secret, room, node, expires_at, seq_floor)]

\* Wrong variant: a token never expires.
VerifiesForEver(secret, room, node, token, now) ==
  /\ token.room_id = room
  /\ token.node_id = node
  /\ token.mac = ResumeMac(secret, room, token.node_id, token.expires_at, token.seq_floor)

\* Admitter::verify_resume
Verifies(secret, room, node, token, now) ==
  /\ token.room_id = room
  /\ token.node_id = node
  /\ now <= token.expires_at
  /\ token.mac = ResumeMac(secret, room, token.node_id, token.expires_at, token.seq_floor)

-----------------------------------------------------------------------------
(* Admitter::admit.  gate is a record [open, revoked], req a record          *)
(* [room_id, caps, resume].                                                  *)

Resumes(secret, room, node, req, now) ==
  req.resume # NoToken /\ Verifies(secret, room, node, req.resume, now)

\* A token that does not verify falls through to the gate.
Admits(secret, room, gate, node, req, now) ==
  /\ req.room_id = room
  /\ Resumes(secret, room, node, req, now) \/ GateAllows(gate, node, req.caps, now)

\* The floor of the token that was presented, or 0 after a handshake.
GrantedFloor(secret, room, node, req, now) ==
  IF Resumes(secret, room, node, req, now) THEN req.resume.seq_floor ELSE 0

\* The token of the answer: a fresh one with every admission.
Granted(secret, room, gate, node, req, now) ==
  IF Admits(secret, room, gate, node, req, now)
  THEN IssueResume(secret, room, node, GrantedFloor(secret, room, node, req, now), now)
  ELSE NoToken
=============================================================================
