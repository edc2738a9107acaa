------------------------------ MODULE Admission ------------------------------
(***************************************************************************)
(* Admission to a gated or open room: the loop of `ce-meet host`           *)
(* (main.rs), which rate-limits, decides and answers, the joiners that ask *)
(* it with a capability chain or a resume token (client.rs), and the TURN  *)
(* relay whose credential an admission hands out (turn.rs).                *)
(*                                                                         *)
(* A request travels through the node's request/reply transport.  It is    *)
(* served at most once, possibly long after the asker stopped waiting, and *)
(* its answer may be lost.  Seconds pass by Tick; the host, the relay and  *)
(* the chain of the network read the same clock.                           *)
(*                                                                         *)
(* passes, admittedAt, said, minted and rankings are history            *)
(* variables: only properties read them.                                   *)
(***************************************************************************)
EXTENDS Admitter, Turn

CONSTANTS
  Room,        \* the room the host serves
  HostId,      \* its node id, which whoever wants to join has to know
  Open,        \* whether the room is open
  OtherTokens, \* the tokens joiners may present that no answer of the host carried:
               \* of other hosts or rooms, kept from before, or altered
  Garbled,     \* a request that does not decode
  Candidates,  \* the relays a lookup can find
  Channel,     \* the payment channel to the relay
  RelaySecret, \* the relay's TURN secret
  TurnTtl,     \* the lifetime of its credentials
  Asks,        \* Asks[n], bound: what n asks without a token
  MaxTime,     \* bound: the last second
  MaxAsks,     \* MaxAsks[n], bound: how often n asks
  MaxSaid,     \* MaxSaid[n], bound: how many numbers n publishes
  MaxStarts    \* bound: how often the host starts

Never == -1

\* The mac_secret of `ce-meet host`: a hash of a fixed string and its node id,
\* so the same at each start, and a function of what joiners know.
MacSecret(id) == <<"ce-meet:host-resume-secret:v1", id>>

Secret == MacSecret(HostId)

\* AdmitReq
Requests == [room_id : Rooms, caps : Chains \cup {NoChain}, resume : Tokens \cup {NoToken}]

ASSUME AdmissionAssumption ==
  /\ Room \in Rooms /\ Secret \in Secrets /\ Open \in BOOLEAN
  /\ OtherTokens \subseteq Tokens
  /\ \A n \in Nodes : \A req \in Asks[n] :
       req = Garbled \/ (req \in Requests /\ req.resume = NoToken)
  /\ MaxAsks \in [Nodes -> Nat] /\ MaxSaid \in [Nodes -> Nat]
  /\ {TurnTtl, MaxTime, MaxStarts} \subseteq Nat
  /\ NoToken \notin Tokens

\* RelayCandidate: rtt_ms is unsigned.
ASSUME CandidatesAssumption ==
  /\ IsFiniteSet(Candidates)
  /\ \A c \in Candidates : c.rtt_ms \in Nat /\ c.reputation \in Int /\ c.node_id \in Int

VARIABLES
  now,        \* the second it is
  revoked,    \* the (issuer, nonce) pairs revoked on the chain of the network
  host,       \* the host process: whether it runs, its gate, its ICE servers
  starts,     \* how often it was started
  limiter,    \* its AdmitRateLimiter
  requests,   \* the requests at the host's node
  asked,      \* asked[n]: how often n asked
  waiting,    \* waiting[n]: the request n waits for, or 0
  tokens,     \* tokens[n]: the resume tokens n keeps from the host's answers
  session,    \* session[n]: <<>>, or <<the ICE servers it was admitted with>>
  next_seq,   \* next_seq[n]: the counter of n's Room
  said,       \* said[n]: one past the highest number n ever published
  passes,     \* passes[n]: when the limiter let n through, in order
  admittedAt, \* admittedAt[n]: when n was last admitted
  minted,     \* when the relay issued credentials
  rankings,   \* the rankings select_relay computed
  relaying    \* who has an allocation at the relay

hostVars == <<host, starts, limiter, passes, minted, rankings>>
joinerVars == <<asked, waiting, tokens, session, next_seq, said>>
vars == <<now, revoked, hostVars, requests, joinerVars, admittedAt, relaying>>

Down == [up |-> FALSE, gate |-> [open |-> Open, revoked |-> {}], ice |-> <<>>]

TypeOK ==
  /\ now \in 0 .. MaxTime
  /\ revoked \subseteq AllLinks
  /\ host.up \in BOOLEAN /\ host.gate.open = Open /\ host.gate.revoked \subseteq revoked
  /\ limiter \in Limiters
  /\ \A r \in requests : r.from \in Nodes /\ r.id \in 1 .. asked[r.from]
                           /\ (r.req = Garbled \/ r.req \in Requests)
  /\ \A n \in Nodes : waiting[n] \in 0 .. asked[n] /\ tokens[n] \subseteq Tokens
  /\ \A n \in Nodes : said[n] \in 0 .. MaxSaid[n] /\ next_seq[n] \in Nat
  /\ admittedAt \in [Nodes -> {Never} \cup (0 .. MaxTime)]

Init ==
  /\ now = 0
  /\ revoked = {}
  /\ host = Down /\ starts = 0 /\ limiter = NewLimiter
  /\ requests = {}
  /\ asked = [n \in Nodes |-> 0] /\ waiting = [n \in Nodes |-> 0]
  /\ tokens = [n \in Nodes |-> {}] /\ session = [n \in Nodes |-> <<>>]
  /\ next_seq = [n \in Nodes |-> 0] /\ said = [n \in Nodes |-> 0]
  /\ passes = [n \in Nodes |-> <<>>] /\ admittedAt = [n \in Nodes |-> Never]
  /\ minted = {} /\ rankings = {} /\ relaying = {}

-----------------------------------------------------------------------------
(* The surroundings *)

Tick ==
  /\ now < MaxTime
  /\ now' = now + 1
  /\ UNCHANGED <<revoked, hostVars, requests, joinerVars, admittedAt, relaying>>

\* A capability is revoked; a host that runs does not hear of it.
Revoke ==
  /\ \E l \in AllLinks \ revoked : revoked' = revoked \cup {l}
  /\ UNCHANGED <<now, hostVars, requests, joinerVars, admittedAt, relaying>>

-----------------------------------------------------------------------------
(* The host *)

\* The start of `host`: the revocations as of now, none if the query fails,
\* an empty limiter; and the ICE servers an embedding host attaches, with a
\* credential of the best relay, if the lookup finds any.
HostStart ==
  /\ ~host.up /\ starts < MaxStarts
  /\ starts' = starts + 1
  /\ limiter' = NewLimiter /\ passes' = [n \in Nodes |-> <<>>]
  /\ \E known \in {revoked, {}}, found \in SetToSeqs(Candidates) :
       LET ranking == SelectRelay(found)
           cred == Derive(Channel, RelaySecret, now, TurnTtl)
       IN  /\ host' = [up |-> TRUE,
                       gate |-> [open |-> Open, revoked |-> known],
                       ice |-> IF ranking = <<>> THEN <<>>
                               ELSE <<IceServer(cred, ranking[1])>>]
           /\ rankings' = rankings \cup {ranking}
           /\ minted' = IF ranking = <<>> THEN minted ELSE minted \cup {now}
  /\ UNCHANGED <<now, revoked, requests, joinerVars, admittedAt, relaying>>

\* A crash, Ctrl-C, or the end of its cycles; requests stay at the node.
HostStop ==
  /\ host.up
  /\ host' = Down
  /\ UNCHANGED <<starts, limiter, passes, minted, rankings, now, revoked, requests,
                 joinerVars, admittedAt, relaying>>

\* What the answer to request r does at its asker: nothing if it is lost or
\* comes too late; else n keeps the new token, and an application that resumed
\* adopts it (adopt_resume).
Answer(r, token) ==
  LET n == r.from
      resuming == r.req.resume # NoToken
  IN  \/ UNCHANGED joinerVars
      \/ /\ waiting[n] = r.id
         /\ waiting' = [waiting EXCEPT ![n] = 0]
         /\ IF token = NoToken
            THEN UNCHANGED <<tokens, session, next_seq>>
            ELSE /\ tokens' = [tokens EXCEPT ![n] = @ \cup {token}]
                 /\ session' = [session EXCEPT ![n] = <<host.ice>>]
                 /\ next_seq' = [next_seq EXCEPT
                      ![n] = IF resuming /\ token.seq_floor > @ THEN token.seq_floor ELSE @]
         /\ UNCHANGED <<asked, said>>

\* One message of the host loop: the limiter first, which drops without an
\* answer; what does not decode is dropped too, but has been counted.
Serve(r) ==
  /\ host.up
  /\ requests' = requests \ {r}
  /\ limiter' = Checked(limiter, r.from, now)
  /\ IF ~LetsThrough(limiter, r.from, now)
     THEN UNCHANGED <<passes, admittedAt, joinerVars>>
     ELSE /\ passes' = [passes EXCEPT ![r.from] = Append(@, now)]
          /\ IF r.req = Garbled
             THEN UNCHANGED <<admittedAt, joinerVars>>
             ELSE /\ admittedAt' =
                       IF Admits(Secret, Room, host.gate, r.from, r.req, now)
                       THEN [admittedAt EXCEPT ![r.from] = now] ELSE admittedAt
                  /\ Answer(r, Granted(Secret, Room, host.gate, r.from, r.req, now))
  /\ UNCHANGED <<host, starts, minted, rankings, now, revoked, relaying>>

-----------------------------------------------------------------------------
(* The joiners *)

\* send_admit: a request on its way, and the wait for its answer
Send(n, req) ==
  /\ waiting[n] = 0 /\ asked[n] < MaxAsks[n]
  /\ asked' = [asked EXCEPT ![n] = @ + 1]
  /\ waiting' = [waiting EXCEPT ![n] = asked'[n]]
  /\ requests' = requests \cup {[from |-> n, id |-> asked'[n], req |-> req]}
  /\ UNCHANGED <<now, revoked, hostVars, tokens, session, next_seq, said,
                 admittedAt, relaying>>

\* request_admission, of a room that may be another one than the host serves,
\* with a chain that may be someone else's; or anything else on the topic
RequestAdmission(n) == \E req \in Asks[n] : Send(n, req)

\* request_resume, with whatever token n comes by: its own, one that another
\* joiner keeps, or one the host never issued
RequestResume(n) ==
  \E token \in (UNION {tokens[m] : m \in Nodes}) \cup OtherTokens :
    Send(n, [room_id |-> Room, caps |-> NoChain, resume |-> token])

\* timeout_ms is over.
Timeout(n) ==
  /\ waiting[n] # 0
  /\ waiting' = [waiting EXCEPT ![n] = 0]
  /\ UNCHANGED <<now, revoked, hostVars, requests, asked, tokens, session, next_seq,
                 said, admittedAt, relaying>>

\* n was admitted, subscribes and publishes: next_outbound_seq.
Publish(n) ==
  /\ session[n] # <<>>
  /\ next_seq[n] < MaxSaid[n]
  /\ next_seq' = [next_seq EXCEPT ![n] = @ + 1]
  /\ said' = [said EXCEPT ![n] = IF @ > next_seq[n] THEN @ ELSE next_seq[n] + 1]
  /\ UNCHANGED <<now, revoked, hostVars, requests, asked, waiting, tokens, session,
                 admittedAt, relaying>>

\* n comes back with nothing but its tokens: MeetClient::new.
Restart(n) ==
  /\ waiting' = [waiting EXCEPT ![n] = 0]
  /\ next_seq' = [next_seq EXCEPT ![n] = 0]
  /\ session' = [session EXCEPT ![n] = <<>>]
  /\ relaying' = relaying \ {n}
  /\ UNCHANGED <<now, revoked, hostVars, requests, asked, tokens, said, admittedAt>>

\* n allocates at the relay, which reads the credential's expiry and channel
\* off the username.
Allocate(n) ==
  /\ session[n] # <<>>
  /\ \E server \in ToSet(session[n][1]) :
       VerifiesTurn([username |-> server.username, password |-> server.credential,
                     expires_at |-> server.username[1], channel_id |-> server.username[2]],
                    RelaySecret, now)
  /\ relaying' = relaying \cup {n}
  /\ UNCHANGED <<now, revoked, hostVars, requests, joinerVars, admittedAt>>

Next ==
  \/ Tick \/ Revoke \/ HostStart \/ HostStop
  \/ \E r \in requests : Serve(r)
  \/ \E n \in Nodes :
       \/ RequestAdmission(n) \/ RequestResume(n) \/ Timeout(n)
       \/ Publish(n) \/ Restart(n) \/ Allocate(n)

Spec == Init /\ [][Next]_vars

-----------------------------------------------------------------------------
(* Properties *)

(* AdmitRateLimiter: fewer than twice the capacity of attempts of a sender *)
(* get to the gate in any stretch shorter than a window, though its entry  *)
(* may be evicted and come back, and windows start at any time.            *)
LetThroughBounded ==
  \A n \in Nodes : \A i, j \in DOMAIN passes[n] :
    j - i >= 2 * Cap - 1 => passes[n][j] >= passes[n][i] + Window

(* What the limiter drops it has reason to: either the sender itself used  *)
(* up its capacity within the last window, or as many other senders as are *)
(* tracked came within it.                                                 *)
Recent(n) == {i \in DOMAIN passes[n] : passes[n][i] + Window > now}

RefusalsJustified ==
  [][\A r \in requests \ requests' :
       passes'[r.from] = passes[r.from] =>
         \/ Cardinality(Recent(r.from)) >= Cap
         \/ Cardinality({m \in Nodes \ {r.from} : Recent(m) # {}})
              >= AtLeastOne(MaxTracked)]_vars

(* The limiter's memory is bounded whoever sends.                          *)
TableBounded == Cardinality(limiter.tracked) <= AtLeastOne(MaxTracked)

(* The hypothesis that the MAC secret is known to the host alone: a token  *)
(* whose MAC re-derives under it for this room came in one of its answers. *)
(* Admitter::new asks for it ("keep it private to the host", admit.rs:53). *)
(* `ce-meet host` does not provide it: its secret is MacSecret of its node *)
(* id, which is public.                                                    *)
ReDerives(token) ==
  token.mac = ResumeMac(Secret, Room, token.node_id, token.expires_at, token.seq_floor)

SecretKept == \A token \in OtherTokens : ~ReDerives(token)

(* If the host's MAC secret is known to it alone: whoever is admitted      *)
(* holds, at that second, a chain the host accepts and does not know to be *)
(* revoked, or was itself admitted to this room by this host no longer     *)
(* than a token's lifetime ago, across restarts of the host and whoever's  *)
(* tokens are presented, altered ones included.                            *)
AdmittedWithAuthority ==
  [][SecretKept => \A n \in Nodes : admittedAt'[n] # admittedAt[n] =>
       \/ Open
       \/ \E c \in Chains : Authorizes(c, n, now, host.gate.revoked)
       \/ admittedAt[n] # Never /\ now <= admittedAt[n] + ResumeTtl]_vars

(* The relay a host hands out is no more than a quarter further than the   *)
(* nearest one: reputation only discounts latency ("latency dominates").   *)
RelayIsNear ==
  \A ranking \in rankings : \A c \in Candidates :
    4 * ranking[1].rtt_ms <= 5 * c.rtt_ms

(* Hosts that found the same relays rank them alike, in whatever order the *)
(* lookup returned them (select_relay: "stable across hosts").             *)
RankingsAgree == Cardinality(rankings) <= 1

(* The relay serves only those a host admitted, and only while a           *)
(* credential it issued lasts, however long the host keeps handing it out. *)
RelayedInTime ==
  [][\A n \in relaying' \ relaying :
       /\ admittedAt[n] # Never
       /\ \E t \in minted : t <= now /\ now <= t + TurnTtl]_vars

-----------------------------------------------------------------------------
(* What the documentation says and the code does not do *)

(* proto.rs:428-430: a token "carries the participant's last-known         *)
(* outbound sequence so the resumed session never re-uses a seq a peer     *)
(* would drop": after a resume, the counter is past all it published.      *)
ResumedNumbersFresh ==
  [][\A n \in Nodes :
       /\ tokens'[n] # tokens[n]
       /\ \E r \in requests \ requests' : r.from = n /\ r.req.resume # NoToken
       => next_seq'[n] >= said'[n]]_vars
=============================================================================
