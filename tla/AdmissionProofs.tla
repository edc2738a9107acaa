--------------------------- MODULE AdmissionProofs ---------------------------
(***************************************************************************)
(* Proofs about Admission, for any number of nodes, any capacity, window,  *)
(* table and lifetimes, and any number of requests and restarts.           *)
(*                                                                         *)
(* The invariant has three parts beside types: what the limiter's entry of *)
(* a sender tells about its passes (Ledger), that the TURN credentials in  *)
(* use were derived by the host (Minted) and, if its MAC secret is known   *)
(* to it alone (SecretKept), that resume tokens which re-derive were       *)
(* issued by it (Genuine).  The theorems that rest on this last part say   *)
(* so by an assumption of their own.  The ranking of relays is a fold over *)
(* the candidates: what it returns is proved by the least position at      *)
(* which it would be wrong.                                                *)
(***************************************************************************)
EXTENDS Admission, FiniteSetTheorems, SequenceTheorems, WellFoundedInduction, TLAPS

\* The variables are functions and numbers, whatever the bounds are.
Shape ==
  /\ now \in Nat
  /\ limiter \in Limiters /\ IsFiniteSet(limiter.tracked)
  /\ asked \in [Nodes -> Nat] /\ waiting \in [Nodes -> Nat]
  /\ tokens \in [Nodes -> SUBSET Tokens]
  /\ next_seq \in [Nodes -> Nat] /\ said \in [Nodes -> Nat]
  /\ passes \in [Nodes -> Seq(Nat)]
  /\ admittedAt \in [Nodes -> {Never} \cup Nat]
  /\ DOMAIN session = Nodes

LEMMA LimiterConstants ==
  /\ Cap \in Nat /\ Cap >= 1
  /\ Window \in Nat /\ Window >= 1
  /\ AtLeastOne(MaxTracked) \in Nat /\ AtLeastOne(MaxTracked) >= 1
  BY LimiterAssumption DEF Cap, Window, AtLeastOne

-----------------------------------------------------------------------------
(* The limiter *)

\* Making room forgets only windows that are over, and only for a sender that
\* is not tracked.
LEMMA RoomyFacts ==
  ASSUME NEW lim \in Limiters, NEW n \in Nodes, NEW t \in Nat
  PROVE  LET roomy == MakeRoom(lim, n, t)
         IN  /\ roomy \in Limiters
             /\ roomy.start = lim.start /\ roomy.count = lim.count
             /\ roomy.tracked \subseteq lim.tracked
             /\ \A m \in lim.tracked \ roomy.tracked : Expired(lim, m, t)
             /\ n \in lim.tracked => roomy = lim
             /\ n \notin lim.tracked /\ Full(lim) =>
                  \A m \in roomy.tracked : ~Expired(lim, m, t)
  BY DEF MakeRoom, Limiters

\* The three ways of check: no room, a window opened, a window under way.
NoRoomFor(lim, n, t, new) ==
  /\ n \notin lim.tracked
  /\ ~LetsThrough(lim, n, t)
  /\ new = MakeRoom(lim, n, t)
  /\ Full(new)

OpensWindow(lim, n, t, new) ==
  /\ n \in lim.tracked => Expired(lim, n, t)
  /\ LetsThrough(lim, n, t)
  /\ new.tracked = MakeRoom(lim, n, t).tracked \cup {n}
  /\ n \in lim.tracked \/ ~Full(MakeRoom(lim, n, t))
  /\ new.start = [lim.start EXCEPT ![n] = t]
  /\ new.count = [lim.count EXCEPT ![n] = 1]

WithinWindow(lim, n, t, new) ==
  /\ n \in lim.tracked /\ ~Expired(lim, n, t)
  /\ new.tracked = lim.tracked /\ new.start = lim.start
  /\ \/ /\ LetsThrough(lim, n, t) /\ lim.count[n] < Cap
        /\ new.count = [lim.count EXCEPT ![n] = @ + 1]
     \/ /\ ~LetsThrough(lim, n, t) /\ lim.count[n] = Cap
        /\ new.count = lim.count

LEMMA RaisedCount ==
  ASSUME NEW tracked, NEW start, NEW count, NEW n
  PROVE  [[tracked |-> tracked, start |-> start, count |-> count] EXCEPT !.count[n] = @ + 1]
           = [tracked |-> tracked, start |-> start, count |-> [count EXCEPT ![n] = @ + 1]]
  OBVIOUS

LEMMA CheckedCases ==
  ASSUME NEW lim \in Limiters, NEW n \in Nodes, NEW t \in Nat
  PROVE  LET new == Checked(lim, n, t)
         IN  /\ new \in Limiters
             /\ NoRoomFor(lim, n, t, new) \/ OpensWindow(lim, n, t, new)
                  \/ WithinWindow(lim, n, t, new)
<1> DEFINE roomy == MakeRoom(lim, n, t)
           rolled == Rolled(roomy, n, t)
           new == Checked(lim, n, t)
<1>0. /\ roomy \in Limiters
      /\ roomy.start = lim.start /\ roomy.count = lim.count
      /\ n \in lim.tracked => roomy = lim
      /\ roomy.tracked \subseteq lim.tracked
  BY RoomyFacts
<1>1. Cap \in Nat /\ Cap >= 1
  BY LimiterConstants
<1>2. CASE NoRoom(roomy, n)
  <2>1. new = roomy /\ ~LetsThrough(lim, n, t)
    BY <1>2 DEF Checked, LetsThrough
  <2>2. n \notin roomy.tracked /\ Full(roomy)
    BY <1>2 DEF NoRoom
  <2> QED  BY <1>0, <2>1, <2>2 DEF NoRoomFor
<1>3. ASSUME ~NoRoom(roomy, n), n \notin roomy.tracked \/ Expired(roomy, n, t)
      PROVE  new \in Limiters /\ OpensWindow(lim, n, t, new)
  <2>1. /\ rolled = [roomy EXCEPT !.tracked = @ \cup {n}, !.start[n] = t, !.count[n] = 0]
        /\ rolled.count[n] = 0
    BY <1>0, <1>3 DEF Rolled, Limiters
  <2>2. new = [rolled EXCEPT !.count[n] = @ + 1] /\ LetsThrough(lim, n, t)
    BY <1>1, <1>3, <2>1 DEF Checked, LetsThrough
  <2> DEFINE opened == [tracked |-> roomy.tracked \cup {n},
                        start |-> [roomy.start EXCEPT ![n] = t],
                        count |-> [roomy.count EXCEPT ![n] = 0]]
  <2>a. rolled = opened
    BY <1>0, <2>1 DEF Limiters
  <2>b. new = [opened EXCEPT !.count[n] = @ + 1]
    BY <2>a, <2>2
  <2>c. new = [tracked |-> roomy.tracked \cup {n},
               start |-> [roomy.start EXCEPT ![n] = t],
               count |-> [[roomy.count EXCEPT ![n] = 0] EXCEPT ![n] = @ + 1]]
    BY <2>b, RaisedCount
  <2>d. [[roomy.count EXCEPT ![n] = 0] EXCEPT ![n] = @ + 1] = [roomy.count EXCEPT ![n] = 1]
    BY <1>0 DEF Limiters
  <2>3. new = [tracked |-> roomy.tracked \cup {n},
               start |-> [roomy.start EXCEPT ![n] = t],
               count |-> [roomy.count EXCEPT ![n] = 1]]
    BY <2>c, <2>d
  <2>4. new \in Limiters
    BY <1>0, <1>1, <2>3 DEF Limiters
  <2>5. n \in lim.tracked => Expired(lim, n, t)
    BY <1>0, <1>3
  <2>6. n \in lim.tracked \/ ~Full(roomy)
    BY <1>0, <1>3 DEF NoRoom
  <2> QED  BY <1>0, <2>2, <2>3, <2>4, <2>5, <2>6 DEF OpensWindow
<1>4. ASSUME ~NoRoom(roomy, n), n \in roomy.tracked, ~Expired(roomy, n, t)
      PROVE  new \in Limiters /\ WithinWindow(lim, n, t, new)
  <2>1. roomy = lim /\ rolled = lim /\ n \in lim.tracked
    BY <1>0, <1>4 DEF Rolled
  <2>2. lim.count[n] \in 0 .. Cap
    BY DEF Limiters
  <2>3. CASE lim.count[n] < Cap
    <3>1. new = [lim EXCEPT !.count[n] = @ + 1] /\ LetsThrough(lim, n, t)
      BY <1>4, <2>1, <2>3 DEF Checked, LetsThrough
    <3>2. new = [tracked |-> lim.tracked, start |-> lim.start,
                 count |-> [lim.count EXCEPT ![n] = @ + 1]]
      BY <3>1 DEF Limiters
    <3>3. new \in Limiters
      BY <1>1, <2>2, <2>3, <3>2 DEF Limiters
    <3> QED  BY <1>4, <2>1, <2>3, <3>1, <3>2, <3>3 DEF WithinWindow
  <2>4. CASE lim.count[n] = Cap
    <3>1. new = lim /\ ~LetsThrough(lim, n, t)
      BY <1>1, <1>4, <2>1, <2>4 DEF Checked, LetsThrough
    <3> QED  BY <1>4, <2>1, <2>4, <3>1 DEF WithinWindow
  <2> QED  BY <1>1, <2>2, <2>3, <2>4
<1> QED  BY <1>2, <1>3, <1>4, <1>0

-----------------------------------------------------------------------------
(* The ledger of one sender: p are its passes, the last k of them in the     *)
(* window that its first pass opened at st; it is tracked or not, at t.      *)

Ledger(p, k, st, tracked, t) ==
  /\ k <= Len(p)
  /\ Len(p) > 0 => k >= 1 /\ p[Len(p) - k + 1] = st
  /\ \A i \in 1 .. Len(p) : p[i] <= t
  /\ \A i, j \in 1 .. Len(p) : i <= j => p[i] <= p[j]
  /\ \A i \in 1 .. Len(p) : i + Cap <= Len(p) - k + 1 => p[i] + Window <= st
  /\ \A i, j \in 1 .. Len(p) : j - i >= 2 * Cap - 1 => p[j] >= p[i] + Window
  /\ tracked => Len(p) > 0
  /\ ~tracked /\ Len(p) > 0 => st + Window <= t

LEMMA LedgerLater ==
  ASSUME NEW p \in Seq(Nat), NEW k \in 0 .. Cap, NEW st \in Nat, NEW tracked \in BOOLEAN,
         NEW t \in Nat, NEW u \in Nat, t <= u, Ledger(p, k, st, tracked, t)
  PROVE  Ledger(p, k, st, tracked, u)
<1>1. Len(p) \in Nat /\ \A i \in 1 .. Len(p) : p[i] \in Nat
  OBVIOUS
<1>2. (~tracked /\ Len(p) > 0 => st + Window <= u) /\ \A i \in 1 .. Len(p) : p[i] <= u
  BY <1>1, LimiterConstants DEF Ledger
<1> QED  BY <1>2 DEF Ledger

LEMMA LedgerForgotten ==
  ASSUME NEW p, NEW k, NEW st, NEW t, Ledger(p, k, st, TRUE, t), st + Window <= t
  PROVE  Ledger(p, k, st, FALSE, t)
  BY DEF Ledger

\* The entries of a sender that is tracked, from the parts of its ledger.
LEMMA LedgerMade ==
  ASSUME NEW q, NEW k, NEW st, NEW t, NEW last, Len(q) = last,
         k <= last, k >= 1, last > 0, q[last - k + 1] = st,
         \A i \in 1 .. last : q[i] <= t,
         \A i, j \in 1 .. last : i <= j => q[i] <= q[j],
         \A i \in 1 .. last : i + Cap <= last - k + 1 => q[i] + Window <= st,
         \A i, j \in 1 .. last : j - i >= 2 * Cap - 1 => q[j] >= q[i] + Window
  PROVE  Ledger(q, k, st, TRUE, t)
  BY DEF Ledger

\* A pass that opens a window: the one before is over, so its first pass, and
\* all that came before it, are a window ago.
LEMMA LedgerOpens ==
  ASSUME NEW p \in Seq(Nat), NEW k \in 0 .. Cap, NEW st \in Nat, NEW tracked \in BOOLEAN,
         NEW t \in Nat, Ledger(p, k, st, tracked, t), tracked => st + Window <= t
  PROVE  Ledger(Append(p, t), 1, t, TRUE, t)
<1> DEFINE q == Append(p, t)
           L == Len(p)
<1>1. /\ L \in Nat /\ Len(q) = L + 1 /\ q[L + 1] = t
      /\ \A i \in 1 .. L : q[i] = p[i] /\ p[i] \in Nat /\ p[i] <= t
      /\ Cap \in Nat /\ Cap >= 1 /\ Window \in Nat
  BY LimiterConstants DEF Ledger
<1>2. ASSUME NEW i \in 1 .. L, i + Cap <= L + 1  PROVE p[i] + Window <= t
  <2>1. /\ k \in Nat /\ k >= 1 /\ k <= L /\ k <= Cap
        /\ p[L - k + 1] = st /\ st + Window <= t
    BY <1>1 DEF Ledger
  <2>2. i <= L - k + 1 /\ L - k + 1 \in 1 .. L
    BY <1>1, <1>2, <2>1
  <2>3. p[i] <= st
    BY <2>1, <2>2 DEF Ledger
  <2> QED  BY <1>1, <2>1, <2>3
<1>3. \A i \in 1 .. L + 1 : q[i] <= t
  BY <1>1
<1>4. \A i, j \in 1 .. L + 1 : i <= j => q[i] <= q[j]
  BY <1>1, <1>3 DEF Ledger
<1>5. \A i \in 1 .. L + 1 : i + Cap <= L + 1 => q[i] + Window <= t
  BY <1>1, <1>2
<1>6. ASSUME NEW i \in 1 .. L + 1, NEW j \in 1 .. L + 1, j - i >= 2 * Cap - 1
      PROVE  q[j] >= q[i] + Window
  <2>1. i \in 1 .. L
    BY <1>1, <1>6
  <2>2. CASE j \in 1 .. L
    BY <1>1, <1>6, <2>1, <2>2 DEF Ledger
  <2>3. CASE j = L + 1
    <3>1. i + Cap <= L + 1
      BY <1>1, <1>6, <2>3
    <3> QED  BY <1>1, <1>2, <2>1, <2>3, <3>1
  <2> QED  BY <1>1, <2>2, <2>3
<1> DEFINE one == 1
           last == L + 1
<1>7. last - one + 1 = L + 1 /\ one <= last /\ one >= 1 /\ last > 0
  BY <1>1
<1> HIDE DEF q, L, one
<1>8. \A i \in 1 .. last : i + Cap <= last - one + 1 => q[i] + Window <= t
  BY <1>5, <1>7
<1>9. q[last - one + 1] = t /\ Len(q) = last
  BY <1>1, <1>7
<1> HIDE DEF last
<1>10. \A i \in 1 .. last : q[i] <= t
  BY <1>3 DEF last
<1>11. \A i, j \in 1 .. last : i <= j => q[i] <= q[j]
  BY <1>4 DEF last
<1>12. \A i, j \in 1 .. last : j - i >= 2 * Cap - 1 => q[j] >= q[i] + Window
  BY <1>6 DEF last
<1>13. Ledger(q, one, t, TRUE, t)
  BY <1>7, <1>8, <1>9, <1>10, <1>11, <1>12, LedgerMade
<1> QED  BY <1>13 DEF q, one

\* A further pass of a window: it cannot be too many, as one that is 2 * Cap
\* passes earlier lies before the window before.
LEMMA LedgerCounts ==
  ASSUME NEW p \in Seq(Nat), NEW k \in 0 .. Cap, NEW st \in Nat, NEW t \in Nat,
         Ledger(p, k, st, TRUE, t), k < Cap
  PROVE  Ledger(Append(p, t), k + 1, st, TRUE, t)
<1> DEFINE q == Append(p, t)
           L == Len(p)
<1>1. /\ L \in Nat /\ Len(q) = L + 1 /\ q[L + 1] = t
      /\ \A i \in 1 .. L : q[i] = p[i] /\ p[i] \in Nat /\ p[i] <= t
      /\ Cap \in Nat /\ Cap >= 1 /\ Window \in Nat
  BY LimiterConstants DEF Ledger
<1>2. /\ k \in Nat /\ k >= 1 /\ k <= L /\ p[L - k + 1] = st /\ L - k + 1 \in 1 .. L
      /\ st <= t
  BY <1>1 DEF Ledger
<1>3. \A i \in 1 .. L + 1 : q[i] <= t
  BY <1>1
<1>4. \A i, j \in 1 .. L + 1 : i <= j => q[i] <= q[j]
  BY <1>1, <1>3 DEF Ledger
<1>5. \A i \in 1 .. L + 1 : i + Cap <= L - k + 1 => q[i] + Window <= st
  BY <1>1, <1>2 DEF Ledger
<1>6. ASSUME NEW i \in 1 .. L + 1, NEW j \in 1 .. L + 1, j - i >= 2 * Cap - 1
      PROVE  q[j] >= q[i] + Window
  <2>1. i \in 1 .. L
    BY <1>1, <1>6
  <2>2. CASE j \in 1 .. L
    BY <1>1, <1>6, <2>1, <2>2 DEF Ledger
  <2>3. CASE j = L + 1
    <3>1. i + Cap <= L - k + 1
      BY <1>1, <1>2, <1>6, <2>3
    <3>2. q[i] + Window <= st
      BY <1>5, <3>1
    <3> QED  BY <1>1, <1>2, <2>1, <2>3, <3>2
  <2> QED  BY <1>1, <2>2, <2>3
<1>7. q[(L + 1) - (k + 1) + 1] = st
  BY <1>1, <1>2
<1>8. (L + 1) - (k + 1) + 1 = L - k + 1
  BY <1>1, <1>2
<1>9. k + 1 <= L + 1 /\ k + 1 >= 1 /\ L + 1 > 0
  BY <1>1, <1>2
<1> HIDE DEF q, L
<1>10. \A i \in 1 .. L + 1 : i + Cap <= (L + 1) - (k + 1) + 1 => q[i] + Window <= st
  BY <1>5, <1>8
<1>11. Ledger(q, k + 1, st, TRUE, t)
  BY <1>1, <1>3, <1>4, <1>6, <1>7, <1>9, <1>10, LedgerMade
<1> QED  BY <1>11 DEF q

-----------------------------------------------------------------------------
(* The invariant *)

LimiterInv ==
  /\ Cardinality(limiter.tracked) <= AtLeastOne(MaxTracked)
  /\ \A n \in Nodes :
       Ledger(passes[n], limiter.count[n], limiter.start[n], n \in limiter.tracked, now)

\* A token whose MAC re-derives was issued to its node when that was admitted,
\* its last admission being no earlier.
Genuine(token) ==
  ReDerives(token) =>
    /\ token.seq_floor = 0
    /\ admittedAt[token.node_id] # Never
    /\ token.expires_at <= admittedAt[token.node_id] + ResumeTtl

TokenInv ==
  /\ \A n \in Nodes : \A token \in tokens[n] : Genuine(token)
  /\ \A r \in requests : r.req = Garbled \/ r.req.resume = NoToken \/ Genuine(r.req.resume)

AdmittedBefore == \A n \in Nodes : admittedAt[n] <= now

\* The expiry in the username of an ICE server is that of a credential minted.
FromMint(ice) == \A server \in ToSet(ice) : \E t \in minted : server.username[1] = t + TurnTtl

MintInv ==
  /\ \A t \in minted : t \in Nat /\ t <= now
  /\ FromMint(host.ice)
  /\ \A n \in Nodes : session[n] # <<>> => admittedAt[n] # Never /\ FromMint(session[n][1])

IInv ==
  /\ Shape /\ TypeOK /\ LimiterInv /\ MintInv
  /\ AdmittedBefore
  /\ SecretKept => TokenInv

-----------------------------------------------------------------------------
(* What the host answers *)

\* The token of an answer, whatever token was presented; its floor is 0 unless
\* it was copied from a token that this host never issued.
LEMMA GrantedFacts ==
  ASSUME NEW n \in Nodes, NEW req \in Requests, NEW t \in Nat,
         NEW gate, NEW token, token = Granted(Secret, Room, gate, n, req, t)
  PROVE  \/ ~Admits(Secret, Room, gate, n, req, t) /\ token = NoToken
         \/ /\ Admits(Secret, Room, gate, n, req, t)
            /\ token \in Tokens /\ token # NoToken
            /\ token.node_id = n /\ token.expires_at = t + ResumeTtl
            /\ req.resume = NoToken \/ Genuine(req.resume) => token.seq_floor = 0
<1> DEFINE floor == GrantedFloor(Secret, Room, n, req, t)
<1>1. req.resume \in Tokens \cup {NoToken}
  BY DEF Requests
<1>2. floor \in Nat /\ (req.resume = NoToken \/ Genuine(req.resume) => floor = 0)
  <2>1. CASE Resumes(Secret, Room, n, req, t)
    <3>1. req.resume # NoToken /\ ReDerives(req.resume)
      BY <2>1 DEF Resumes, Verifies, ReDerives
    <3>2. req.resume.seq_floor \in Nat
      BY <1>1, <3>1 DEF Tokens
    <3> QED  BY <2>1, <3>1, <3>2 DEF Genuine, GrantedFloor
  <2>2. CASE ~Resumes(Secret, Room, n, req, t)
    BY <2>2 DEF GrantedFloor
  <2> QED  BY <2>1, <2>2
<1>3. Room \in Rooms /\ Secret \in Secrets /\ ResumeTtl \in Nat /\ NoToken \notin Tokens
  BY AdmissionAssumption, TtlAssumption
<1> HIDE DEF floor
<1>4. CASE Admits(Secret, Room, gate, n, req, t)
  <2>1. token = [room_id |-> Room, node_id |-> n, expires_at |-> t + ResumeTtl,
                 seq_floor |-> floor, mac |-> <<Secret, Room, n, t + ResumeTtl, floor>>]
    BY <1>4 DEF Granted, IssueResume, ResumeMac, floor
  <2>2. token \in Tokens
    BY <1>2, <1>3, <2>1 DEF Tokens
  <2>3. token.node_id = n /\ token.expires_at = t + ResumeTtl /\ token.seq_floor = floor
    BY <2>1
  <2> QED  BY <1>2, <1>3, <1>4, <2>2, <2>3
<1>5. CASE ~Admits(Secret, Room, gate, n, req, t)
  BY <1>5 DEF Granted
<1> QED  BY <1>4, <1>5

\* A request that is admitted, by a token or by a chain.
LEMMA AdmitsWithAuthority ==
  ASSUME host.gate.open = Open, NEW n \in Nodes, NEW req \in Requests,
         now \in Nat, admittedAt[n] \in {Never} \cup Nat,
         req.resume = NoToken \/ Genuine(req.resume),
         Admits(Secret, Room, host.gate, n, req, now)
  PROVE  \/ Open
         \/ \E c \in Chains : Authorizes(c, n, now, host.gate.revoked)
         \/ admittedAt[n] # Never /\ now <= admittedAt[n] + ResumeTtl
<1>1. CASE Resumes(Secret, Room, n, req, now)
  <2> DEFINE token == req.resume
  <2>1. token # NoToken /\ token.node_id = n /\ now <= token.expires_at /\ ReDerives(token)
    BY <1>1 DEF Resumes, Verifies, ReDerives
  <2>2. token \in Tokens /\ token.expires_at \in Nat
    BY <2>1 DEF Requests, Tokens
  <2>3. admittedAt[n] # Never /\ token.expires_at <= admittedAt[n] + ResumeTtl
    BY <2>1 DEF Genuine
  <2> QED  BY <2>1, <2>2, <2>3, TtlAssumption DEF Never
<1>2. CASE ~Resumes(Secret, Room, n, req, now)
  BY <1>2 DEF Admits, GateAllows
<1> QED  BY <1>1, <1>2

-----------------------------------------------------------------------------
(* The initial states *)

LEMMA InitShape == Init => Shape /\ TypeOK
<1> SUFFICES ASSUME Init PROVE Shape /\ TypeOK
  OBVIOUS
<1>1. NewLimiter \in Limiters /\ NewLimiter.tracked = {} /\ IsFiniteSet({})
  BY LimiterConstants, FS_EmptySet DEF NewLimiter, Limiters
<1>2. MaxTime \in Nat /\ MaxSaid \in [Nodes -> Nat]
      /\ Open \in BOOLEAN
  BY AdmissionAssumption
<1>3. passes = [n \in Nodes |-> <<>>] /\ <<>> \in Seq(Nat)
  BY DEF Init
<1>4. passes \in [Nodes -> Seq(Nat)]
  BY <1>3
<1>5. Shape
  BY <1>1, <1>2, <1>4 DEF Init, Shape
<1>6. TypeOK
  BY <1>1, <1>2 DEF Init, TypeOK, Down
<1> QED  BY <1>5, <1>6

LEMMA InitParts == Init => LimiterInv /\ TokenInv /\ AdmittedBefore /\ MintInv
<1> SUFFICES ASSUME Init PROVE LimiterInv /\ TokenInv /\ AdmittedBefore /\ MintInv
  OBVIOUS
<1>1. LimiterInv
  BY LimiterConstants, FS_EmptySet DEF Init, LimiterInv, NewLimiter, Ledger
<1>2. TokenInv /\ AdmittedBefore
  BY DEF Init, TokenInv, AdmittedBefore, Never
<1>3. MintInv
  BY DEF Init, MintInv, FromMint, Down, ToSet
<1> QED  BY <1>1, <1>2, <1>3

-----------------------------------------------------------------------------
(* Each step preserves the types *)

\* What the host's loop does with one request.
LEMMA ServeFacts ==
  ASSUME IInv, NEW r \in requests, Serve(r)
  PROVE  LET n == r.from
             token == Granted(Secret, Room, host.gate, n, r.req, now)
         IN  /\ n \in Nodes /\ r.id \in Nat
             /\ limiter' \in Limiters
             /\ NoRoomFor(limiter, n, now, limiter') \/ OpensWindow(limiter, n, now, limiter')
                  \/ WithinWindow(limiter, n, now, limiter')
             /\ passes' = IF LetsThrough(limiter, n, now)
                          THEN [passes EXCEPT ![n] = Append(@, now)] ELSE passes
             /\ \/ admittedAt' = admittedAt /\ UNCHANGED joinerVars
                \/ /\ r.req \in Requests
                   /\ ~Admits(Secret, Room, host.gate, n, r.req, now)
                   /\ admittedAt' = admittedAt
                   /\ waiting' = [waiting EXCEPT ![n] = 0]
                   /\ UNCHANGED <<asked, tokens, session, next_seq, said>>
                \/ /\ r.req \in Requests
                   /\ Admits(Secret, Room, host.gate, n, r.req, now)
                   /\ admittedAt' = [admittedAt EXCEPT ![n] = now]
                   /\ \/ UNCHANGED joinerVars
                      \/ /\ waiting' = [waiting EXCEPT ![n] = 0]
                         /\ token \in Tokens
                         /\ token.node_id = n /\ token.expires_at = now + ResumeTtl
                         /\ tokens' = [tokens EXCEPT ![n] = @ \cup {token}]
                         /\ session' = [session EXCEPT ![n] = <<host.ice>>]
                         /\ next_seq' \in [Nodes -> Nat]
                         /\ SecretKept => token.seq_floor = 0 /\ next_seq' = next_seq
                         /\ UNCHANGED <<asked, said>>
<1> DEFINE n == r.from
           token == Granted(Secret, Room, host.gate, n, r.req, now)
<1>1. /\ n \in Nodes /\ r.id \in 1 .. asked[n] /\ (r.req = Garbled \/ r.req \in Requests)
      /\ limiter \in Limiters /\ now \in Nat /\ asked[n] \in Nat
      /\ next_seq \in [Nodes -> Nat]
  BY DEF IInv, TypeOK, Shape
<1>2. /\ limiter' = Checked(limiter, n, now)
      /\ passes' = IF LetsThrough(limiter, n, now)
                   THEN [passes EXCEPT ![n] = Append(@, now)] ELSE passes
  BY DEF Serve
<1>3. CASE ~LetsThrough(limiter, n, now) \/ r.req = Garbled
  <2>1. admittedAt' = admittedAt /\ UNCHANGED joinerVars
    BY <1>3 DEF Serve
  <2> QED  BY <1>1, <1>2, <2>1, CheckedCases
<1>4. CASE LetsThrough(limiter, n, now) /\ r.req # Garbled
  <2>1. /\ r.req \in Requests
        /\ SecretKept => r.req.resume = NoToken \/ Genuine(r.req.resume)
    BY <1>1, <1>4 DEF IInv, TokenInv
  <2>2. /\ admittedAt' = IF Admits(Secret, Room, host.gate, n, r.req, now)
                         THEN [admittedAt EXCEPT ![n] = now] ELSE admittedAt
        /\ Answer(r, token)
    BY <1>4 DEF Serve
  <2>3. \/ ~Admits(Secret, Room, host.gate, n, r.req, now) /\ token = NoToken
        \/ /\ Admits(Secret, Room, host.gate, n, r.req, now)
           /\ token \in Tokens /\ token # NoToken
           /\ token.node_id = n /\ token.expires_at = now + ResumeTtl
           /\ SecretKept => token.seq_floor = 0
    BY <1>1, <2>1, GrantedFacts
  <2> HIDE DEF token
  <2>4. CASE UNCHANGED joinerVars
    BY <1>1, <1>2, <2>1, <2>2, <2>4, CheckedCases
  <2>5. CASE ~Admits(Secret, Room, host.gate, n, r.req, now) /\ token = NoToken
             /\ ~UNCHANGED joinerVars
    <3>1. /\ waiting' = [waiting EXCEPT ![n] = 0]
          /\ UNCHANGED <<asked, tokens, session, next_seq, said>>
      BY <2>2, <2>5 DEF Answer
    <3> QED  BY <1>1, <1>2, <2>1, <2>2, <2>5, <3>1, CheckedCases
  <2>6. CASE /\ Admits(Secret, Room, host.gate, n, r.req, now)
             /\ token \in Tokens /\ token # NoToken
             /\ token.node_id = n /\ token.expires_at = now + ResumeTtl
             /\ SecretKept => token.seq_floor = 0
             /\ ~UNCHANGED joinerVars
    <3>1. /\ waiting' = [waiting EXCEPT ![n] = 0]
          /\ tokens' = [tokens EXCEPT ![n] = @ \cup {token}]
          /\ session' = [session EXCEPT ![n] = <<host.ice>>]
          /\ next_seq' = [next_seq EXCEPT ![n] =
               IF r.req.resume # NoToken /\ token.seq_floor > @ THEN token.seq_floor ELSE @]
          /\ UNCHANGED <<asked, said>>
      BY <2>2, <2>6 DEF Answer
    <3>2. /\ next_seq' \in [Nodes -> Nat]
          /\ SecretKept => token.seq_floor = 0 /\ next_seq' = next_seq
      <4>1. token.seq_floor \in Nat
        BY <2>6 DEF Tokens
      <4> QED  BY <1>1, <2>6, <3>1, <4>1
    <3> QED  BY <1>1, <1>2, <2>1, <2>2, <2>3, <2>6, <3>1, <3>2, CheckedCases DEF token
  <2> QED  BY <2>3, <2>4, <2>5, <2>6
<1> QED  BY <1>3, <1>4

LEMMA TrackedFinite ==
  ASSUME NEW lim \in Limiters, NEW new \in Limiters, NEW n \in Nodes, NEW t \in Nat,
         IsFiniteSet(lim.tracked),
         NoRoomFor(lim, n, t, new) \/ OpensWindow(lim, n, t, new) \/ WithinWindow(lim, n, t, new)
  PROVE  IsFiniteSet(new.tracked)
<1>1. MakeRoom(lim, n, t).tracked \subseteq lim.tracked
  BY RoomyFacts
<1>2. IsFiniteSet(MakeRoom(lim, n, t).tracked)
  BY <1>1, FS_Subset
<1>3. IsFiniteSet(MakeRoom(lim, n, t).tracked \cup {n})
  BY <1>2, FS_AddElement
<1> QED  BY <1>2, <1>3 DEF NoRoomFor, OpensWindow, WithinWindow

LEMMA TypeStep ==
  ASSUME IInv, [Next]_vars
  PROVE  Shape' /\ TypeOK'
<1>0. /\ Shape /\ TypeOK
      /\ MaxTime \in Nat /\ MaxSaid \in [Nodes -> Nat] /\ Open \in BOOLEAN
      /\ 0 \in Nat /\ NewLimiter \in Limiters /\ IsFiniteSet(NewLimiter.tracked)
      /\ [n \in Nodes |-> <<>>] \in [Nodes -> Seq(Nat)]
  <2>1. NewLimiter \in Limiters /\ IsFiniteSet(NewLimiter.tracked)
    BY LimiterConstants, FS_EmptySet DEF NewLimiter, Limiters
  <2>2. <<>> \in Seq(Nat)
    OBVIOUS
  <2> QED  BY <2>1, <2>2, AdmissionAssumption DEF IInv
<1>1. CASE Tick
  BY <1>0, <1>1 DEF Tick, Shape, TypeOK, hostVars, joinerVars
<1>2. CASE Revoke
  BY <1>0, <1>2 DEF Revoke, Shape, TypeOK, hostVars, joinerVars
<1>3. CASE HostStart
  <2>1. /\ host'.up = TRUE /\ host'.gate.open = Open /\ host'.gate.revoked \subseteq revoked
        /\ limiter' = NewLimiter /\ passes' = [n \in Nodes |-> <<>>]
        /\ UNCHANGED <<now, revoked, requests, joinerVars, admittedAt>>
    BY <1>3 DEF HostStart
  <2> QED  BY <1>0, <2>1 DEF Shape, TypeOK, joinerVars
<1>4. CASE HostStop
  BY <1>0, <1>4 DEF HostStop, Down, Shape, TypeOK, joinerVars
<1>5. ASSUME NEW r \in requests, Serve(r)  PROVE Shape' /\ TypeOK'
  <2> DEFINE n == r.from
  <2>1. /\ n \in Nodes /\ limiter' \in Limiters
        /\ NoRoomFor(limiter, n, now, limiter') \/ OpensWindow(limiter, n, now, limiter')
             \/ WithinWindow(limiter, n, now, limiter')
        /\ passes' = IF LetsThrough(limiter, n, now)
                     THEN [passes EXCEPT ![n] = Append(@, now)] ELSE passes
    BY <1>5, ServeFacts
  <2>2. IsFiniteSet(limiter'.tracked)
    BY <2>1, <1>0, TrackedFinite DEF Shape
  <2>3. /\ requests' \subseteq requests
        /\ UNCHANGED <<host, now, revoked>>
    BY <1>5 DEF Serve
  <2>4. passes' \in [Nodes -> Seq(Nat)]
    BY <1>0, <2>1 DEF Shape
  <2>5. /\ admittedAt' \in [Nodes -> {Never} \cup Nat]
        /\ admittedAt' \in [Nodes -> {Never} \cup (0 .. MaxTime)]
    <3>1. admittedAt' = admittedAt \/ admittedAt' = [admittedAt EXCEPT ![n] = now]
      BY <1>5, ServeFacts
    <3>2. /\ admittedAt \in [Nodes -> {Never} \cup Nat] /\ now \in Nat
          /\ admittedAt \in [Nodes -> {Never} \cup (0 .. MaxTime)] /\ now \in 0 .. MaxTime
      BY <1>0 DEF Shape, TypeOK
    <3>3. n \in Nodes
      BY <2>1
    <3> HIDE DEF n
    <3> QED  BY <3>1, <3>2, <3>3
  <2>6. /\ asked' = asked /\ said' = said /\ next_seq' \in [Nodes -> Nat]
        /\ waiting' = waiting \/ waiting' = [waiting EXCEPT ![n] = 0]
        /\ session' = session \/ session' = [session EXCEPT ![n] = <<host.ice>>]
        /\ \/ tokens' = tokens
           \/ \E token \in Tokens : tokens' = [tokens EXCEPT ![n] = @ \cup {token}]
    <3>1. next_seq \in [Nodes -> Nat]
      BY <1>0 DEF Shape
    <3> QED  BY <1>5, <3>1, ServeFacts DEF joinerVars
  <2>a. /\ tokens \in [Nodes -> SUBSET Tokens] /\ n \in Nodes
        /\ waiting \in [Nodes -> Nat] /\ asked \in [Nodes -> Nat] /\ DOMAIN session = Nodes
        /\ \A m \in Nodes : waiting[m] \in 0 .. asked[m]
    BY <1>0, <2>1 DEF Shape, TypeOK
  <2> HIDE DEF n
  <2>7. tokens' \in [Nodes -> SUBSET Tokens]
    BY <2>a, <2>6
  <2>b. waiting' \in [Nodes -> Nat] /\ DOMAIN session' = Nodes
    BY <2>a, <2>6
  <2>c. \A m \in Nodes : waiting'[m] \in 0 .. asked[m]
    BY <2>a, <2>6
  <2>8. waiting' \in [Nodes -> Nat] /\ (\A m \in Nodes : waiting'[m] \in 0 .. asked[m])
          /\ DOMAIN session' = Nodes
    BY <2>b, <2>c
  <2>9. Shape'
    BY <1>0, <2>1, <2>2, <2>3, <2>4, <2>5, <2>6, <2>7, <2>8 DEF Shape
  <2> QED  BY <1>0, <2>1, <2>3, <2>5, <2>6, <2>7, <2>8, <2>9 DEF TypeOK
<1>6. ASSUME NEW n \in Nodes, NEW req, req = Garbled \/ req \in Requests, Send(n, req)
      PROVE  Shape' /\ TypeOK'
  <2>1. /\ asked' = [asked EXCEPT ![n] = @ + 1]
        /\ waiting' = [waiting EXCEPT ![n] = asked'[n]]
        /\ requests' = requests \cup {[from |-> n, id |-> asked'[n], req |-> req]}
        /\ UNCHANGED <<now, revoked, hostVars, tokens, session, next_seq, said, admittedAt>>
    BY <1>6 DEF Send
  <2>2. asked' \in [Nodes -> Nat] /\ asked'[n] \in 1 .. asked'[n]
          /\ \A m \in Nodes : asked[m] <= asked'[m]
    BY <1>0, <2>1 DEF Shape
  <2>3. waiting' \in [Nodes -> Nat] /\ \A m \in Nodes : waiting'[m] \in 0 .. asked'[m]
    BY <1>0, <2>1, <2>2 DEF Shape, TypeOK
  <2>4. \A r \in requests' : r.from \in Nodes /\ r.id \in 1 .. asked'[r.from]
                               /\ (r.req = Garbled \/ r.req \in Requests)
    <3>1. ASSUME NEW r \in requests
          PROVE  r.from \in Nodes /\ r.id \in 1 .. asked'[r.from]
                   /\ (r.req = Garbled \/ r.req \in Requests)
      <4>1. /\ r.from \in Nodes /\ r.id \in 1 .. asked[r.from]
            /\ (r.req = Garbled \/ r.req \in Requests)
        BY <1>0, <3>1 DEF TypeOK
      <4>2. /\ asked[r.from] \in Nat /\ asked'[r.from] \in Nat
            /\ asked[r.from] <= asked'[r.from]
        BY <1>0, <2>2, <4>1 DEF Shape
      <4>3. r.id \in 1 .. asked'[r.from]
        BY <4>1, <4>2
      <4> QED  BY <4>1, <4>3
    <3> QED  BY <1>6, <2>1, <2>2, <3>1
  <2>5. Shape'
    BY <1>0, <2>1, <2>2, <2>3 DEF Shape, hostVars
  <2>6. /\ now' \in 0 .. MaxTime /\ revoked' \subseteq AllLinks
        /\ host'.up \in BOOLEAN /\ host'.gate.open = Open /\ host'.gate.revoked \subseteq revoked'
        /\ limiter' \in Limiters /\ admittedAt' \in [Nodes -> {Never} \cup (0 .. MaxTime)]
    BY <1>0, <2>1 DEF TypeOK, hostVars
  <2>7. \A m \in Nodes : /\ tokens'[m] \subseteq Tokens
                          /\ said'[m] \in 0 .. MaxSaid[m] /\ next_seq'[m] \in Nat
    BY <1>0, <2>1 DEF TypeOK
  <2>8. TypeOK'
    BY <2>3, <2>4, <2>6, <2>7 DEF TypeOK
  <2> QED  BY <2>5, <2>8
<1>7. ASSUME NEW n \in Nodes, RequestAdmission(n)  PROVE Shape' /\ TypeOK'
  BY <1>6, <1>7, AdmissionAssumption DEF RequestAdmission
<1>8. ASSUME NEW n \in Nodes, RequestResume(n)  PROVE Shape' /\ TypeOK'
  <2>1. PICK token \in (UNION {tokens[m] : m \in Nodes}) \cup OtherTokens :
          Send(n, [room_id |-> Room, caps |-> NoChain, resume |-> token])
    BY <1>8 DEF RequestResume
  <2>2. token \in Tokens /\ Room \in Rooms
    <3>1. OtherTokens \subseteq Tokens /\ Room \in Rooms
      BY AdmissionAssumption
    <3>2. \A m \in Nodes : tokens[m] \subseteq Tokens
      BY <1>0 DEF Shape
    <3>3. token \in OtherTokens \/ \E m \in Nodes : token \in tokens[m]
      BY <2>1
    <3> QED  BY <3>1, <3>2, <3>3
  <2>3. [room_id |-> Room, caps |-> NoChain, resume |-> token] \in Requests
    BY <2>2 DEF Requests
  <2> QED  BY <1>6, <2>1, <2>3
<1>9. ASSUME NEW n \in Nodes, Timeout(n)  PROVE Shape' /\ TypeOK'
  BY <1>0, <1>9 DEF Timeout, Shape, TypeOK, hostVars
<1>10. ASSUME NEW n \in Nodes, Publish(n)  PROVE Shape' /\ TypeOK'
  <2>1. /\ next_seq[n] < MaxSaid[n]
        /\ next_seq' = [next_seq EXCEPT ![n] = @ + 1]
        /\ said' = [said EXCEPT ![n] = IF @ > next_seq[n] THEN @ ELSE next_seq[n] + 1]
        /\ UNCHANGED <<now, revoked, hostVars, requests, asked, waiting, tokens, session, admittedAt>>
    BY <1>10 DEF Publish
  <2>2. next_seq' \in [Nodes -> Nat] /\ said' \in [Nodes -> Nat]
    BY <1>0, <2>1 DEF Shape
  <2>3. \A m \in Nodes : said'[m] \in 0 .. MaxSaid[m] /\ next_seq'[m] \in Nat
    BY <1>0, <2>1, <2>2 DEF Shape, TypeOK
  <2> QED  BY <1>0, <2>1, <2>2, <2>3 DEF Shape, TypeOK, hostVars
<1>11. ASSUME NEW n \in Nodes, Restart(n)  PROVE Shape' /\ TypeOK'
  BY <1>0, <1>11 DEF Restart, Shape, TypeOK, hostVars
<1>12. ASSUME NEW n \in Nodes, Allocate(n)  PROVE Shape' /\ TypeOK'
  BY <1>0, <1>12 DEF Allocate, Shape, TypeOK, hostVars, joinerVars
<1>13. CASE UNCHANGED vars
  BY <1>0, <1>13 DEF vars, Shape, TypeOK, hostVars, joinerVars
<1> QED
  BY <1>1, <1>2, <1>3, <1>4, <1>5, <1>7, <1>8, <1>9, <1>10, <1>11, <1>12, <1>13 DEF Next

-----------------------------------------------------------------------------
(* Each step preserves the ledgers *)

\* The table: it grows by one sender only if it is not full.
LEMMA TableStep ==
  ASSUME NEW lim \in Limiters, NEW new \in Limiters, NEW n \in Nodes, NEW t \in Nat,
         IsFiniteSet(lim.tracked), Cardinality(lim.tracked) <= AtLeastOne(MaxTracked),
         NoRoomFor(lim, n, t, new) \/ OpensWindow(lim, n, t, new) \/ WithinWindow(lim, n, t, new)
  PROVE  Cardinality(new.tracked) <= AtLeastOne(MaxTracked)
<1> DEFINE roomy == MakeRoom(lim, n, t)
<1>1. roomy.tracked \subseteq lim.tracked /\ (n \in lim.tracked => roomy = lim)
  BY RoomyFacts
<1>2. /\ IsFiniteSet(roomy.tracked) /\ Cardinality(roomy.tracked) <= Cardinality(lim.tracked)
      /\ Cardinality(roomy.tracked) \in Nat /\ Cardinality(lim.tracked) \in Nat
  BY <1>1, FS_Subset, FS_CardinalityType
<1>3. AtLeastOne(MaxTracked) \in Nat
  BY LimiterConstants
<1>4. Cardinality(roomy.tracked \cup {n}) =
        IF n \in roomy.tracked THEN Cardinality(roomy.tracked) ELSE Cardinality(roomy.tracked) + 1
  BY <1>2, FS_AddElement
<1>5. CASE NoRoomFor(lim, n, t, new)
  BY <1>2, <1>3, <1>5 DEF NoRoomFor
<1>6. CASE OpensWindow(lim, n, t, new)
  <2>1. new.tracked = roomy.tracked \cup {n} /\ (n \in lim.tracked \/ ~Full(roomy))
    BY <1>6 DEF OpensWindow
  <2> HIDE DEF roomy
  <2>2. CASE n \in lim.tracked
    BY <1>1, <1>4, <2>1, <2>2
  <2>3. CASE ~Full(roomy)
    BY <1>2, <1>3, <1>4, <2>1, <2>3 DEF Full
  <2> QED  BY <2>1, <2>2, <2>3
<1>7. CASE WithinWindow(lim, n, t, new)
  BY <1>7 DEF WithinWindow
<1> QED  BY <1>5, <1>6, <1>7

\* The entries: that of the sender follows its pass, the others may be forgotten.
LEMMA EntriesStep ==
  ASSUME Shape, NEW n \in Nodes,
         \A m \in Nodes :
           Ledger(passes[m], limiter.count[m], limiter.start[m], m \in limiter.tracked, now),
         NEW new \in Limiters,
         NoRoomFor(limiter, n, now, new) \/ OpensWindow(limiter, n, now, new)
           \/ WithinWindow(limiter, n, now, new),
         NEW passed,
         passed = IF LetsThrough(limiter, n, now)
                  THEN [passes EXCEPT ![n] = Append(@, now)] ELSE passes
  PROVE  \A m \in Nodes :
           Ledger(passed[m], new.count[m], new.start[m], m \in new.tracked, now)
<1> DEFINE roomy == MakeRoom(limiter, n, now)
<1>0. /\ limiter \in Limiters /\ now \in Nat
      /\ limiter.count \in [Nodes -> 0 .. Cap] /\ limiter.start \in [Nodes -> Nat]
      /\ passes \in [Nodes -> Seq(Nat)] /\ Window \in Nat /\ Cap \in Nat
  BY LimiterConstants DEF Shape, Limiters
<1>1. /\ roomy.tracked \subseteq limiter.tracked
      /\ roomy.start = limiter.start /\ roomy.count = limiter.count
      /\ \A m \in limiter.tracked \ roomy.tracked : Expired(limiter, m, now)
      /\ n \in limiter.tracked => roomy = limiter
  BY <1>0, RoomyFacts
<1>2. ASSUME NEW m \in Nodes
      PROVE  Ledger(passes[m], limiter.count[m], limiter.start[m], m \in roomy.tracked, now)
  <2>1. CASE m \in limiter.tracked \ roomy.tracked
    <3>1. limiter.start[m] + Window <= now
      BY <1>0, <1>1, <2>1 DEF Expired
    <3>2. Ledger(passes[m], limiter.count[m], limiter.start[m], TRUE, now)
      BY <2>1
    <3>3. Ledger(passes[m], limiter.count[m], limiter.start[m], FALSE, now)
      BY <3>1, <3>2, LedgerForgotten
    <3>4. (m \in roomy.tracked) = FALSE
      BY <2>1
    <3> QED  BY <3>3, <3>4
  <2>2. CASE m \notin limiter.tracked \ roomy.tracked
    <3>1. (m \in limiter.tracked) = (m \in roomy.tracked)
      BY <1>1, <2>2
    <3> HIDE DEF roomy
    <3> QED  BY <3>1
  <2> QED  BY <1>1, <2>1, <2>2
<1> HIDE DEF roomy
<1>3. CASE NoRoomFor(limiter, n, now, new)
  <2>1. new = roomy /\ passed = passes
    BY <1>3 DEF NoRoomFor, roomy
  <2> QED  BY <1>1, <1>2, <2>1
<1>4. CASE OpensWindow(limiter, n, now, new)
  <2>1. /\ new.tracked = roomy.tracked \cup {n}
        /\ new.start = [limiter.start EXCEPT ![n] = now]
        /\ new.count = [limiter.count EXCEPT ![n] = 1]
        /\ passed = [passes EXCEPT ![n] = Append(@, now)]
        /\ n \in limiter.tracked => Expired(limiter, n, now)
    BY <1>4 DEF OpensWindow, roomy
  <2>2. ASSUME NEW m \in Nodes
        PROVE  Ledger(passed[m], new.count[m], new.start[m], m \in new.tracked, now)
    <3>1. CASE m = n
      <4>1. n \in limiter.tracked => limiter.start[n] + Window <= now
        BY <1>0, <2>1 DEF Expired
      <4>2. (n \in limiter.tracked) \in BOOLEAN
        OBVIOUS
      <4>3. /\ passes[n] \in Seq(Nat) /\ limiter.count[n] \in 0 .. Cap /\ limiter.start[n] \in Nat
        BY <1>0
      <4>4. Ledger(Append(passes[n], now), 1, now, TRUE, now)
        BY <1>0, <4>1, <4>2, <4>3, LedgerOpens
      <4>5. /\ passed[n] = Append(passes[n], now) /\ new.count[n] = 1 /\ new.start[n] = now
            /\ n \in new.tracked
        BY <1>0, <2>1
      <4> QED  BY <3>1, <4>4, <4>5
    <3>2. CASE m # n
      <4>1. /\ passed[m] = passes[m] /\ new.count[m] = limiter.count[m]
            /\ new.start[m] = limiter.start[m]
        BY <1>0, <2>1, <3>2
      <4>2. (m \in new.tracked) = (m \in roomy.tracked)
        BY <2>1, <3>2
      <4> QED  BY <1>2, <4>1, <4>2
    <3> QED  BY <3>1, <3>2
  <2> QED  BY <2>2
<1>5. CASE WithinWindow(limiter, n, now, new)
  <2>1. /\ n \in limiter.tracked /\ new.tracked = limiter.tracked /\ new.start = limiter.start
    BY <1>5 DEF WithinWindow
  <2>2. CASE ~LetsThrough(limiter, n, now)
    BY <1>5, <2>1, <2>2 DEF WithinWindow
  <2>3. CASE LetsThrough(limiter, n, now)
    <3>1. /\ limiter.count[n] < Cap /\ new.count = [limiter.count EXCEPT ![n] = @ + 1]
          /\ passed = [passes EXCEPT ![n] = Append(@, now)]
      BY <1>5, <2>3 DEF WithinWindow
    <3>2. ASSUME NEW m \in Nodes
          PROVE  Ledger(passed[m], new.count[m], new.start[m], m \in new.tracked, now)
      <4>1. CASE m = n
        <5>1. /\ passes[n] \in Seq(Nat) /\ limiter.count[n] \in 0 .. Cap
              /\ limiter.start[n] \in Nat
          BY <1>0
        <5>2. Ledger(passes[n], limiter.count[n], limiter.start[n], TRUE, now)
          BY <2>1
        <5>3. Ledger(Append(passes[n], now), limiter.count[n] + 1, limiter.start[n], TRUE, now)
          BY <1>0, <3>1, <5>1, <5>2, LedgerCounts
        <5>4. /\ passed[n] = Append(passes[n], now) /\ new.count[n] = limiter.count[n] + 1
              /\ new.start[n] = limiter.start[n] /\ n \in new.tracked
          BY <1>0, <2>1, <3>1
        <5> QED  BY <4>1, <5>3, <5>4
      <4>2. CASE m # n
        <5>1. /\ passed[m] = passes[m] /\ new.count[m] = limiter.count[m]
              /\ new.start[m] = limiter.start[m]
          BY <1>0, <2>1, <3>1, <4>2
        <5> QED  BY <2>1, <5>1
      <4> QED  BY <4>1, <4>2
    <3> QED  BY <3>2
  <2> QED  BY <2>2, <2>3
<1> QED  BY <1>3, <1>4, <1>5

LEMMA LimiterStep ==
  ASSUME IInv, [Next]_vars
  PROVE  LimiterInv'
<1>0. Shape /\ LimiterInv
  BY DEF IInv
<1>1. CASE Tick
  <2>1. /\ now' = now + 1 /\ limiter' = limiter /\ passes' = passes
        /\ now \in Nat /\ now + 1 \in Nat /\ now <= now + 1
    BY <1>0, <1>1 DEF Tick, hostVars, Shape
  <2>2. ASSUME NEW n \in Nodes
        PROVE  Ledger(passes[n], limiter.count[n], limiter.start[n], n \in limiter.tracked, now + 1)
    <3>1. /\ passes[n] \in Seq(Nat) /\ limiter.count[n] \in 0 .. Cap /\ limiter.start[n] \in Nat
          /\ (n \in limiter.tracked) \in BOOLEAN
      BY <1>0 DEF Shape, Limiters
    <3>2. Ledger(passes[n], limiter.count[n], limiter.start[n], n \in limiter.tracked, now)
      BY <1>0 DEF LimiterInv
    <3> QED  BY <2>1, <3>1, <3>2, LedgerLater
  <2> QED  BY <1>0, <2>1, <2>2 DEF LimiterInv
<1>2. CASE HostStart
  <2>1. limiter' = NewLimiter /\ passes' = [n \in Nodes |-> <<>>] /\ now' = now
    BY <1>2 DEF HostStart
  <2> QED  BY <2>1, LimiterConstants, FS_EmptySet DEF LimiterInv, NewLimiter, Ledger
<1>3. ASSUME NEW r \in requests, Serve(r)  PROVE LimiterInv'
  <2> DEFINE n == r.from
  <2>1. /\ n \in Nodes /\ limiter' \in Limiters
        /\ NoRoomFor(limiter, n, now, limiter') \/ OpensWindow(limiter, n, now, limiter')
             \/ WithinWindow(limiter, n, now, limiter')
        /\ passes' = IF LetsThrough(limiter, n, now)
                     THEN [passes EXCEPT ![n] = Append(@, now)] ELSE passes
    BY <1>3, ServeFacts
  <2>2. now' = now
    BY <1>3 DEF Serve
  <2>3. Cardinality(limiter'.tracked) <= AtLeastOne(MaxTracked)
    BY <1>0, <2>1, TableStep DEF Shape, LimiterInv
  <2>4. \A m \in Nodes :
          Ledger(passes'[m], limiter'.count[m], limiter'.start[m], m \in limiter'.tracked, now)
    BY <1>0, <2>1, EntriesStep DEF LimiterInv
  <2> QED  BY <2>2, <2>3, <2>4 DEF LimiterInv
<1>4. ASSUME limiter' = limiter, passes' = passes, now' = now
      PROVE  LimiterInv'
  BY <1>0, <1>4 DEF LimiterInv
<1> QED
  BY <1>1, <1>2, <1>3, <1>4
  DEF Next, Revoke, HostStop, RequestAdmission, RequestResume, Send, Timeout, Publish, Restart,
      Allocate, vars, hostVars

-----------------------------------------------------------------------------
(* Each step preserves the origin of tokens and credentials *)

\* admittedAt only moves to now, so a token stays Genuine.
Later == \A n \in Nodes :
  admittedAt'[n] = admittedAt[n] \/ (admittedAt'[n] = now /\ admittedAt[n] <= now)

LEMMA AdmittedStep ==
  ASSUME IInv, [Next]_vars
  PROVE  /\ Later /\ AdmittedBefore'
         /\ \/ admittedAt' = admittedAt
            \/ \E r \in requests : admittedAt' = [admittedAt EXCEPT ![r.from] = now]
<1>1. /\ now \in Nat /\ DOMAIN admittedAt = Nodes
      /\ \A n \in Nodes : admittedAt[n] \in {Never} \cup Nat /\ admittedAt[n] <= now
  BY DEF IInv, Shape, AdmittedBefore
<1>2. ASSUME NEW r \in requests, Serve(r)
      PROVE  /\ now' = now
             /\ admittedAt' = admittedAt \/ admittedAt' = [admittedAt EXCEPT ![r.from] = now]
  BY <1>2, ServeFacts DEF Serve
<1>3. /\ now' = now \/ now' = now + 1
      /\ \/ admittedAt' = admittedAt
         \/ \E r \in requests : admittedAt' = [admittedAt EXCEPT ![r.from] = now]
  BY <1>2
  DEF Next, Tick, Revoke, HostStart, HostStop, RequestAdmission, RequestResume, Send, Timeout,
      Publish, Restart, Allocate, vars, hostVars, joinerVars
<1>4. now' \in Nat /\ now <= now'
  BY <1>1, <1>3
<1>5. \A n \in Nodes : admittedAt'[n] = admittedAt[n] \/ admittedAt'[n] = now
  BY <1>1, <1>3
<1>6. \A n \in Nodes : admittedAt'[n] <= now'
  BY <1>1, <1>4, <1>5 DEF Never
<1> QED  BY <1>1, <1>3, <1>5, <1>6 DEF Later, AdmittedBefore

LEMMA GenuineStays ==
  ASSUME Shape, Later, NEW token \in Tokens, Genuine(token)
  PROVE  Genuine(token)'
<1>1. /\ token.node_id \in Nodes /\ token.expires_at \in Nat
      /\ now \in Nat /\ ResumeTtl \in Nat
      /\ admittedAt[token.node_id] \in {Never} \cup Nat
  BY TtlAssumption DEF Shape, Tokens
<1> QED  BY <1>1 DEF Genuine, Later, Never, ReDerives

LEMMA TokenStep ==
  ASSUME IInv, SecretKept, [Next]_vars
  PROVE  TokenInv'
<1>0. /\ Shape /\ TypeOK /\ TokenInv /\ Later /\ now \in Nat
      /\ tokens \in [Nodes -> SUBSET Tokens]
      /\ \A r \in requests : r.req = Garbled \/ r.req.resume \in Tokens \cup {NoToken}
  BY AdmittedStep DEF IInv, Shape, TypeOK, Requests
\* No step adds but tokens that are Genuine.
<1>1. ASSUME \A n \in Nodes : \A token \in tokens'[n] : token \in tokens[n] \/ Genuine(token)',
             \A r \in requests' : \/ r \in requests \/ r.req = Garbled \/ r.req.resume = NoToken
                                  \/ r.req.resume \in OtherTokens
                                  \/ \E n \in Nodes : r.req.resume \in tokens[n]
      PROVE  TokenInv'
  <2>1. ASSUME NEW n \in Nodes, NEW token \in tokens[n]  PROVE Genuine(token)'
    <3>1. token \in Tokens /\ Genuine(token)
      BY <1>0 DEF TokenInv
    <3> QED  BY <1>0, <3>1, GenuineStays
  <2>2. ASSUME NEW r \in requests, r.req # Garbled, r.req.resume # NoToken
        PROVE  Genuine(r.req.resume)'
    <3>1. r.req.resume \in Tokens /\ Genuine(r.req.resume)
      BY <1>0, <2>2 DEF TokenInv
    <3> QED  BY <1>0, <3>1, GenuineStays
  <2>3. \A token \in OtherTokens : Genuine(token)'
    BY DEF SecretKept, Genuine, ReDerives
  <2>4. \A n \in Nodes : \A token \in tokens'[n] : Genuine(token)'
    BY <1>1, <2>1
  <2>5. \A r \in requests' : r.req = Garbled \/ r.req.resume = NoToken \/ Genuine(r.req.resume)'
    BY <1>1, <2>1, <2>2, <2>3
  <2> QED  BY <2>4, <2>5 DEF TokenInv
<1>2. ASSUME tokens' = tokens, requests' = requests  PROVE TokenInv'
  BY <1>1, <1>2
<1>3. ASSUME NEW r \in requests, Serve(r)  PROVE TokenInv'
  <2> DEFINE n == r.from
             token == Granted(Secret, Room, host.gate, n, r.req, now)
  <2>1. n \in Nodes /\ requests' \subseteq requests
    BY <1>0, <1>3 DEF Serve, TypeOK
  <2>2. \/ tokens' = tokens
        \/ /\ admittedAt' = [admittedAt EXCEPT ![n] = now]
           /\ token.node_id = n /\ token.expires_at = now + ResumeTtl /\ token.seq_floor = 0
           /\ tokens' = [tokens EXCEPT ![n] = @ \cup {token}]
    BY <1>3, ServeFacts DEF joinerVars
  <2> HIDE DEF token
  <2>3. ASSUME NEW m \in Nodes, NEW tk \in tokens'[m], tk \notin tokens[m]
        PROVE  Genuine(tk)'
    <3>1. /\ admittedAt' = [admittedAt EXCEPT ![n] = now] /\ tk = token
          /\ token.node_id = n /\ token.expires_at = now + ResumeTtl /\ token.seq_floor = 0
      BY <1>0, <2>1, <2>2, <2>3
    <3>2. admittedAt'[n] = now
      BY <1>0, <2>1, <3>1 DEF Shape
    <3>3. now # Never /\ now + ResumeTtl <= now + ResumeTtl
      BY <1>0, TtlAssumption DEF Never
    <3> QED  BY <3>1, <3>2, <3>3 DEF Genuine
  <2> QED  BY <1>1, <2>1, <2>3
<1>4. ASSUME NEW n \in Nodes, NEW req, Send(n, req),
             \/ req = Garbled \/ req.resume = NoToken \/ req.resume \in OtherTokens
             \/ \E m \in Nodes : req.resume \in tokens[m]
      PROVE  TokenInv'
  <2>1. /\ tokens' = tokens
        /\ requests' = requests \cup {[from |-> n, id |-> asked'[n], req |-> req]}
    BY <1>4 DEF Send
  <2>2. \A r \in requests' : r \in requests \/ r.req = req
    BY <2>1
  <2> QED  BY <1>1, <1>4, <2>1, <2>2
<1>5. ASSUME NEW n \in Nodes, RequestAdmission(n)  PROVE TokenInv'
  BY <1>4, <1>5, AdmissionAssumption DEF RequestAdmission
<1>6. ASSUME NEW n \in Nodes, RequestResume(n)  PROVE TokenInv'
  <2>1. PICK token \in (UNION {tokens[m] : m \in Nodes}) \cup OtherTokens :
          Send(n, [room_id |-> Room, caps |-> NoChain, resume |-> token])
    BY <1>6 DEF RequestResume
  <2>2. token \in OtherTokens \/ \E m \in Nodes : token \in tokens[m]
    BY <2>1
  <2> QED  BY <1>4, <2>1, <2>2
<1>7. ASSUME NEW n \in Nodes, Timeout(n) \/ Publish(n) \/ Restart(n) \/ Allocate(n)
      PROVE  TokenInv'
  BY <1>2, <1>7 DEF Timeout, Publish, Restart, Allocate, joinerVars
<1>8. ASSUME Tick \/ Revoke \/ HostStart \/ HostStop \/ UNCHANGED vars  PROVE TokenInv'
  BY <1>2, <1>8 DEF Tick, Revoke, HostStart, HostStop, vars, joinerVars
<1> QED
  BY <1>3, <1>5, <1>6, <1>7, <1>8 DEF Next

LEMMA MintStep ==
  ASSUME IInv, [Next]_vars
  PROVE  MintInv'
<1>0. /\ Shape /\ MintInv /\ now \in Nat /\ TurnTtl \in Nat /\ DOMAIN session = Nodes
      /\ \A n \in Nodes : admittedAt[n] \in {Never} \cup Nat /\ DOMAIN admittedAt = Nodes
  BY AdmissionAssumption DEF IInv, Shape
<1>1. ASSUME minted' = minted, host' = host \/ host'.ice = <<>>,
             now' = now \/ now' = now + 1,
             \A n \in Nodes : admittedAt[n] # Never => admittedAt'[n] # Never,
             \A n \in Nodes : \/ session'[n] = session[n] \/ session'[n] = <<>>
                              \/ session'[n] = <<host.ice>> /\ admittedAt'[n] # Never
      PROVE  MintInv'
  <2>1. \A t \in minted : t \in Nat /\ t <= now'
    BY <1>0, <1>1 DEF MintInv
  <2>2. FromMint(host'.ice)
    <3>1. CASE host' = host     BY <1>0, <3>1 DEF MintInv
    <3>2. CASE host'.ice = <<>>  BY <3>2 DEF FromMint, ToSet
    <3> QED  BY <1>1, <3>1, <3>2
  <2>3. ASSUME NEW n \in Nodes, session'[n] # <<>>
        PROVE  admittedAt'[n] # Never /\ FromMint(session'[n][1])
    <3>1. CASE session'[n] = session[n]
      BY <1>0, <1>1, <2>3, <3>1 DEF MintInv
    <3>2. CASE session'[n] = <<host.ice>> /\ admittedAt'[n] # Never
      BY <1>0, <3>2 DEF MintInv
    <3> QED  BY <1>1, <2>3, <3>1, <3>2
  <2> QED  BY <1>1, <2>1, <2>2, <2>3 DEF MintInv, FromMint
<1>2. CASE HostStart
  <2>1. /\ minted' = minted \/ minted' = minted \cup {now}
        /\ now' = now /\ session' = session /\ admittedAt' = admittedAt
        /\ \/ host'.ice = <<>>
           \/ \E relay : /\ host'.ice =
                              <<IceServer(Derive(Channel, RelaySecret, now, TurnTtl), relay)>>
                         /\ now \in minted'
    BY <1>2 DEF HostStart, joinerVars
  <2>2. \A ice : FromMint(ice) => FromMint(ice)'
    BY <2>1 DEF FromMint
  <2>3. FromMint(host.ice)'
    <3>1. CASE host'.ice = <<>>
      BY <3>1 DEF FromMint, ToSet
    <3>2. ASSUME NEW relay, now \in minted',
                 host'.ice = <<IceServer(Derive(Channel, RelaySecret, now, TurnTtl), relay)>>
          PROVE  FromMint(host.ice)'
      <4> DEFINE server == IceServer(Derive(Channel, RelaySecret, now, TurnTtl), relay)
      <4>1. server.username[1] = now + TurnTtl
        BY DEF IceServer, Derive
      <4> HIDE DEF server
      <4>2. ToSet(<<server>>) = {server}
        BY DEF ToSet
      <4>3. host'.ice = <<server>>
        BY <3>2 DEF server
      <4> QED  BY <3>2, <4>1, <4>2, <4>3 DEF FromMint
    <3> QED  BY <2>1, <3>1, <3>2
  <2>4. \A t \in minted' : t \in Nat /\ t <= now'
    BY <1>0, <2>1 DEF MintInv
  <2> QED  BY <1>0, <2>1, <2>2, <2>3, <2>4 DEF MintInv
<1>3. ASSUME NEW r \in requests, Serve(r)  PROVE MintInv'
  <2>1. /\ minted' = minted /\ host' = host /\ now' = now
        /\ r.from \in Nodes
        /\ \/ session' = session /\ admittedAt' = admittedAt
           \/ /\ admittedAt' = [admittedAt EXCEPT ![r.from] = now]
              /\ session' = session \/ session' = [session EXCEPT ![r.from] = <<host.ice>>]
    BY <1>3, ServeFacts DEF Serve, joinerVars
  <2>2. now # Never
    BY <1>0 DEF Never
  <2>3. \A n \in Nodes : admittedAt[n] # Never => admittedAt'[n] # Never
    BY <1>0, <2>1, <2>2
  <2>4. \A n \in Nodes : \/ session'[n] = session[n]
                         \/ session'[n] = <<host.ice>> /\ admittedAt'[n] # Never
    BY <1>0, <2>1, <2>2
  <2> QED  BY <1>1, <2>1, <2>3, <2>4
<1>4. ASSUME NEW n \in Nodes, Restart(n)  PROVE MintInv'
  <2>1. /\ minted' = minted /\ host' = host /\ now' = now /\ admittedAt' = admittedAt
        /\ session' = [session EXCEPT ![n] = <<>>]
    BY <1>4 DEF Restart, hostVars
  <2> QED  BY <1>0, <1>1, <2>1
<1>5. ASSUME minted' = minted, host' = host \/ host'.ice = <<>>, now' = now \/ now' = now + 1,
             admittedAt' = admittedAt, session' = session
      PROVE  MintInv'
  BY <1>1, <1>5
<1> QED
  BY <1>2, <1>3, <1>4, <1>5
  DEF Next, Tick, Revoke, HostStop, Down, RequestAdmission, RequestResume, Send, Timeout,
      Publish, Allocate, vars, hostVars, joinerVars

-----------------------------------------------------------------------------

\* SecretKept is about constants: a step does not change it.
LEMMA InvStep ==
  ASSUME IInv, [Next]_vars
  PROVE  IInv'
<1>1. Shape' /\ TypeOK' /\ LimiterInv' /\ MintInv' /\ AdmittedBefore'
  BY TypeStep, LimiterStep, MintStep, AdmittedStep
<1>2. SecretKept' => SecretKept
  BY DEF SecretKept, ReDerives
<1>3. SecretKept => TokenInv'
  BY TokenStep
<1> QED  BY <1>1, <1>2, <1>3 DEF IInv

LEMMA Invariance == Spec => []IInv
<1>1. Init => IInv
  BY InitShape, InitParts DEF IInv
<1>2. IInv /\ [Next]_vars => IInv'
  BY InvStep
<1> QED  BY <1>1, <1>2, PTL DEF Spec

(* The variables of an admission keep their types, whatever tokens are     *)
(* presented: a host knows no revocation the chain does not, no wait is    *)
(* for a request that was not sent, and what joiners keep are tokens.      *)
THEOREM AdmissionTypeCorrect == Spec => []TypeOK
<1>1. IInv => TypeOK  BY DEF IInv
<1> QED  BY <1>1, Invariance, PTL

(* The limiter's table never holds more senders than max_tracked.          *)
THEOREM TableStaysBounded == Spec => []TableBounded
<1>1. IInv => TableBounded  BY DEF IInv, LimiterInv, TableBounded
<1> QED  BY <1>1, Invariance, PTL

(* Of any sender fewer than twice the capacity of attempts are let through *)
(* in any stretch shorter than a window, evictions included.               *)
THEOREM PassesAreBounded == Spec => []LetThroughBounded
<1>1. IInv => LetThroughBounded
  <2> SUFFICES ASSUME IInv, NEW n \in Nodes,
                      NEW i \in DOMAIN passes[n], NEW j \in DOMAIN passes[n],
                      j - i >= 2 * Cap - 1
               PROVE  passes[n][j] >= passes[n][i] + Window
    BY DEF LetThroughBounded
  <2>1. passes[n] \in Seq(Nat)
    BY DEF IInv, Shape
  <2>2. i \in 1 .. Len(passes[n]) /\ j \in 1 .. Len(passes[n])
    BY <2>1
  <2>3. Ledger(passes[n], limiter.count[n], limiter.start[n], n \in limiter.tracked, now)
    BY DEF IInv, LimiterInv
  <2> QED  BY <2>2, <2>3 DEF Ledger
<1> QED  BY <1>1, Invariance, PTL

\* Whoever a step admits, anew or again, it admits with authority.
LEMMA AuthorityStep ==
  ASSUME IInv, SecretKept, [Next]_vars, NEW n \in Nodes, admittedAt'[n] # admittedAt[n]
  PROVE  \/ Open
         \/ \E c \in Chains : Authorizes(c, n, now, host.gate.revoked)
         \/ admittedAt[n] # Never /\ now <= admittedAt[n] + ResumeTtl
<1>1. PICK r \in requests : Serve(r)
  BY DEF Next, Tick, Revoke, HostStart, HostStop, RequestAdmission, RequestResume, Send,
         Timeout, Publish, Restart, Allocate, vars, hostVars, joinerVars
<1>2. /\ r.from \in Nodes /\ r.req \in Requests
      /\ Admits(Secret, Room, host.gate, r.from, r.req, now)
      /\ admittedAt' = [admittedAt EXCEPT ![r.from] = now]
  BY <1>1, ServeFacts
<1>3. r.from = n
  BY <1>2
<1>4. /\ TokenInv /\ host.gate.open = Open /\ now \in Nat
      /\ admittedAt[n] \in {Never} \cup Nat
  BY DEF IInv, TypeOK, Shape
<1>5. r.req # Garbled
  BY <1>1 DEF Serve
<1>6. r.req.resume = NoToken \/ Genuine(r.req.resume)
  BY <1>1, <1>4, <1>5 DEF TokenInv
<1> QED  BY <1>2, <1>3, <1>4, <1>6, AdmitsWithAuthority

(* If the MAC secret is known to the host alone (the hypothesis SecretKept *)
(* of the property): whoever is admitted holds an accepted chain at that   *)
(* second, or was admitted to this room by this host no longer than a      *)
(* token's lifetime ago (Admitter::admit, verify_resume).                  *)
THEOREM AdmissionNeedsAuthority == Spec => AdmittedWithAuthority
<1> DEFINE Authority == SecretKept => \A n \in Nodes : admittedAt'[n] # admittedAt[n] =>
       \/ Open
       \/ \E c \in Chains : Authorizes(c, n, now, host.gate.revoked)
       \/ admittedAt[n] # Never /\ now <= admittedAt[n] + ResumeTtl
<1>1. IInv /\ [Next]_vars => [Authority]_vars
  BY AuthorityStep
<1>2. Spec => [][Authority]_vars
  BY <1>1, Invariance, PTL DEF Spec
<1> QED  BY <1>2 DEF AdmittedWithAuthority

\* The nodes that hold a chain the gate of a closed room accepts, while it lasts.
Entitled == {Holder[c] : c \in Accepted}

AuthorityInv ==
  /\ IInv
  /\ \A n \in Nodes : admittedAt[n] # Never => Open \/ n \in Entitled
  /\ relaying \subseteq {n \in Nodes : admittedAt[n] # Never}

(* A host whose MAC secret is known to it alone: however often tokens are  *)
(* renewed by tokens, copied between devices, altered or brought from      *)
(* other rooms, and however often the host restarts, whoever a closed room *)
(* ever admitted, has a session there or an allocation at the relay, holds *)
(* a chain of its own that grants meet:join (Gate::check,                  *)
(* Admitter::admit).                                                       *)
THEOREM OnlyHoldersEnter ==
  ASSUME SecretKept
  PROVE  Spec => [](\A n \in Nodes :
                      n \in relaying \/ session[n] # <<>> \/ admittedAt[n] # Never =>
                        Open \/ n \in Entitled)
<1> DEFINE Started == \A n \in Nodes :
               n \in relaying \/ session[n] # <<>> \/ admittedAt[n] # Never =>
                 Open \/ n \in Entitled
<1>1. Init => AuthorityInv
  BY InitShape, InitParts DEF Init, IInv, AuthorityInv
<1>2. ASSUME AuthorityInv, [Next]_vars  PROVE AuthorityInv'
  <2>1. /\ IInv /\ IInv' /\ Shape /\ now \in Nat
        /\ \A n \in Nodes : admittedAt[n] # Never => Open \/ n \in Entitled
    BY <1>2, InvStep DEF AuthorityInv, IInv, Shape
  <2>2. ASSUME NEW n \in Nodes, admittedAt'[n] # Never  PROVE Open \/ n \in Entitled
    <3>1. CASE admittedAt'[n] = admittedAt[n]
      BY <2>1, <2>2, <3>1
    <3>2. CASE admittedAt'[n] # admittedAt[n]
      <4>1. \/ Open
            \/ \E c \in Chains : Authorizes(c, n, now, host.gate.revoked)
            \/ admittedAt[n] # Never
        BY <1>2, <2>1, <3>2, AuthorityStep
      <4> QED  BY <2>1, <4>1 DEF Authorizes, Entitled
    <3> QED  BY <3>1, <3>2
  <2>3. \A n \in Nodes : admittedAt[n] # Never => admittedAt'[n] # Never
    <3>1. /\ now # Never /\ DOMAIN admittedAt = Nodes
          /\ \A n \in Nodes : admittedAt'[n] = admittedAt[n] \/ admittedAt'[n] = now
      BY <1>2, <2>1, AdmittedStep DEF Shape, Never, Later
    <3> QED  BY <3>1
  <2>4. relaying' \subseteq {n \in Nodes : admittedAt'[n] # Never}
    <3>1. ASSUME NEW n \in Nodes, Allocate(n)
          PROVE  relaying' = relaying \cup {n} /\ admittedAt[n] # Never
      BY <2>1, <3>1 DEF Allocate, IInv, MintInv
    <3>2. \A n \in relaying' : n \in relaying \/ (n \in Nodes /\ admittedAt[n] # Never)
      BY <1>2, <3>1
      DEF Next, Tick, Revoke, HostStart, HostStop, Serve, RequestAdmission, RequestResume,
          Send, Timeout, Publish, Restart, vars, hostVars, joinerVars
    <3> QED  BY <1>2, <2>3, <3>2 DEF AuthorityInv
  <2> QED  BY <2>1, <2>2, <2>4 DEF AuthorityInv
<1>3. ASSUME AuthorityInv  PROVE Started
  BY <1>3 DEF AuthorityInv, IInv, MintInv
<1>4. AuthorityInv /\ UNCHANGED vars => AuthorityInv'
  BY <1>2
<1> HIDE DEF Started
<1>5. Spec => []Started
  BY <1>1, <1>2, <1>3, PTL DEF Spec
<1> QED  BY <1>5 DEF Started

\* In a closed room: its chains have expired, and its last admission is longer
\* ago than a resume token lasts, or there was none.
Lapsed(n) ==
  /\ ~Open
  /\ \A c \in Accepted : Holder[c] = n => now > NotAfter[c]
  /\ admittedAt[n] # Never => now > admittedAt[n] + ResumeTtl

(* With a host whose MAC secret is known to it alone, whoever has lapsed   *)
(* stays out for good: no token it kept, was lent, altered or brought from *)
(* another room, and no restart of the host, admits it again.  Tokens that *)
(* renew tokens outlive a chain, but only without a pause                  *)
(* (Admitter::admit, verify_resume).                                       *)
THEOREM LapsedStayOut ==
  ASSUME SecretKept
  PROVE  Spec => [][\A n \in Nodes :
                      Lapsed(n) => Lapsed(n)' /\ admittedAt'[n] = admittedAt[n]]_vars
<1> DEFINE StaysOut == \A n \in Nodes :
             Lapsed(n) => Lapsed(n)' /\ admittedAt'[n] = admittedAt[n]
<1>1. ASSUME IInv, [Next]_vars  PROVE StaysOut
  <2> SUFFICES ASSUME NEW n \in Nodes, Lapsed(n)
               PROVE  Lapsed(n)' /\ admittedAt'[n] = admittedAt[n]
    OBVIOUS
  <2>1. /\ now \in Nat /\ ResumeTtl \in Nat
        /\ admittedAt[n] # Never => admittedAt[n] \in Nat
        /\ \A c \in Accepted : NotAfter[c] \in Nat
    BY <1>1, ChainAssumption, TtlAssumption DEF IInv, Shape, Never
  <2>2. now' = now \/ now' = now + 1
    BY <1>1
    DEF Next, Tick, Revoke, HostStart, HostStop, Serve, RequestAdmission, RequestResume, Send,
        Timeout, Publish, Restart, Allocate, vars, hostVars, joinerVars
  <2>3. admittedAt'[n] = admittedAt[n]
    <3> SUFFICES ASSUME admittedAt'[n] # admittedAt[n] PROVE FALSE
      OBVIOUS
    <3>1. \/ \E c \in Chains : Authorizes(c, n, now, host.gate.revoked)
          \/ admittedAt[n] # Never /\ now <= admittedAt[n] + ResumeTtl
      BY <1>1, AuthorityStep DEF Lapsed
    <3>2. \A c \in Chains : ~Authorizes(c, n, now, host.gate.revoked)
      BY <2>1 DEF Lapsed, Authorizes
    <3> QED  BY <2>1, <3>1, <3>2 DEF Lapsed
  <2>4. \A c \in Accepted : Holder[c] = n => now' > NotAfter[c]
    BY <2>1, <2>2 DEF Lapsed
  <2>5. admittedAt'[n] # Never => now' > admittedAt'[n] + ResumeTtl
    BY <2>1, <2>2, <2>3 DEF Lapsed
  <2> QED  BY <2>3, <2>4, <2>5 DEF Lapsed
<1> HIDE DEF StaysOut
<1>2. Spec => [][StaysOut]_vars
  BY <1>1, Invariance, PTL DEF Spec
<1> QED  BY <1>2 DEF StaysOut

(* With tokens that only the host can make, every one carries the floor 0, *)
(* so no answer to a resume ever moves the counter of a joiner: what       *)
(* adopt_resume is for never happens, and after a restart the numbers      *)
(* start over at 0 (Admitter::admit, grant; MeetClient::adopt_resume).     *)
THEOREM AnswersNeverMoveCounters ==
  ASSUME SecretKept
  PROVE  Spec => [][\A n \in Nodes : next_seq'[n] # next_seq[n] =>
                      \/ Publish(n) /\ next_seq'[n] = next_seq[n] + 1
                      \/ Restart(n) /\ next_seq'[n] = 0]_vars
<1> DEFINE Counts == \A n \in Nodes : next_seq'[n] # next_seq[n] =>
               \/ Publish(n) /\ next_seq'[n] = next_seq[n] + 1
               \/ Restart(n) /\ next_seq'[n] = 0
<1>1. ASSUME IInv, [Next]_vars  PROVE Counts
  <2>1. next_seq \in [Nodes -> Nat]
    BY <1>1 DEF IInv, Shape
  <2>2. ASSUME NEW r \in requests, Serve(r)  PROVE next_seq' = next_seq
    BY <1>1, <2>2, ServeFacts DEF joinerVars
  <2>3. ASSUME NEW n \in Nodes, Publish(n)  PROVE Counts
    BY <2>1, <2>3 DEF Publish
  <2>4. ASSUME NEW n \in Nodes, Restart(n)  PROVE Counts
    BY <2>1, <2>4 DEF Restart
  <2>5. ASSUME next_seq' = next_seq  PROVE Counts
    BY <2>5
  <2> QED
    BY <1>1, <2>2, <2>3, <2>4, <2>5
    DEF Next, Tick, Revoke, HostStart, HostStop, RequestAdmission, RequestResume, Send,
        Timeout, Allocate, vars, hostVars, joinerVars
<1>2. IInv /\ [Next]_vars => [Counts]_vars
  BY <1>1
<1> QED  BY <1>2, Invariance, PTL DEF Spec

(* The relay serves only who was admitted, and only within the lifetime of *)
(* a credential the host derived (TurnCredential::verify).                 *)
THEOREM RelayingExpires == Spec => RelayedInTime
<1> DEFINE InTime == \A n \in relaying' \ relaying :
             /\ admittedAt[n] # Never
             /\ \E t \in minted : t <= now /\ now <= t + TurnTtl
<1>1. ASSUME IInv, [Next]_vars  PROVE InTime
  <2>1. ASSUME NEW n, n \in relaying', n \notin relaying
        PROVE  /\ admittedAt[n] # Never
               /\ \E t \in minted : t <= now /\ now <= t + TurnTtl
    <3>1. n \in Nodes /\ Allocate(n)
      BY <1>1, <2>1
      DEF Next, Tick, Revoke, HostStart, HostStop, Serve, RequestAdmission, RequestResume, Send,
          Timeout, Publish, Restart, Allocate, vars, hostVars, joinerVars
    <3>2. session[n] # <<>>
      BY <3>1 DEF Allocate
    <3>3. PICK server \in ToSet(session[n][1]) : now <= server.username[1]
      BY <3>1 DEF Allocate, VerifiesTurn
    <3>4. admittedAt[n] # Never /\ FromMint(session[n][1])
      BY <1>1, <3>1, <3>2 DEF IInv, MintInv
    <3>5. PICK t \in minted : server.username[1] = t + TurnTtl
      BY <3>3, <3>4 DEF FromMint
    <3>6. t <= now
      BY <1>1 DEF IInv, MintInv
    <3> QED  BY <3>3, <3>4, <3>5, <3>6
  <2> QED  BY <2>1
<1>2. IInv /\ [Next]_vars => [InTime]_vars
  BY <1>1
<1>3. Spec => [][InTime]_vars
  BY <1>2, Invariance, PTL DEF Spec
<1> QED  BY <1>3 DEF RelayedInTime

-----------------------------------------------------------------------------
(* Refusals *)

\* A window under way that is used up: its passes are all recent.
LEMMA UsedUp ==
  ASSUME IInv, NEW n \in Nodes, limiter.count[n] = Cap, n \in limiter.tracked,
         ~Expired(limiter, n, now)
  PROVE  Cardinality(Recent(n)) >= Cap
<1> DEFINE p == passes[n]
           L == Len(p)
           first == L - Cap + 1
<1>1. /\ p \in Seq(Nat) /\ L \in Nat /\ DOMAIN p = 1 .. L /\ \A i \in 1 .. L : p[i] \in Nat
      /\ now \in Nat /\ limiter.start[n] \in Nat
      /\ Cap \in Nat /\ Cap >= 1 /\ Window \in Nat
  BY LimiterConstants DEF IInv, Shape, Limiters
<1>2. Ledger(p, Cap, limiter.start[n], TRUE, now)
  <2>1. Ledger(p, limiter.count[n], limiter.start[n], n \in limiter.tracked, now)
    BY DEF IInv, LimiterInv
  <2>2. (n \in limiter.tracked) = TRUE
    OBVIOUS
  <2> QED  BY <2>1, <2>2
<1>3. /\ first \in 1 .. L /\ p[first] = limiter.start[n]
  BY <1>1, <1>2 DEF Ledger
<1>4. limiter.start[n] + Window > now
  BY <1>1 DEF Expired
<1> HIDE DEF p
<1>c. \A i, j \in 1 .. L : i <= j => p[i] <= p[j]
  BY <1>2 DEF Ledger
<1>5. \A i \in first .. L : i \in 1 .. L /\ p[i] >= p[first]
  <2> HIDE DEF L, first
  <2>1. ASSUME NEW i \in first .. L PROVE i \in 1 .. L /\ first <= i
    BY <1>1, <1>3, <2>1
  <2>2. ASSUME NEW i \in first .. L PROVE p[first] <= p[i] /\ p[first] \in Nat /\ p[i] \in Nat
    BY <1>1, <1>3, <1>c, <2>1, <2>2
  <2> QED  BY <2>1, <2>2
<1>a. Recent(n) = {i \in 1 .. L : p[i] + Window > now}
  BY <1>1 DEF Recent, p
<1> HIDE DEF L, first
<1>b. ASSUME NEW i \in first .. L  PROVE i \in 1 .. L /\ p[i] + Window > now
  <2>1. i \in 1 .. L /\ p[i] >= p[first] /\ p[i] \in Nat
    BY <1>1, <1>5
  <2> QED  BY <2>1, <1>1, <1>3, <1>4
<1>6. first .. L \subseteq Recent(n)
  BY <1>a, <1>b
<1>7. IsFiniteSet(Recent(n))
  <2>1. Recent(n) \subseteq 1 .. L
    BY <1>a
  <2>2. IsFiniteSet(1 .. L)
    BY <1>1, FS_Interval
  <2> QED  BY <2>1, <2>2, FS_Subset
<1>8. Cardinality(first .. L) = Cap
  <2>1. first \in Int /\ L \in Int /\ first <= L
    BY <1>1, <1>3
  <2>2. Cardinality(first .. L) = L - first + 1
    BY <2>1, FS_Interval
  <2>3. first = L - Cap + 1
    BY DEF first
  <2> QED  BY <1>1, <2>2, <2>3
<1>9. Cardinality(first .. L) <= Cardinality(Recent(n))
  BY <1>6, <1>7, FS_Subset
<1>10. Cardinality(Recent(n)) \in Nat
  BY <1>7, FS_CardinalityType
<1> QED  BY <1>1, <1>8, <1>9, <1>10

\* A tracked sender whose window is under way has a recent pass.
LEMMA TrackedIsRecent ==
  ASSUME IInv, NEW m \in limiter.tracked, ~Expired(limiter, m, now)
  PROVE  m \in Nodes /\ Recent(m) # {}
<1>1. /\ m \in Nodes /\ passes[m] \in Seq(Nat) /\ now \in Nat
      /\ limiter.start[m] \in Nat /\ limiter.count[m] \in 0 .. Cap /\ Window \in Nat
      /\ Cap \in Nat
  BY LimiterConstants DEF IInv, Shape, Limiters
<1> DEFINE p == passes[m]
           k == limiter.count[m]
<1>2. Ledger(p, k, limiter.start[m], m \in limiter.tracked, now)
  BY <1>1 DEF IInv, LimiterInv
<1>3. k >= 1 /\ k <= Len(p) /\ p[Len(p) - k + 1] = limiter.start[m]
  BY <1>1, <1>2 DEF Ledger
<1>4. Len(p) - k + 1 \in DOMAIN p
  BY <1>1, <1>3
<1>5. p[Len(p) - k + 1] + Window > now
  <2>1. limiter.start[m] + Window > now
    BY <1>1 DEF Expired
  <2> QED  BY <1>3, <2>1
<1> QED  BY <1>1, <1>4, <1>5 DEF Recent

(* The limiter drops an attempt only if its sender used up its capacity    *)
(* within a window, or as many others as are tracked came within it        *)
(* (AdmitRateLimiter::check: expired buckets are evicted first).           *)
THEOREM RefusalsAreJustified ==
  ASSUME IsFiniteSet(Nodes)
  PROVE  Spec => RefusalsJustified
<1> DEFINE Reason(n) ==
             \/ Cardinality(Recent(n)) >= Cap
             \/ Cardinality({m \in Nodes \ {n} : Recent(m) # {}}) >= AtLeastOne(MaxTracked)
           Justified == \A r \in requests \ requests' :
             passes'[r.from] = passes[r.from] =>
               \/ Cardinality(Recent(r.from)) >= Cap
               \/ Cardinality({m \in Nodes \ {r.from} : Recent(m) # {}})
                    >= AtLeastOne(MaxTracked)
<1>1. ASSUME IInv, [Next]_vars, NEW r \in requests, r \notin requests',
             passes'[r.from] = passes[r.from]
      PROVE  Reason(r.from)
  <2> DEFINE n == r.from
  <2>1. Serve(r)
    <3>1. PICK q \in requests : Serve(q)
      BY <1>1
      DEF Next, Tick, Revoke, HostStart, HostStop, RequestAdmission, RequestResume, Send,
          Timeout, Publish, Restart, Allocate, vars, hostVars, joinerVars
    <3>2. q = r
      BY <1>1, <3>1 DEF Serve
    <3> QED  BY <3>1, <3>2
  <2>2. /\ n \in Nodes
        /\ NoRoomFor(limiter, n, now, limiter') \/ OpensWindow(limiter, n, now, limiter')
             \/ WithinWindow(limiter, n, now, limiter')
        /\ passes' = IF LetsThrough(limiter, n, now)
                     THEN [passes EXCEPT ![n] = Append(@, now)] ELSE passes
    BY <1>1, <2>1, ServeFacts
  <2>3. /\ limiter \in Limiters /\ now \in Nat /\ passes \in [Nodes -> Seq(Nat)]
        /\ IsFiniteSet(limiter.tracked)
    BY <1>1 DEF IInv, Shape
  <2>4. ~LetsThrough(limiter, n, now)
    <3>1. SUFFICES ASSUME LetsThrough(limiter, n, now) PROVE FALSE
      OBVIOUS
    <3>2. passes'[n] = Append(passes[n], now)
      BY <2>2, <2>3, <3>1
    <3>3. passes[n] \in Seq(Nat)
      BY <2>2, <2>3
    <3> QED  BY <1>1, <2>3, <3>2, <3>3
  <2>5. CASE WithinWindow(limiter, n, now, limiter')
    <3>1. n \in limiter.tracked /\ ~Expired(limiter, n, now) /\ limiter.count[n] = Cap
      BY <2>4, <2>5 DEF WithinWindow
    <3> QED  BY <1>1, <2>2, <3>1, UsedUp
  <2>6. CASE NoRoomFor(limiter, n, now, limiter')
    <3> DEFINE roomy == MakeRoom(limiter, n, now)
               others == {m \in Nodes \ {n} : Recent(m) # {}}
    <3>1. n \notin limiter.tracked /\ Full(roomy)
      BY <2>6 DEF NoRoomFor
    <3>2. roomy.tracked \subseteq limiter.tracked
      BY <2>2, <2>3, RoomyFacts
    <3>3. /\ IsFiniteSet(roomy.tracked) /\ Cardinality(roomy.tracked) \in Nat
          /\ Cardinality(limiter.tracked) \in Nat
          /\ Cardinality(roomy.tracked) <= Cardinality(limiter.tracked)
      BY <2>3, <3>2, FS_Subset, FS_CardinalityType
    <3>4. AtLeastOne(MaxTracked) \in Nat
      BY LimiterConstants
    <3>5. Full(limiter)
      BY <3>1, <3>3, <3>4 DEF Full
    <3>6. \A m \in roomy.tracked : ~Expired(limiter, m, now)
      BY <2>2, <2>3, <3>1, <3>5, RoomyFacts
    <3> HIDE DEF roomy
    <3>7. roomy.tracked \subseteq others
      BY <1>1, <3>1, <3>2, <3>6, TrackedIsRecent
    <3>8. IsFiniteSet(others)
      <4>1. others \subseteq Nodes
        OBVIOUS
      <4> QED  BY <4>1, FS_Subset
    <3>9. Cardinality(roomy.tracked) <= Cardinality(others) /\ Cardinality(others) \in Nat
      BY <3>7, <3>8, FS_Subset, FS_CardinalityType
    <3>10. Cardinality(others) >= AtLeastOne(MaxTracked)
      BY <3>1, <3>3, <3>4, <3>9 DEF Full
    <3> QED  BY <3>10
  <2> QED  BY <2>2, <2>4, <2>5, <2>6 DEF OpensWindow
<1>2. IInv /\ [Next]_vars => [Justified]_vars
  BY <1>1
<1>3. Spec => [][Justified]_vars
  BY <1>2, Invariance, PTL DEF Spec
<1> QED  BY <1>3 DEF RefusalsJustified

-----------------------------------------------------------------------------
(* Relay selection *)

LEMMA FactorBounds ==
  ASSUME NEW f \in Int
  PROVE  Clamped(f) \in 0 .. 100
  BY DEF Clamped

\* A product is at least (at most) the same number times a smaller (larger) factor.
LEMMA ProductBounds ==
  ASSUME NEW a \in Nat, NEW f \in 400 .. 500
  PROVE  400 * a <= a * f /\ a * f <= 500 * a
<1>1. a * (f - 400) >= 0 /\ a * (500 - f) >= 0
  OBVIOUS
<1>2. a * (f - 400) = a * f - 400 * a /\ a * (500 - f) = 500 * a - a * f
  OBVIOUS
<1> QED  BY <1>1, <1>2

(* Whichever candidate does not score worse than another is at most a      *)
(* quarter further away, whatever reputations are reported                 *)
(* (RelayCandidate::score: reputation discounts latency by a fifth at most).*)
THEOREM LatencyDominates ==
  ASSUME NEW a, NEW b, a.rtt_ms \in Nat, b.rtt_ms \in Nat,
         a.reputation \in Int, b.reputation \in Int, Score(a) <= Score(b)
  PROVE  4 * a.rtt_ms <= 5 * b.rtt_ms
<1> DEFINE f == 500 - Clamped(a.reputation)
           g == 500 - Clamped(b.reputation)
<1>1. f \in 400 .. 500 /\ g \in 400 .. 500
  <2>1. Clamped(a.reputation) \in 0 .. 100 /\ Clamped(b.reputation) \in 0 .. 100
    BY FactorBounds
  <2> QED  BY <2>1
<1>2. a.rtt_ms * f <= b.rtt_ms * g
  BY DEF Score
<1> HIDE DEF f, g
<1>3. 400 * a.rtt_ms <= a.rtt_ms * f /\ b.rtt_ms * g <= 500 * b.rtt_ms
  BY <1>1, ProductBounds
<1>4. a.rtt_ms * f \in Int /\ b.rtt_ms * g \in Int
  BY <1>1
<1> QED  BY <1>2, <1>3, <1>4

(* The comparison of select_relay is a strict total order on candidates    *)
(* with distinct node ids: what is found in another order is ranked alike. *)
THEOREM RankingIsTotal ==
  ASSUME NEW S, \A c \in S : Score(c) \in Int /\ c.node_id \in Int,
         \A c, d \in S : c.node_id = d.node_id => c = d
  PROVE  /\ \A c \in S : ~RanksBefore(c, c)
         /\ \A c, d \in S : c = d \/ RanksBefore(c, d) \/ RanksBefore(d, c)
         /\ \A c, d \in S : RanksBefore(c, d) => ~RanksBefore(d, c)
         /\ \A c, d, e \in S : RanksBefore(c, d) /\ RanksBefore(d, e) => RanksBefore(c, e)
  BY DEF RanksBefore

\* Whatever is a set of naturals has a least element.
LEMMA LeastNatural ==
  ASSUME NEW T \in SUBSET Nat, T # {}
  PROVE  \E x \in T : \A y \in T : x <= y
<1> DEFINE R == {ss \in Nat \X Nat : ss[1] < ss[2]}
<1>1. IsWellFoundedOn(R, Nat)
  BY NatLessThanWellFounded DEF OpToRel
<1>2. \A x, y \in Nat : <<y, x>> \in R <=> y < x
  OBVIOUS
<1> HIDE DEF R
<1>3. PICK x \in T : \A y \in T : ~ (<<y, x>> \in R)
  BY <1>1, WFMin
<1>4. \A y \in T : y \in Nat /\ x \in Nat /\ ~(y < x)
  BY <1>2, <1>3
<1> QED BY <1>4

\* The candidates that can be compared.
Comparable(S) == \A c \in S : Score(c) \in Int /\ c.node_id \in Int

\* Nobody in the ranking precedes somebody ahead of it.
Sorted(r) == \A i, j \in DOMAIN r : i < j => ~RanksBefore(r[j], r[i])

\* r ranks the first k candidates that were found.
Ranks(r, found, k, S) ==
  /\ r \in [1 .. k -> S]
  /\ Sorted(r)
  /\ \A i \in 1 .. k : \E j \in 1 .. k : r[j] = found[i]

\* q ranks all of S, which has n members.
RanksAll(q, n, S) ==
  /\ q \in [1 .. n -> S]
  /\ Sorted(q)
  /\ \A c \in S : \E i \in 1 .. n : q[i] = c
  /\ \A i, j \in 1 .. n : q[i] = q[j] => i = j

LEMMA AheadFacts ==
  ASSUME NEW S, Comparable(S), NEW k \in Nat, NEW r \in [1 .. k -> S], NEW c \in S
  PROVE  /\ Ahead(r, c) \in 0 .. k
         /\ \A i \in 1 .. Ahead(r, c) : ~RanksBefore(c, r[i])
         /\ Ahead(r, c) < k => RanksBefore(c, r[Ahead(r, c) + 1])
<1> DEFINE T == {i \in 1 .. k : RanksBefore(c, r[i])} \cup {k + 1}
           Good(p) == /\ \A i \in 1 .. p : ~RanksBefore(c, r[i])
                      /\ p < k => RanksBefore(c, r[p + 1])
<1>1. Len(r) = k
  OBVIOUS
<1>2. PICK x \in T : \A y \in T : x <= y
  <2>1. T \in SUBSET Nat /\ T # {}
    OBVIOUS
  <2> QED  BY <2>1, LeastNatural
<1>3. x - 1 \in 0 .. k /\ Good(x - 1)
  <2>1. x \in 1 .. k + 1
    OBVIOUS
  <2>2. \A i \in 1 .. x - 1 : i \in 1 .. k /\ i \notin T
    BY <1>2, <2>1
  <2>3. \A i \in 1 .. x - 1 : ~RanksBefore(c, r[i])
    BY <2>2
  <2>4. x - 1 < k => RanksBefore(c, r[(x - 1) + 1])
    BY <2>1
  <2> QED  BY <2>1, <2>3, <2>4
<1>4. \E p \in 0 .. k : Good(p)
  BY <1>3
<1>5. Ahead(r, c) = CHOOSE p \in 0 .. k : Good(p)
  BY <1>1 DEF Ahead
<1> HIDE DEF Good
<1>6. Ahead(r, c) \in 0 .. k /\ Good(Ahead(r, c))
  BY <1>4, <1>5
<1> QED  BY <1>6 DEF Good

LEMMA InsertAtFacts ==
  ASSUME NEW S, NEW k \in Nat, NEW r \in [1 .. k -> S], NEW c \in S, NEW p \in 0 .. k
  PROVE  InsertAt(r, p + 1, c) =
           [i \in 1 .. k + 1 |-> IF i <= p THEN r[i] ELSE IF i = p + 1 THEN c ELSE r[i - 1]]
<1>0. r \in Seq(S) /\ Len(r) = k
  OBVIOUS
<1> DEFINE before == SubSeq(r, 1, p)
           after == SubSeq(r, p + 1, k)
<1>1. before \in Seq(S) /\ Len(before) = p /\ \A i \in 1 .. p : before[i] = r[i]
  BY <1>0
<1>2. after \in Seq(S) /\ Len(after) = k - p /\ \A i \in 1 .. k - p : after[i] = r[p + i]
  BY <1>0
<1>3. InsertAt(r, p + 1, c) = before \o <<c>> \o after
  BY <1>0 DEF InsertAt
<1> HIDE DEF before, after
<1> DEFINE head == before \o <<c>>
<1>4. /\ head \in Seq(S) /\ Len(head) = p + 1
      /\ \A i \in 1 .. p : head[i] = r[i]
      /\ head[p + 1] = c
  BY <1>1
<1> HIDE DEF head
<1>5. /\ head \o after \in Seq(S) /\ Len(head \o after) = k + 1
      /\ \A i \in 1 .. k + 1 :
           (head \o after)[i] = IF i <= p + 1 THEN head[i] ELSE after[i - (p + 1)]
  <2>1. Len(head) + Len(after) = k + 1 /\ head \in Seq(S) /\ after \in Seq(S)
    BY <1>2, <1>4
  <2>2. /\ head \o after \in Seq(S)
        /\ Len(head \o after) = Len(head) + Len(after)
        /\ \A i \in 1 .. Len(head) + Len(after) :
             (head \o after)[i] = IF i <= Len(head) THEN head[i] ELSE after[i - Len(head)]
    BY <2>1, ConcatProperties
  <2>3. Len(head) = p + 1
    BY <1>4
  <2> QED  BY <2>1, <2>2, <2>3
<1>6. \A i \in p + 2 .. k + 1 : after[i - (p + 1)] = r[i - 1]
  <2> SUFFICES ASSUME NEW i \in p + 2 .. k + 1 PROVE after[i - (p + 1)] = r[i - 1]
    OBVIOUS
  <2>1. i - (p + 1) \in 1 .. k - p /\ p + (i - (p + 1)) = i - 1
    OBVIOUS
  <2> QED  BY <1>2, <2>1
<1> DEFINE joined == head \o after
<1> HIDE DEF joined
<1>7. \A i \in 1 .. k + 1 :
        joined[i] = IF i <= p THEN r[i] ELSE IF i = p + 1 THEN c ELSE r[i - 1]
  BY <1>4, <1>5, <1>6 DEF joined
<1>8. joined \in [1 .. k + 1 -> S]
  BY <1>5, LenProperties DEF joined
<1>9. InsertAt(r, p + 1, c) = joined
  BY <1>3 DEF joined, head
<1> QED  BY <1>7, <1>8, <1>9

\* Who does not come before, and who comes after: the order is weak.
LEMMA OrderFacts ==
  ASSUME NEW S, Comparable(S)
  PROVE  /\ \A a, b \in S : RanksBefore(a, b) => ~RanksBefore(b, a)
         /\ \A a, b, c \in S : RanksBefore(a, b) /\ ~RanksBefore(c, b) => RanksBefore(a, c)
  BY DEF Comparable, RanksBefore

LEMMA InsertRanks ==
  ASSUME NEW S, Comparable(S), NEW k \in Nat, NEW found, found[k + 1] \in S,
         NEW r, Ranks(r, found, k, S)
  PROVE  Ranks(Insert(r, found[k + 1]), found, k + 1, S)
<1> DEFINE c == found[k + 1]
           p == Ahead(r, c)
           q == Insert(r, c)
<1>0. r \in [1 .. k -> S] /\ c \in S
  BY DEF Ranks
<1>1. /\ p \in 0 .. k
      /\ \A i \in 1 .. p : ~RanksBefore(c, r[i])
      /\ p < k => RanksBefore(c, r[p + 1])
  BY <1>0, AheadFacts
<1>2. q = [i \in 1 .. k + 1 |-> IF i <= p THEN r[i] ELSE IF i = p + 1 THEN c ELSE r[i - 1]]
  BY <1>0, <1>1, InsertAtFacts DEF Insert
<1> HIDE DEF p, q
<1>3. /\ q \in [1 .. k + 1 -> S]
      /\ \A i \in 1 .. p : q[i] = r[i]
      /\ q[p + 1] = c
      /\ \A i \in p + 1 .. k : q[i + 1] = r[i]
  BY <1>0, <1>1, <1>2
<1>4. \A i \in p + 1 .. k : RanksBefore(c, r[i])
  <2> SUFFICES ASSUME NEW i \in p + 1 .. k PROVE RanksBefore(c, r[i])
    OBVIOUS
  <2>1. p + 1 \in 1 .. k /\ i \in 1 .. k /\ p < k
    BY <1>1
  <2>2. RanksBefore(c, r[p + 1])
    BY <1>1, <2>1
  <2>3. i = p + 1 \/ ~RanksBefore(r[i], r[p + 1])
    BY <2>1 , <1>0 DEF Ranks, Sorted
  <2>4. r[i] \in S /\ r[p + 1] \in S
    BY <1>0, <2>1
  <2> HIDE DEF c
  <2> QED  BY <1>0, <2>2, <2>3, <2>4, OrderFacts
<1>5. Sorted(q)
  <2> SUFFICES ASSUME NEW i \in 1 .. k + 1, NEW j \in 1 .. k + 1, i < j
               PROVE  ~RanksBefore(q[j], q[i])
    BY <1>3 DEF Sorted
  <2>0. \A x, y \in 1 .. k : x < y => ~RanksBefore(r[y], r[x])
    BY <1>0 DEF Ranks, Sorted
  <2>1. CASE j <= p
    <3>1. i \in 1 .. k /\ j \in 1 .. k /\ q[i] = r[i] /\ q[j] = r[j]
      BY <1>1, <1>3, <2>1
    <3> QED  BY <2>0, <3>1
  <2>2. CASE j = p + 1
    <3>1. i \in 1 .. p /\ q[i] = r[i] /\ q[j] = c
      BY <1>1, <1>3, <2>2
    <3> QED  BY <1>1, <3>1
  <2>3. CASE j > p + 1
    <3>1. j - 1 \in p + 1 .. k /\ q[j] = r[j - 1] /\ j - 1 \in 1 .. k
      <4>1. j - 1 \in p + 1 .. k
        BY <1>1, <2>3
      <4>2. q[(j - 1) + 1] = r[j - 1]
        BY <1>3, <4>1
      <4> QED  BY <1>1, <4>1, <4>2
    <3>2. CASE i <= p
      <4>1. i \in 1 .. k /\ i < j - 1 /\ q[i] = r[i]
        BY <1>1, <1>3, <2>3, <3>2
      <4> QED  BY <2>0, <3>1, <4>1
    <3>3. CASE i = p + 1
      <4>1. q[i] = c /\ RanksBefore(c, r[j - 1]) /\ r[j - 1] \in S
        BY <1>0, <1>3, <1>4, <3>1, <3>3
      <4> HIDE DEF c
      <4> QED  BY <1>0, <3>1, <4>1, OrderFacts
    <3>4. CASE i > p + 1
      <4>1. i - 1 \in p + 1 .. k /\ i - 1 \in 1 .. k /\ i - 1 < j - 1
        BY <1>1, <3>4
      <4>2. q[(i - 1) + 1] = r[i - 1]
        BY <1>3, <4>1
      <4> QED  BY <2>0, <3>1, <4>1, <4>2
    <3> QED  BY <1>1, <3>2, <3>3, <3>4
  <2> QED  BY <1>1, <2>1, <2>2, <2>3
<1>6. \A i \in 1 .. k + 1 : \E j \in 1 .. k + 1 : q[j] = found[i]
  <2> SUFFICES ASSUME NEW i \in 1 .. k + 1 PROVE \E j \in 1 .. k + 1 : q[j] = found[i]
    OBVIOUS
  <2>2. CASE i = k + 1
    BY <1>1, <1>3, <2>2
  <2>3. CASE i # k + 1
    <3>1. PICK j \in 1 .. k : r[j] = found[i]
      BY <2>3 DEF Ranks
    <3>2. CASE j <= p
      BY <1>1, <1>3, <3>1, <3>2
    <3>3. CASE j > p
      <4>1. j \in p + 1 .. k /\ j + 1 \in 1 .. k + 1
        BY <1>1, <3>3
      <4> QED  BY <1>3, <3>1, <4>1
    <3> QED  BY <1>1, <3>2, <3>3
  <2> QED  BY <2>2, <2>3
<1> QED  BY <1>3, <1>5, <1>6 DEF Ranks, q

\* The recursion of the fold has a solution.
LEMMA FoldIsDefined ==
  ASSUME NEW found, NEW n \in Nat
  PROVE  \E g : g = [s \in SUBSET (1 .. n) |->
                      IF s = {} THEN <<>> ELSE Insert(g[s \ {Max(s)}], found[Max(s)])]
<1> DEFINE Solves(g, k) == g = [s \in SUBSET (1 .. k) |->
                      IF s = {} THEN <<>> ELSE Insert(g[s \ {Max(s)}], found[Max(s)])]
           Bad == {k \in Nat : ~ \E g : Solves(g, k)}
<1>1. \E g : Solves(g, 0)
  <2> DEFINE g == [s \in SUBSET (1 .. 0) |-> <<>>]
  <2>1. \A s \in SUBSET (1 .. 0) : s = {}
    OBVIOUS
  <2>2. g = [s \in SUBSET (1 .. 0) |->
              IF s = {} THEN <<>> ELSE Insert(g[s \ {Max(s)}], found[Max(s)])]
    BY <2>1
  <2>3. Solves(g, 0)
    BY <2>2
  <2> QED  BY <2>3
<1>2. ASSUME NEW k \in Nat, NEW g, Solves(g, k)
      PROVE  \E h : Solves(h, k + 1)
  <2> DEFINE h == [s \in SUBSET (1 .. k + 1) |->
                    IF k + 1 \in s THEN Insert(g[s \ {k + 1}], found[k + 1]) ELSE g[s]]
  <2>1. \A s \in SUBSET (1 .. k) :
          g[s] = IF s = {} THEN <<>> ELSE Insert(g[s \ {Max(s)}], found[Max(s)])
    BY <1>2
  <2>2. ASSUME NEW s \in SUBSET (1 .. k + 1), k + 1 \in s
        PROVE  /\ Max(s) = k + 1 /\ s # {}
               /\ s \ {k + 1} \in SUBSET (1 .. k) /\ h[s \ {k + 1}] = g[s \ {k + 1}]
    <3>1. \A x \in s : (\A y \in s : x >= y) <=> x = k + 1
      BY <2>2
    <3>2. Max(s) = k + 1
      BY <2>2, <3>1 DEF Max
    <3>3. s \ {k + 1} \in SUBSET (1 .. k) /\ s \ {k + 1} \in SUBSET (1 .. k + 1)
      OBVIOUS
    <3> QED  BY <2>2, <3>2, <3>3
  <2>3. ASSUME NEW s \in SUBSET (1 .. k + 1), k + 1 \notin s, s # {}
        PROVE  /\ s \in SUBSET (1 .. k)
               /\ h[s] = g[s] /\ h[s \ {Max(s)}] = g[s \ {Max(s)}]
    <3>1. \A x \in s : x \in 1 .. k
      BY <2>3
    <3>2. s \ {Max(s)} \in SUBSET (1 .. k + 1) /\ k + 1 \notin s \ {Max(s)}
      BY <2>3
    <3> QED  BY <2>3, <3>1, <3>2
  <2>4. \A s \in SUBSET (1 .. k + 1) :
          h[s] = IF s = {} THEN <<>> ELSE Insert(h[s \ {Max(s)}], found[Max(s)])
    <3> SUFFICES ASSUME NEW s \in SUBSET (1 .. k + 1)
                 PROVE  h[s] = IF s = {} THEN <<>>
                               ELSE Insert(h[s \ {Max(s)}], found[Max(s)])
      OBVIOUS
    <3>1. CASE k + 1 \in s
      BY <2>2, <3>1
    <3>2. CASE k + 1 \notin s /\ s # {}
      BY <2>1, <2>3, <3>2
    <3>3. CASE s = {}
      BY <2>1, <3>3
    <3> QED  BY <3>1, <3>2, <3>3
  <2>5. h = [s \in SUBSET (1 .. k + 1) |-> h[s]]
    OBVIOUS
  <2> HIDE DEF h
  <2>6. Solves(h, k + 1)
    BY <2>4, <2>5
  <2> QED  BY <2>6
<1> HIDE DEF Solves
<1>3. Bad = {}
  <2> SUFFICES ASSUME Bad # {} PROVE FALSE
    OBVIOUS
  <2>1. PICK k \in Bad : \A l \in Bad : k <= l
    BY LeastNatural
  <2>2. k # 0
    BY <1>1
  <2>3. k - 1 \in Nat /\ k - 1 \notin Bad /\ (k - 1) + 1 = k
    BY <2>1, <2>2
  <2> QED  BY <1>2, <2>1, <2>3
<1>4. \E g : Solves(g, n)
  BY <1>3
<1> QED  BY <1>4 DEF Solves

\* select_relay returns a ranking of everything that was found.
LEMMA SelectRelayRanks ==
  ASSUME NEW S, Comparable(S), NEW n \in Nat, NEW found \in [1 .. n -> S]
  PROVE  Ranks(SelectRelay(found), found, n, S)
<1> DEFINE Solves(g) == g = [s \in SUBSET (1 .. n) |->
                      IF s = {} THEN <<>> ELSE Insert(g[s \ {Max(s)}], found[Max(s)])]
           fold == CHOOSE g : Solves(g)
           Bad == {k \in 0 .. n : ~Ranks(fold[1 .. k], found, k, S)}
<1>1. SelectRelay(found) = fold[1 .. n]
  <2>1. DOMAIN found = 1 .. n
    OBVIOUS
  <2> QED  BY <2>1 DEF SelectRelay, FoldLeft, MapThenFoldSet
<1>2. \E g : Solves(g)
  BY FoldIsDefined
<1> HIDE DEF Solves
<1>3. Solves(fold)
  BY <1>2
<1> HIDE DEF fold
<1>4. \A s \in SUBSET (1 .. n) :
        fold[s] = IF s = {} THEN <<>> ELSE Insert(fold[s \ {Max(s)}], found[Max(s)])
  BY <1>3 DEF Solves
<1>5. Ranks(fold[1 .. 0], found, 0, S)
  <2>1. 1 .. 0 = {} /\ fold[1 .. 0] = <<>>
    <3>1. 1 .. 0 = {}
      OBVIOUS
    <3>2. {} \in SUBSET (1 .. n)
      OBVIOUS
    <3>3. fold[{}] = <<>>
      BY <1>4, <3>2
    <3> QED  BY <3>1, <3>3
  <2>2. <<>> \in [1 .. 0 -> S] /\ Sorted(<<>>)
    BY <2>1 DEF Sorted
  <2> QED  BY <2>1, <2>2 DEF Ranks
<1>6. ASSUME NEW k \in 0 .. n - 1, Ranks(fold[1 .. k], found, k, S)
      PROVE  Ranks(fold[1 .. k + 1], found, k + 1, S)
  <2> DEFINE s == 1 .. k + 1
  <2>1. s \in SUBSET (1 .. n) /\ k + 1 \in s /\ s # {} /\ s \ {k + 1} = 1 .. k
    <3>1. s \in SUBSET (1 .. n)
      OBVIOUS
    <3>2. k + 1 \in s
      OBVIOUS
    <3>3. \A x : x \in s \ {k + 1} <=> x \in 1 .. k
      OBVIOUS
    <3> HIDE DEF s
    <3> QED  BY <3>1, <3>2, <3>3
  <2>2. \A x \in s : (\A y \in s : x >= y) <=> x = k + 1
    OBVIOUS
  <2>3. Max(s) = k + 1
    BY <2>1, <2>2 DEF Max
  <2> HIDE DEF s
  <2>4. fold[s] = Insert(fold[1 .. k], found[k + 1])
    BY <1>4, <2>1, <2>3
  <2>5. k \in Nat /\ found[k + 1] \in S
    OBVIOUS
  <2>6. Ranks(Insert(fold[1 .. k], found[k + 1]), found, k + 1, S)
    BY <1>6, <2>5, InsertRanks
  <2> QED  BY <2>4, <2>6 DEF s
<1>7. Bad = {}
  <2> SUFFICES ASSUME Bad # {} PROVE FALSE
    OBVIOUS
  <2>1. PICK k \in Bad : \A l \in Bad : k <= l
    <3>1. Bad \in SUBSET Nat
      OBVIOUS
    <3> QED  BY <3>1, LeastNatural
  <2>2. k # 0
    BY <1>5
  <2>3. k - 1 \in 0 .. n - 1 /\ k - 1 \notin Bad /\ (k - 1) + 1 = k
    BY <2>1, <2>2
  <2>4. Ranks(fold[1 .. k - 1], found, k - 1, S)
    BY <2>3
  <2>5. Ranks(fold[1 .. (k - 1) + 1], found, (k - 1) + 1, S)
    BY <1>6, <2>3, <2>4
  <2> QED  BY <2>1, <2>3, <2>5
<1>8. Ranks(fold[1 .. n], found, n, S)
  BY <1>7
<1> QED  BY <1>1, <1>8

\* With distinct node ids there is one way to rank.
LEMMA OneRanking ==
  ASSUME NEW S, Comparable(S), \A c, d \in S : c.node_id = d.node_id => c = d,
         NEW n \in Nat, NEW q, NEW r, RanksAll(q, n, S), RanksAll(r, n, S)
  PROVE  q = r
<1> DEFINE Bad == {i \in 1 .. n : q[i] # r[i]}
<1> USE DEF RanksAll
<1>0. \A a, b \in S : a = b \/ RanksBefore(a, b) \/ RanksBefore(b, a)
  BY RankingIsTotal DEF Comparable
<1>1. ASSUME Bad # {} PROVE FALSE
  <2>1. PICK i \in Bad : \A j \in Bad : i <= j
    <3>1. Bad \in SUBSET Nat
      OBVIOUS
    <3> QED  BY <1>1, <3>1, LeastNatural
  <2>2. \A j \in 1 .. n : j < i => q[j] = r[j]
    BY <2>1
  <2>3. i \in 1 .. n /\ q[i] # r[i] /\ q[i] \in S /\ r[i] \in S
    OBVIOUS
  <2>4. PICK j \in 1 .. n : r[j] = q[i]
    BY <2>3
  <2>5. PICK k \in 1 .. n : q[k] = r[i]
    BY <2>3
  <2> HIDE DEF Bad
  <2>6. j > i
    <3>1. j # i
      BY <2>3, <2>4
    <3>2. ASSUME j < i PROVE FALSE
      <4>1. q[j] = q[i]
        BY <2>2, <2>4, <3>2
      <4>2. j = i
        BY <2>3, <4>1
      <4> QED  BY <3>1, <4>2
    <3> QED  BY <2>3, <3>1, <3>2
  <2>7. k > i
    <3>1. k # i
      BY <2>3, <2>5
    <3>2. ASSUME k < i PROVE FALSE
      <4>1. r[k] = r[i]
        BY <2>2, <2>5, <3>2
      <4>2. k = i
        BY <2>3, <4>1
      <4> QED  BY <3>1, <4>2
    <3> QED  BY <2>3, <3>1, <3>2
  <2>8. ~RanksBefore(q[i], r[i])
    BY <2>3, <2>4, <2>6 DEF Sorted
  <2>9. ~RanksBefore(r[i], q[i])
    BY <2>3, <2>5, <2>7 DEF Sorted
  <2> QED  BY <1>0, <2>3, <2>8, <2>9
<1>2. \A i \in 1 .. n : q[i] = r[i]
  BY <1>1
<1> QED  BY <1>2

LEMMA CandidatesCompare == Comparable(Candidates)
<1> SUFFICES ASSUME NEW c \in Candidates PROVE Score(c) \in Int /\ c.node_id \in Int
  BY DEF Comparable
<1>1. c.rtt_ms \in Nat /\ c.reputation \in Int /\ c.node_id \in Int
  BY CandidatesAssumption
<1>2. Clamped(c.reputation) \in 0 .. 100
  BY <1>1, FactorBounds
<1>3. \A x \in Nat, y \in Int : x * y \in Int
  OBVIOUS
<1>4. 500 - Clamped(c.reputation) \in Int
  BY <1>2
<1> QED  BY <1>1, <1>3, <1>4 DEF Score

\* A lookup finds every candidate, once: so does the ranking of what it found.
LEMMA RankingOfAll ==
  ASSUME NEW found \in SetToSeqs(Candidates)
  PROVE  /\ Cardinality(Candidates) \in Nat
         /\ RanksAll(SelectRelay(found), Cardinality(Candidates), Candidates)
<1> DEFINE n == Cardinality(Candidates)
           r == SelectRelay(found)
<1>1. n \in Nat /\ IsFiniteSet(Candidates)
  BY CandidatesAssumption, FS_CardinalityType
<1>2. found \in [1 .. n -> Candidates] /\ \A i, j \in 1 .. n : i # j => found[i] # found[j]
  BY DEF SetToSeqs
<1>3. IsFiniteSet(1 .. n) /\ Cardinality(1 .. n) = n
  <2>1. /\ IsFiniteSet(1 .. n)
        /\ Cardinality(1 .. n) = IF 1 > n THEN 0 ELSE n - 1 + 1
    BY <1>1, FS_Interval
  <2> QED  BY <1>1, <2>1
<1> HIDE DEF n
<1>4. Ranks(r, found, n, Candidates)
  BY <1>1, <1>2, CandidatesCompare, SelectRelayRanks
<1> HIDE DEF r
<1>5. \A c \in Candidates : \E i \in 1 .. n : found[i] = c
  <2>1. found \in Injection(1 .. n, Candidates)
    BY <1>2 DEF Injection, IsInjective
  <2>2. found \in Surjection(1 .. n, Candidates)
    <3>1. Cardinality(1 .. n) = Cardinality(Candidates)
      BY <1>3 DEF n
    <3> QED  BY <1>1, <2>1, <3>1, FS_Injection
  <2> QED  BY <2>2 DEF Surjection
<1>6. r \in [1 .. n -> Candidates] /\ Sorted(r)
  BY <1>4 DEF Ranks
<1>7. \A c \in Candidates : \E j \in 1 .. n : r[j] = c
  BY <1>4, <1>5 DEF Ranks
<1>8. \A i, j \in 1 .. n : r[i] = r[j] => i = j
  <2>1. r \in Surjection(1 .. n, Candidates)
    BY <1>6, <1>7 DEF Surjection
  <2>2. r \in Injection(1 .. n, Candidates)
    <3>1. Cardinality(1 .. n) = Cardinality(Candidates)
      BY <1>3 DEF n
    <3> QED  BY <1>3, <2>1, <3>1, FS_SurjSameCardinalityImpliesInj
  <2> QED  BY <2>2 DEF Injection, IsInjective
<1> QED  BY <1>1, <1>6, <1>7, <1>8 DEF RanksAll, n, r

\* What the hosts ranked is what select_relay makes of some lookup.
RankingInv == \A ranking \in rankings : \E found \in SetToSeqs(Candidates) : ranking = SelectRelay(found)

LEMMA RankingsFromLookups == Spec => []RankingInv
<1>1. Init => RankingInv
  BY DEF Init, RankingInv
<1>2. RankingInv /\ [Next]_vars => RankingInv'
  <2> SUFFICES ASSUME RankingInv, [Next]_vars PROVE RankingInv'
    OBVIOUS
  <2>1. ASSUME rankings' = rankings PROVE RankingInv'
    BY <2>1 DEF RankingInv
  <2>2. ASSUME HostStart PROVE RankingInv'
    <3>1. PICK found \in SetToSeqs(Candidates) : rankings' = rankings \cup {SelectRelay(found)}
      BY <2>2 DEF HostStart
    <3> QED  BY <3>1 DEF RankingInv
  <2> QED
    BY <2>1, <2>2
    DEF Next, Tick, Revoke, HostStop, Serve, RequestAdmission, RequestResume, Send, Timeout,
        Publish, Restart, Allocate, vars, hostVars
<1> QED  BY <1>1, <1>2, PTL DEF Spec

(* The relay a host hands out is at most a quarter further than any other  *)
(* one the lookup found, in whatever order it found them (select_relay,    *)
(* RelayCandidate::score).                                                 *)
THEOREM BestRelayIsNear == Spec => []RelayIsNear
<1>1. RankingInv => RelayIsNear
  <2> SUFFICES ASSUME RankingInv, NEW ranking \in rankings, NEW c \in Candidates
               PROVE  4 * ranking[1].rtt_ms <= 5 * c.rtt_ms
    BY DEF RelayIsNear
  <2> DEFINE n == Cardinality(Candidates)
             a == ranking[1]
  <2>1. PICK found \in SetToSeqs(Candidates) : ranking = SelectRelay(found)
    BY DEF RankingInv
  <2>2. n \in Nat /\ ranking \in [1 .. n -> Candidates] /\ Sorted(ranking)
    BY <2>1, RankingOfAll DEF RanksAll
  <2>3. PICK j \in 1 .. n : ranking[j] = c
    BY <2>1, RankingOfAll DEF RanksAll
  <2> HIDE DEF n
  <2>4. 1 \in 1 .. n /\ a \in Candidates
    BY <2>2, <2>3
  <2>5. a = c \/ ~RanksBefore(c, a)
    BY <2>2, <2>3, <2>4 DEF Sorted
  <2> HIDE DEF a
  <2>6. Score(a) <= Score(c)
    <3>1. Score(a) \in Int /\ Score(c) \in Int
      BY <2>4, CandidatesCompare DEF Comparable
    <3>2. CASE a = c
      BY <3>1, <3>2
    <3>3. CASE ~RanksBefore(c, a)
      <4>1. ~(Score(c) < Score(a))
        BY <3>3 DEF RanksBefore
      <4> QED  BY <3>1, <4>1
    <3> QED  BY <2>5, <3>2, <3>3
  <2>7. /\ a.rtt_ms \in Nat /\ a.reputation \in Int
        /\ c.rtt_ms \in Nat /\ c.reputation \in Int
    BY <2>4, CandidatesAssumption
  <2>8. 4 * a.rtt_ms <= 5 * c.rtt_ms
    BY <2>6, <2>7, LatencyDominates
  <2> QED  BY <2>8 DEF a
<1> QED  BY <1>1, RankingsFromLookups, PTL

(* Hosts that found the same relays hand out the same one, and fall back   *)
(* alike, in whatever order each lookup returned them, if no two of the    *)
(* relays share a node id (select_relay: "stable across hosts").           *)
THEOREM HostsAgree ==
  ASSUME \A c, d \in Candidates : c.node_id = d.node_id => c = d
  PROVE  Spec => []RankingsAgree
<1>1. RankingInv => RankingsAgree
  <2> SUFFICES ASSUME RankingInv PROVE Cardinality(rankings) <= 1
    BY DEF RankingsAgree
  <2>1. \A q, r \in rankings : q = r
    <3> SUFFICES ASSUME NEW q \in rankings, NEW r \in rankings PROVE q = r
      OBVIOUS
    <3> DEFINE n == Cardinality(Candidates)
    <3>1. PICK f \in SetToSeqs(Candidates) : q = SelectRelay(f)
      BY DEF RankingInv
    <3>2. PICK g \in SetToSeqs(Candidates) : r = SelectRelay(g)
      BY DEF RankingInv
    <3>3. n \in Nat /\ RanksAll(q, n, Candidates) /\ RanksAll(r, n, Candidates)
      <4>1. n \in Nat /\ RanksAll(q, n, Candidates)
        BY <3>1, RankingOfAll
      <4>2. RanksAll(r, n, Candidates)
        BY <3>2, RankingOfAll
      <4> QED  BY <4>1, <4>2
    <3> QED  BY <3>3, CandidatesCompare, OneRanking
  <2>2. CASE rankings = {}
    BY <2>2, FS_EmptySet
  <2>3. CASE rankings # {}
    <3>0. PICK q \in rankings : TRUE
      BY <2>3
    <3>1. rankings = {q}
      BY <2>1, <3>0
    <3>2. Cardinality(rankings) = 1
      BY <3>1, FS_Singleton
    <3> QED  BY <3>2
  <2> QED  BY <2>2, <2>3
<1> QED  BY <1>1, RankingsFromLookups, PTL
=============================================================================
