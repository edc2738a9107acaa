-------------------------------- MODULE Turn --------------------------------
(***************************************************************************)
(* The media tier's part of an admission (src/src/turn.rs), as operators:  *)
(* the ranking of relay candidates and channel-bound TURN credentials.     *)
(*                                                                         *)
(* A candidate is a record [node_id, rtt_ms, reputation]; node ids are     *)
(* numbers in their lexicographic order and reputations are per cent.  A   *)
(* score is a multiple of 1/500 ms, exact where the code's f64 rounds.     *)
(***************************************************************************)
EXTENDS Integers, SequencesExt

\* reputation.clamp(0.0, 1.0)
Clamped(reputation) ==
  IF reputation < 0 THEN 0 ELSE IF reputation > 100 THEN 100 ELSE reputation

\* Wrong variant: the reputation is taken as it comes.
ScoreUnclamped(c) == c.rtt_ms * (500 - c.reputation)

\* RelayCandidate::score: latency, discounted by at most a fifth
Score(c) == c.rtt_ms * (500 - Clamped(c.reputation))

\* Wrong variant: equal scores stay in the order of discovery.
RanksBeforeByScore(a, b) == Score(a) < Score(b)

\* The comparison of select_relay
RanksBefore(a, b) ==
  Score(a) < Score(b) \/ (Score(a) = Score(b) /\ a.node_id < b.node_id)

\* How many of a ranking stay ahead of c: those before the first it precedes.
Ahead(ranking, c) ==
  CHOOSE p \in 0 .. Len(ranking) :
    /\ \A i \in 1 .. p : ~RanksBefore(c, ranking[i])
    /\ p < Len(ranking) => RanksBefore(c, ranking[p + 1])

Insert(ranking, c) == InsertAt(ranking, Ahead(ranking, c) + 1, c)

\* select_relay: a stable sort of what the discovery found
SelectRelay(found) == FoldLeft(Insert, <<>>, found)

-----------------------------------------------------------------------------

\* turn_password: HMAC(secret, username), as the tuple of both
TurnPassword(secret, username) == <<secret, username>>

\* TurnCredential::derive
Derive(channel, secret, now, ttl) ==
  LET username == <<now + ttl, channel>>
  IN  [username |-> username, password |-> TurnPassword(secret, username),
       expires_at |-> now + ttl, channel_id |-> channel]

\* TurnCredential::ice_server keeps the two fields a browser sends.
IceServer(cred, relay) ==
  [relay |-> relay, username |-> cred.username, credential |-> cred.password]

\* Wrong variant: a credential is good as long as its password re-derives.
VerifiesTurnForEver(cred, secret, now) ==
  cred.password = TurnPassword(secret, cred.username)

\* TurnCredential::verify
VerifiesTurn(cred, secret, now) ==
  /\ now <= cred.expires_at
  /\ cred.username = <<cred.expires_at, cred.channel_id>>
  /\ cred.password = TurnPassword(secret, cred.username)
=============================================================================
