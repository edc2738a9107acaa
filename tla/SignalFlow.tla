----------------------------- MODULE SignalFlow -----------------------------
(***************************************************************************)
(* The directed signals (offer, answer, candidates) one peer sends to a    *)
(* participant, from MeetClient::signal_peer at the peer to what           *)
(* MeetClient::ingest_ordered returns here: the peer's single sequence     *)
(* counter, the pubsub topic, the freshness check, and the reorder buffer. *)
(*                                                                         *)
(* The counter is the one of the peer's Room: every broadcast, every       *)
(* signal to another participant and every failed publish takes a number   *)
(* as well; what is addressed to a third participant arrives here too.     *)
(* next_seq, sent and sent_at belong to the peer, now is the clock of the  *)
(* receiver, and the variables of OrderedInbox are its buffer for the peer.*)
(***************************************************************************)
EXTENDS OrderedInbox

CONSTANTS
  FreshnessSecs, \* freshness_secs of the receiving client, 0 = off
  SkewSlack,     \* CLOCK_SKEW_SLACK
  Skews,         \* how far the peer's clock may be ahead of the receiver's
  MaxOthers,     \* bound: numbers the peer spends on anything else
  MaxTime        \* bound: the last reading of the receiver's clock

ASSUME FlowAssumption ==
  /\ FreshnessSecs \in Nat
  /\ SkewSlack \in Nat
  /\ Skews \subseteq Nat
  /\ MaxOthers \in Nat
  /\ MaxTime \in Nat

VARIABLES
  next_seq,   \* the peer's outbound counter
  elsewhere,  \* the numbers it spent on anything else
  sent,       \* the numbers of the signals it addressed to us
  sent_at,    \* their timestamps
  now,        \* our clock
  arrived,    \* the signals pubsub delivered at least once
  releasedAt  \* our clock when ingest_ordered was called last

flowVars == <<inboxVars, next_seq, elsewhere, sent, sent_at, now, arrived, releasedAt>>

\* Only what was addressed to us is ever offered to the buffer.
FlowTypeOK ==
  /\ InboxTypeOK
  /\ next_seq \in Nat
  /\ elsewhere \subseteq Offerable
  /\ sent \subseteq Offerable \ elsewhere
  /\ offered \subseteq sent
  /\ arrived \subseteq Offerable
  /\ sent_at \in [Offerable -> Nat]
  /\ now \in 0 .. MaxTime
  /\ releasedAt \in 0 .. MaxTime

FlowInit ==
  /\ InboxInit
  /\ next_seq = 0
  /\ elsewhere = {}
  /\ sent = {}
  /\ sent_at = [s \in Offerable |-> 0]
  /\ now = 0
  /\ arrived = {}
  /\ releasedAt = 0

-----------------------------------------------------------------------------

\* next_outbound_seq at the peer
TakeSeq ==
  /\ next_seq \in Offerable
  /\ next_seq' = next_seq + 1

\* signal_peer to us
SignalUs ==
  /\ TakeSeq
  /\ sent' = sent \cup {next_seq}
  /\ \E skew \in Skews : sent_at' = [sent_at EXCEPT ![next_seq] = now + skew]
  /\ UNCHANGED <<inboxVars, elsewhere, now, arrived, releasedAt>>

\* announce_join, keepalive, a chat line, a signal to a third participant,
\* or a publish that failed after the number was taken
SpendElsewhere ==
  /\ Cardinality(elsewhere) < MaxOthers
  /\ TakeSeq
  /\ elsewhere' = elsewhere \cup {next_seq}
  /\ UNCHANGED <<inboxVars, sent, sent_at, now, arrived, releasedAt>>

Tick ==
  /\ now < MaxTime
  /\ now' = now + 1
  /\ UNCHANGED <<inboxVars, next_seq, elsewhere, sent, sent_at, arrived, releasedAt>>

\* Wrong variant: a timestamp far in the future is fresh.
IsFreshNoSlack(at) == FreshnessSecs = 0 \/ now <= at + FreshnessSecs

\* SignalEnvelope::is_fresh
IsFresh(at) ==
  \/ FreshnessSecs = 0
  \/ at <= now + SkewSlack /\ now <= at + FreshnessSecs

\* Wrong variant: every directed signal on the topic is taken for ours.
IngestUnaddressed(s) ==
  /\ s \in sent \cup elsewhere
  /\ Offer(s)
  /\ arrived' = arrived \cup {s}
  /\ releasedAt' = now
  /\ UNCHANGED <<next_seq, elsewhere, sent, sent_at, now>>

\* ingest_ordered of a directed signal: the freshness check first, then
\* whether it is addressed to us, then the buffer of the peer.
Ingest(s) ==
  /\ s \in sent \cup elsewhere
  /\ IF s \in sent /\ IsFresh(sent_at[s])
     THEN Offer(s)
     ELSE ReturnNothing /\ UNCHANGED offered
  /\ arrived' = arrived \cup {s}
  /\ releasedAt' = now
  /\ UNCHANGED <<next_seq, elsewhere, sent, sent_at, now>>

FirstIngest(s) == s \notin arrived /\ Ingest(s)

FlowNext ==
  \/ SignalUs
  \/ SpendElsewhere
  \/ Tick
  \/ \E s \in Offerable : Ingest(s)

FlowSpec == FlowInit /\ [][FlowNext]_flowVars

\* A network that, reordering and duplicating, delivers everything once.
FairFlowSpec == FlowSpec /\ \A s \in Offerable : WF_flowVars(FirstIngest(s))

-----------------------------------------------------------------------------
(* Properties *)

(* order.rs:85: "a lost message never wedges the stream": every signal     *)
(* the peer sends us is handed out in the end.  One number that the peer   *)
(* spends on anything else breaks it.                                      *)
EverySignalHandedOut ==
  \A s \in Offerable : s \in sent ~> s \in earlier \cup released

\* Nothing but signals to us takes numbers, none of them is stale on arrival,
\* and none is overtaken by a whole window of later ones.
Undisturbed ==
  /\ elsewhere = {}
  /\ arrived \subseteq offered
  /\ \A t \in sent \ arrived :
       Cardinality({s \in arrived : t < s}) < EffectiveWindow

(* What does hold: with a counter that is ours alone, as                   *)
(* architecture.md:53-54 pictures it, every signal is handed out, in       *)
(* whatever order and however often fewer than a window of them arrive.    *)
HandedOutWhenUndisturbed == []Undisturbed => EverySignalHandedOut

(* However many numbers the peer spends elsewhere, and whatever goes stale *)
(* on the way, fewer than a window of the signals that arrived wait behind *)
(* what was handed out: this bounds the memory, and how long a gap lasts.  *)
FewerThanAWindowWait ==
  Cardinality({s \in offered : \A t \in earlier \cup released : t < s})
    < EffectiveWindow

(* With freshness on, nothing handed out bears a time further ahead of our *)
(* clock than the slack, held back or not (SignalEnvelope::is_fresh).      *)
NotFromTheFuture ==
  FreshnessSecs > 0 => \A s \in released : sent_at[s] <= releasedAt + SkewSlack
=============================================================================
