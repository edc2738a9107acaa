# ce-meet: verification project

This directory holds a TLA+ model of ce-meet, the configurations TLC checks it
with, and theorems checked by TLAPS. ce-meet (`src/`, a Rust crate of about 4600
lines with its tests) is the signalling layer of a peer-to-peer conferencing system: it lets
the participants of a room agree on who is there and exchange WebRTC offers,
answers and candidates over the publish/subscribe of a CE node, admits them by
capability, and survives restarts of the host. Media never passes through it.

Paths below are relative to `src/src/` unless they say otherwise.

## 1. The system

### Inventory

| component | source | state it keeps | operations that change it | modelled in |
|---|---|---|---|---|
| roster (`Room`) | `room.rs` | per member: presence register (`last_seq`, `present`), `last_seen`, three media registers with their floors, name; the outbound counter `next_seq`; the cap; `ended` | `apply` (every kind of signal), `prune_stale`, `merge_snapshot`, `restore`, `resume_outbound_from`, `next_outbound_seq` | `Roster`, `RoomReplicas`, `RoomRecovery` |
| snapshot store (`RoomSnapshot`) | `room.rs` 591-690 | the file of a host | `save_atomic` (temporary file, fsync, rename, directory), `load` | `SnapshotStore` |
| reorder buffer (`OrderedInbox`, `SignalRouter`) | `order.rs` | per peer: `next`, `started`, the buffer | `offer`, `skip_to` | `OrderedInbox` |
| client (`MeetClient`) | `client.rs` | a `Room`, a freshness window, the host it was admitted by | `announce_join`, `announce_leave`, `keepalive`, `broadcast`, `signal_peer`, `poll`, `event_loop`, `ingest_ordered`, `request_admission`, `request_resume`, `adopt_resume` | `RoomReplicas`, `SignalFlow`, `Admission`, `CommandLine` |
| wire format | `proto.rs` | none | `validate`, `is_fresh`, `from_bytes` | partly: what receivers tell apart |
| admission | `admit.rs` | the host's secret and token lifetime; the limiter's buckets | `Admitter::admit`, `AdmitRateLimiter::check` | `Admitter`, `RateLimiter`, `Admission` |
| capability gate | `caps.rs` | the policy of a room, revocations | `Gate::check` | partly: `Admitter`, the ce-cap library by constants |
| TURN, relay selection | `turn.rs` | none | `select_relay`, `TurnCredential::derive`, `verify` | `Turn`, `Admission` |
| command line | `main.rs` | loops of `join` and `host` | `join`, `run_streamed`, `control`, `signal`, `moderate`, `host` | partly: `CommandLine`, `Admission` |

### How the parts interact

A client publishes an envelope (sender, room, seq, timestamp, signal) on the
topic of the room. The node's pubsub delivers it to the others **at most once
per subscription, in no particular order, possibly twice**, and authenticates
the sender. A receiver hands each envelope to `apply_message`, which drops its
own echo, applies it to the `Room` and reports an `Effect`; applications follow
the effects. Directed signals also go through `ingest_ordered`: freshness first,
then the address, then the sender's reorder buffer. One counter per client
numbers everything it publishes. A host keeps a `Room` too, saves it, and may
merge another host's snapshot.

Admission and resume requests travel as direct requests, not over pubsub. The
loop of `host` rate-limits each by sender, decides it (a resume token first, the
capability gate otherwise) and answers with a token and the ICE servers, among
them a TURN credential that a relay verifies later on its own.

Each run of the command line is a process with a `MeetClient`, hence a counter,
of its own: a session (`join`, streaming or polling) and the commands beside it
(`control`, `signal`, `moderate`) speak for one node without sharing numbers.

### What is hard

* *Order and duplication*: every register must be indifferent to both. The
  presence register (tie rule: absence wins), three media floors ("next
  acceptable" seq) and the max of `last_seen` follow three different rules on one
  envelope, and the keepalive arm bypasses the first of them.
* *Several notions of a number*: the one counter of a client is used by
  registers, which only compare, and by the reorder buffer, which counts; several
  processes of one node count independently.
* *Crashes*: a snapshot is older than what was heard and published since; a save
  is cut off between any two file operations; hosts and joiners restart.
* *Merging*: a roster changes without an envelope, past the guards of `apply`.
* *Limits*: the member cap, the reorder window, the limiter's table, u64.
* *Time*: clocks decide staleness, freshness, windows and expiry, and what is
  read once (revocations, ICE servers) grows old.
* *Late answers*: the host decides when the asker may have given up.

`PROJECT.json` lists each hazard at its line with the properties that watch it.

### What makes each component correct

* roster: a member is the last word of its node; replicas converge; effects
  tell the truth; registers only advance; the cap holds.
* recovery: what was left stays left, whatever is restored or merged; merging
  is commutative and associative on the digest; only a restart goes back.
* snapshot store: a reader sees a whole snapshot, the old or the new; what
  reached the disk is superseded, never lost.
* reorder buffer: an ascending stream without duplicates; bounded memory; only
  a full buffer gives up; nothing but a given-up gap is lost; progress.
* admission: who enters holds an accepted capability now or was admitted by
  this host within a token's lifetime, provided the host's MAC secret is known to
  the host alone (which `ce-meet host` does not see to, see section 3); the limiter passes no more per window and
  sender than it may, drops nobody without a reason and stays bounded; hosts
  choose the same, near relay, and it serves only while a credential lasts.
* command line: who polls is shown, also after coming back at number 0, and stays
  shown; the end of a room ends streaming sessions.

## 2. The modules

| module | models | state |
|---|---|---|
| `Roster` | `Room` as operators on a record: `Apply`, `Effect`, `PruneStale`, `Snapshot`, `Restore`, `MergeSnapshot`, ... | none |
| `RoomReplicas` | one `Room` per participant over pubsub; extends `Roster` | `room`, `published`; histories `heard`, `shown` |
| `RoomRecovery` | `RoomReplicas` with sweeps, snapshots, restarts, resumed counters, merges | adds `stored`, `saved`; history `savedHeard` |
| `AtomicSnapshot` | what `save_atomic` promises: `RoomRecovery`'s `Save` as an atomic replacement | what `load` returns, now and after a power failure |
| `SnapshotStore` | `save_atomic` file operation by file operation; refines `AtomicSnapshot` | `step`, `written`, `synced`, `dest`, `onDisk`; histories `settled`, `renames` |
| `InOrderStream` | what the reorder buffer promises | three histories |
| `OrderedInbox` | the reorder buffer of one peer; refines `InOrderStream` | `next`, `started`, `buffer`; histories `offered`, `earlier`, `released` |
| `SignalFlow` | the directed signals of one peer, from its counter through pubsub and the freshness check into `OrderedInbox`, which it extends | adds `next_seq`, `sent`, `sent_at`, `now`, `arrived`, ... |
| `RateLimiter` | `AdmitRateLimiter` as operators on a record | none |
| `Admitter` | gate, resume tokens and `Admitter::admit`; extends `RateLimiter` | none |
| `Turn` | relay ranking and TURN credentials | none |
| `Admission` | the host loop, its joiners and a relay; composes `Admitter` and `Turn` | the host, its limiter, requests under way, tokens and counters of the joiners; histories |
| `CommandLine` | the processes of one user beside an observer's `Room`; extends `Roster` | `session`, `published`, `view`, `now`; history `heard` |
| `MCRoomReplicas`, `MCRoomRecovery`, `MCAdmission`, `MCCommandLine` | constants and symmetry for TLC | |
| `RosterProofs` | lemmas on `Roster`, shared by three of the following | |
| `RoomReplicasProofs`, `RoomRecoveryProofs`, `OrderedInboxProofs`, `SignalFlowProofs`, `SnapshotStoreProofs`, `AdmissionProofs`, `CommandLineProofs` | theorems | |

### Correspondence with the code

* **A room.** The `HashMap` of members is the pair of its key set `known` and a
  total function `members` that holds `Blank` elsewhere; the two mute flags of a
  `Media` signal, always written together, are one value. Only one room exists:
  the topic and the first guard of `apply` keep other rooms out. A name is a
  model value.
* **`apply`.** `Apply` has one arm per arm of the match. `Keepalive` is `lww`
  and then, when that changed nothing and the member is present, the refresh of
  `last_seen`. `LwwEffect` computes the effect `lww` returns with the change.
* **Pubsub.** `published` is the set of all envelopes ever published. Nothing is
  removed, so an envelope arrives at any later time, any number of times, or
  never. This is the weakest network the code is written for; `Receive` is what
  `poll` and `event_loop` do with one message.
* **Sending.** `AllocateSeq` precedes the publish and `SendFails` spends the
  number alone, as when validation, encoding or the node refuses. Timestamps
  are arbitrary readings.
* **Recovery.** `Save`, `Restart` (load and `restore`), `StartAfresh`
  (`MeetClient::new`, what each run of the command line does), `ResumeOutbound`,
  `Merge`. Everyone may read everyone's snapshot, as the blob a second host
  fetches. `Restore` drops `ended` and the cap as the code does.
* **The store.** A call of `save_atomic` goes through `Create`, `Write` (several
  times), `Sync`, `Rename`, `SyncDirectory`; `Fail` stops it anywhere and leaves
  what it wrote, `SkipDirectory` is the best-effort sync that did not happen.
  `PowerFailure` keeps any part of what was not synced and lets the destination
  name any file it named since the directory was last synced. `load` refuses a
  file that is not whole. Each call is assumed to have a temporary file of its own.
* **The reorder buffer.** A signal is its number. `Offer` has the three outcomes
  of `offer`; `Drain` is the loop of `drain` as one choice of where it stops;
  `Overfull` is the condition of `enforce_window`. `SignalRouter` keeps one
  inbox per peer and they share nothing, so one is modelled.
* **The flow.** `Ingest` is `ingest_ordered` for a directed signal: stale ones
  are dropped before their number is seen, others' are ignored. The peer's clock
  is ahead of ours by any of `Skews`; a late delivery covers a clock behind.
* **The limiter.** `Checked` and `LetsThrough` are the two results of `check`:
  eviction of what expired if the table is full (`MakeRoom`), refusal without a
  record (`NoRoom`), the sender's window (`Rolled`), the count.
* **Tokens and capabilities.** An HMAC is the tuple of the secret and what was
  authenticated: `Verifies` compares it after room, node and expiry, in the order
  of `verify_resume`, and any other tuple fails to: of another host, of another
  room, of a token with a field altered. The secret of `ce-meet host` is
  `MacSecret` of its node id, as in the code. A capability chain is a model value;
  `Authorizes` is ce-cap's verdict, made of constants (who holds it, until when,
  which links can be revoked).
* **Admission.** `Serve` is one turn of the loop of `host`: limiter, decoding,
  `admit`, answer. The answer arrives in the same step (it is computed from the
  host's state) or not at all; a request may be served long after `Timeout`, when
  its answer finds nobody. `RequestResume` presents any token the host's answers
  brought to anybody, or any of `OtherTokens`, a constant set of tokens that no
  answer carried; nothing is assumed of these but their type, and where a property
  needs more it says so (`SecretKept`). `HostStart` reads the revocations, or none if the
  query fails, and makes the ICE list an embedding application attaches. A second
  passes by `Tick`, any number of steps within it. A relay checks the expiry and
  channel written in the user name, as a TURN server does.
* **Relays.** A score is `rtt * (1 - 0.2 * reputation)` in the code; with
  reputations in per cent it is an integer multiple of 1/500. `SelectRelay` is
  the stable sort as an insertion per candidate.
* **The command line.** `Join`, `PollCycle`, `Leave` are the polling `join`; with
  mode "stream" only `Join` and `Leave` publish, as `run_streamed` does. A publish
  may fail where the code ignores it. `Command` is one run of `control`, `signal`
  or `moderate`: a new client, number 0. `Killed` is a crash and, while polling,
  Ctrl-C. The observer's `Room` receives in any order and is swept at any time.

The operators headed "Wrong variant" are not used by any specification: each is
a plausible mistake in the definition that follows it, and each property is
known to fail under one of them (`mutants` in `PROJECT.json`).

## 3. What is checked

Deadlock checking is off in every configuration but `inbox`, whose calls are
always possible: with the bounds exhausted, or before anything is published,
nobody has to do anything, and the real system may be idle as well.

| run | asks | result |
|---|---|---|
| `gossip` | a talker with joins, leaves, keepalives and two media dimensions, three envelopes in any order and number, a second speaker with every other kind of signal, rosters of a cap of 0 (clamped to 1): is each member the last word of what was heard of it, do rosters agree, does the cap hold, do effects and keepalives do their work? | holds |
| `recovery` | a speaker and a listener that both save, restart, start afresh, sweep and merge: does nobody that left come back, in memory or on disk; do merges agree; do effects and merge reports still follow presence; does only a restart go back? | holds |
| `store` | three saves at once, two writes each, failures and power failures anywhere: is what `load` returns always whole, and what was synced never lost? | holds |
| `inbox` | every order of seven numbers, offers and skips, a small window, numbers up to the largest u64: the properties of the buffer and its refinement of `InOrderStream` | holds |
| `flow` | shared counter, skew, staleness, everything delivered once: is what waits bounded, is nothing handed out from the future, and is, while nothing disturbs the stream, each signal handed out? | holds |
| `admission` | two joiners, one with a chain that expires and can be revoked, one with that chain, another room's, garbage, another host's token or an altered one; timeouts, late answers, host and joiner restarts, three relays: is admission authorised (by a host that keeps its secret), the limiter right, the choice of relay too, the relay's service bounded? | holds |
| `session` | two sessions of a user, streaming or polling, any number of cycles or one, left or killed, a command beside them, a host that ends the room, an observer that sweeps: is a polling session shown and does it stay shown, does a streaming one end with the room? | holds |
| `strict_convergence` | the documented convergence, word for word | fails |
| `merge_cap` | the cap under merges | fails |
| `flow_shared` | `flow` with one number spent on anything else, and every signal to be handed out | fails |
| `resume_floor` | does a resume put the counter past what was published? | fails |
| `stream_silence` | `PollingStaysShown` for a streaming session | fails |

### Where the code and its description part

1. *The first Join can be ignored* (`strict_convergence`). Media from an unknown
   sender creates a placeholder at `last_seq` 0. A Join bearing seq 0, the first
   number of every client, ties with it and changes nothing, so the member stays
   absent until its next keepalive. A replica that hears them the other way
   round shows it present. `Convergence` is what does hold: agreement as soon as
   one assertion above seq 0 was heard.
2. *Merges ignore the cap* (`merge_cap`).
3. *The buffer waits for numbers that were never for it* (`flow_shared`). A peer
   that sends one broadcast, keepalive or signal to a third participant between
   two signals to us leaves a gap that only a full window (64) closes.
   `HandedOutWhenUndisturbed` is what does hold: with a counter that is ours
   alone, every signal is handed out.
4. *The floor of a token is always 0* (`resume_floor`). `admit` grants a first
   admission with floor 0 and copies the floor on each resume; nothing ever writes
   the participant's sequence into it, so adopting it changes nothing.
5. *A streaming session is silent* (`stream_silence`). `run_streamed` has no
   keepalive task, though two comments speak of one, so anyone who sweeps makes a
   streaming participant absent while it runs.

Noted while modelling, without a run:

* *The resume secret is no secret* (main.rs:430-438). `ce-meet host` derives the
  MAC secret of its resume tokens from a fixed string and its own node id, and the
  node id is what every joiner passes as `--host`. The comment beside it says the
  secret "never leaves the host", and also that "(A production host
  would persist a dedicated secret.)" So a MAC that re-derives is no proof that this
  host issued the token, and the hypothesis `SecretKept` of
  `AdmittedWithAuthority`, `OnlyHoldersEnter`, `LapsedStayOut` and
  `AnswersNeverMoveCounters` is one that **`ce-meet host` does not establish**: for
  it these four say nothing. They speak of a host that gives `Admitter::new` a
  secret of its own, as admit.rs:52-53 asks ("keep it private to the host"). The properties of the limiter, of the
  relay and of its ranking, and the types, do not need the hypothesis.
* *Roster.* A keepalive of an absent or unknown member reports `Refreshed`
  (room.rs:328 against :119); a keepalive that overtakes the Join loses the
  display name the Join carries (room.rs:354); merges leave the media of known
  members alone (room.rs:544 against docs/architecture.md:67-76); a counter
  resumed from a snapshot that is older than the last publish uses numbers again
  (room.rs:586 against :579-582).
* *Signals.* A signal dropped as stale leaves a gap that later ones wait behind,
  and one may go stale in the buffer and is then handed out (client.rs:338
  against src/README.md:58-59); a second copy of the signal that bears u64::MAX would
  be released again (order.rs:138), which no counter can reach; `publish` checks
  the bounds of fields but not the size of the envelope, which receivers do.
* *Sessions.* The event loop ends at an `EndRoom` of anybody (client.rs:297-301),
  and so does `Room::apply` end the room, although src/README.md:53-55 has recipients
  honour it only from a sender with `meet:host` or `meet:moderate` and
  proto.rs:175-176 requires `meet:host`: nothing on the path asks the recipient's
  gate. `StreamEndsWithRoom` asks only whether the host's `EndRoom` ends a
  streaming session; it claims nothing of one from somebody else. A polling
  session goes on after the room ended (client.rs:297), and
  Ctrl-C ends it without a Leave; whoever ends a room does not end its own
  session, which drops its own echo; a session that comes back starts at 0 and is
  not shown until its counter passes the earlier one's (`RejoinIsShown` says that
  it is then); `control hand` followed by `control hand --down` both bear number
  0, so the second is ignored (main.rs:353).
* *Admission.* Revocations are read once, and a failing query counts as none
  (main.rs:427); each resume issues a new token, so a chain that is gone can be
  outlived by resuming in time (`AdmittedWithAuthority` states exactly this).
* *Relays.* A reputation of NaN makes the choice depend on the order of discovery
  (turn.rs:228).
* *Store.* A failed save leaves its temporary file; the directory sync is best
  effort, so a save that returned may be undone by a power failure
  (`SettledSavesSurvive` covers those whose sync succeeded); two saves of one
  process with the same `next_seq` share a temporary name (room.rs:635).

### Bounds, and why they suffice

* `SpokenKinds`: registers of different members do not interact except through
  the cap. In `gossip` the talker has the kinds that write registers with two of
  the three media dimensions (the third is the same code); the other speaker has
  the third, the kinds that leave registers alone, and a Join that competes for
  the one slot.
* `MaxSends`, `MaxPublished` (2 or 3): a register compares two numbers; three
  envelopes give older, equal and newer, in every order, with duplicates.
* `U64Max` (3; 6 or 7 elsewhere) stands for u64::MAX; in `gossip` and `inbox`
  numbers reach it. Arithmetic saturates at it as in the code.
* `Times` (two readings) orders any two stamps; `StaleSecs` 0 makes a sweep bite.
* `recovery` has two nodes, each keeping snapshots. Three rooms merging are the
  theorem `MergesReconcile`.
* `Window`, `Offerable`: the window (3) is small enough to fill while numbers
  ahead and behind are left. `Offerable` leaves out u64::MAX: `next_outbound_seq`
  would overflow on allocating it.
* `MaxOthers` 1, `MaxTime` 2, `Skews` {0, 2}: one foreign number, and a signal
  that is fresh, stale, or from beyond the slack.
* `Saves` (3), `Blocks` (2): a file is empty, torn or whole, and of three saves
  one can be settled, one renamed and one under way.
* `admission`: a window of 2 s, a lifetime of 2 s for tokens and of 1 s for
  credentials, and a chain valid until second 1 all end within `MaxTime` 3; two host
  starts put a restart between admission and resume. `AliceAsks` 2: admitted, then
  resumed. `OtherTokens` has one of another host's tokens and one whose expiry was
  put off; both satisfy `SecretKept`, so the hypothesis is true and the property not
  vacuous. `Capacity` and `MaxTracked` 1 are reached by two joiners. With a capacity
  of 1, `LetThroughBounded` only says that two passes are a window apart; that a
  larger capacity can at most double at a window's boundary is `PassesAreBounded`,
  for every capacity.
* `session`: the second session's budget (4) passes the first's (2); `StaleSecs`
  1 with `MaxTime` 2 allows a sweep of what was once shown; `Cycles` 0 and 1 are
  the unbounded and the bounded loop.

The theorems of the next section drop all of these.

### Fairness

* `FairFlowSpec`: each published signal arrives at least once (weak fairness of
  the first `Ingest` of it). That is an assumption on the network, the strongest
  case for the code, made to ask whether the *receiver* may withhold what
  arrived. Nobody is assumed to send, tick or poll in time.
* `FairSpec` of `CommandLine`: the polling loop goes round and a publish succeeds
  now and then (it sleeps between turns and waits for nobody); a session that
  left its loop sends its Leave and ends (straight-line code); an `EndRoom`
  published while a streaming session listens reaches it (the subscription the
  node keeps); the observer receives what is published. Sweeps, time, commands
  and kills need not happen.

Safety properties are checked without fairness.

## 4. What is proved

All theorems hold for every set of nodes, every cap, window and bound; they
assume only the `ASSUME`s of the modules (types of the constants; for the ranking,
that the candidates are finitely many and their measures integers), and what a
statement says itself: that the MAC secret of resume tokens is known to the host
alone (`SecretKept`: in the statement of `AdmittedWithAuthority`, hence
`AdmissionNeedsAuthority`, and an assumption of `OnlyHoldersEnter`, `LapsedStayOut`
and `AnswersNeverMoveCounters`; section 3 says why `ce-meet host` does not meet it),
that the nodes are finitely many (`RefusalsAreJustified`,
`OnlyMergesOverfill`), that a sweep's argument is not 0 (`PollersStayShown` and
those resting on it), that relays have distinct node ids (`HostsAgree`; the code
breaks its last tie by node id). Three theorems state a liveness property under a
hypothesis on delivery or progress, explained at the end of this section.

| module | theorem | property, or what it says |
|---|---|---|
| `RoomReplicasProofs` | `TypeCorrect` | `TypeOK` |
| `RoomReplicasProofs` | `RosterIsLastWord` | `PresenceIsLastWord` |
| `RoomReplicasProofs` | `ReplicasConverge` | `Convergence` |
| `RoomReplicasProofs` | `SeqsAreUnique` | `SeqNamesOneSignal` |
| `RoomReplicasProofs` | `MediaAreLastWord` | `MediaIsLastWord` |
| `RoomReplicasProofs` | `HearingStaysWithinCap` | `RosterWithinCap` |
| `RoomReplicasProofs` | `RegistersAdvance` | `RegistersOnlyAdvance` |
| `RoomReplicasProofs` | `TilesFollowEffects` | `EffectsTrackPresence` |
| `RoomReplicasProofs` | `KeepalivesCount` | `EveryKeepaliveCounts` |
| `OrderedInboxProofs` | `InboxTypeCorrect` | `InboxTypeOK` |
| `OrderedInboxProofs` | `HandsOutInOrder` | `Ascending` |
| `OrderedInboxProofs` | `LosesNothingAhead` | `NothingLostAhead` |
| `OrderedInboxProofs` | `BufferStaysBounded` | `BufferBounded` |
| `OrderedInboxProofs` | `GapsAreWaitedFor` | `GapGivenUpOnlyWhenFull` |
| `OrderedInboxProofs` | `InboxImplementsStream` | `ImplementsStream` |
| `RoomRecoveryProofs` | `RecoveryTypeCorrect` | `RecoveryTypeOK` |
| `RoomRecoveryProofs` | `LeaversStayGone` | `NoResurrection` |
| `RoomRecoveryProofs` | `SnapshotsAreBelieved` | `SavedBelief` |
| `RoomRecoveryProofs` | `ReplicasAgreeThroughRecovery` | Through sweeps, restarts and merges, replicas that took in the same assertions of a node hold the same seq for it, and neither shows it present against a Leave of that seq. |
| `RoomRecoveryProofs` | `MediaSurviveRecovery` | Live and on disk, each media register is what the member last signalled of it among what was taken in, whatever is swept, restarted or merged and however numbers repeat. |
| `RoomRecoveryProofs` | `OnlyRestartsTakeBack` | `OnlyRestartsGoBack` |
| `RoomRecoveryProofs` | `OnlyNewerWordsRevive` | Outside a restart an absent member becomes present only by an assertion with a higher seq, never by a duplicate, a tie or a merge with a replica that still believed in it. |
| `RoomRecoveryProofs` | `OnlyMergesOverfill` | With finitely many nodes, no roster within its cap leaves it except by a merge or by restoring a snapshot. |
| `RoomRecoveryProofs` | `MergesReconcile` | `MergeReconciles` |
| `RoomRecoveryProofs` | `TilesFollowReports` | `EffectsTrackPresence` |
| `SignalFlowProofs` | `FlowTypeCorrect` | `FlowTypeOK` |
| `SignalFlowProofs` | `NothingFromTheFuture` | `NotFromTheFuture` |
| `SignalFlowProofs` | `BacklogBounded` | `FewerThanAWindowWait` |
| `SignalFlowProofs` | `FlowImplementsInbox` | Every step of the flow is a step of the reorder buffer or leaves it alone, so all that is proved of the buffer holds of a live stream. |
| `SignalFlowProofs` | `FlowIsInOrder` | `ImplementsStream` |
| `SignalFlowProofs` | `NothingWaitsUndisturbed` | While the counter is ours alone and nothing arrives stale or a window late, a signal whose predecessors have arrived is handed out on arrival. |
| `SignalFlowProofs` | `DeliveredIsHandedOut` | `HandedOutWhenUndisturbed` |
| `SnapshotStoreProofs` | `TypeCorrect` | `TypeOK` |
| `SnapshotStoreProofs` | `SettledSavesAreKept` | `SettledSavesSurvive` |
| `SnapshotStoreProofs` | `Refinement` | `ImplementsAtomicSnapshot` |
| `AdmissionProofs` | `AdmissionTypeCorrect` | `TypeOK` |
| `AdmissionProofs` | `TableStaysBounded` | `TableBounded` |
| `AdmissionProofs` | `PassesAreBounded` | `LetThroughBounded` |
| `AdmissionProofs` | `RefusalsAreJustified` | `RefusalsJustified` |
| `AdmissionProofs` | `AdmissionNeedsAuthority` | `AdmittedWithAuthority` |
| `AdmissionProofs` | `OnlyHoldersEnter` | Assuming SecretKept (the host's MAC secret is known to it alone): whoever a closed room admitted, has a session there or an allocation at the relay, holds a chain of its own that grants meet:join. |
| `AdmissionProofs` | `LapsedStayOut` | Assuming SecretKept: a node whose chains have expired and whose last admission is older than a token lasts is never admitted again, with any token that was issued, lent or altered, and across host restarts. |
| `AdmissionProofs` | `AnswersNeverMoveCounters` | Assuming SecretKept: no answer to a resume ever moves a counter; only publishing and restarting do. |
| `AdmissionProofs` | `RelayingExpires` | `RelayedInTime` |
| `AdmissionProofs` | `LatencyDominates` | A candidate that scores no worse than another is at most a quarter further away, whatever reputations are reported. |
| `AdmissionProofs` | `RankingIsTotal` | The comparison of select_relay is a strict total order on candidates with distinct node ids. |
| `AdmissionProofs` | `BestRelayIsNear` | `RelayIsNear` |
| `AdmissionProofs` | `HostsAgree` | `RankingsAgree` |
| `CommandLineProofs` | `SessionTypeCorrect` | `SessionTypeOK` |
| `CommandLineProofs` | `PollersStayShown` | `PollingStaysShown` |
| `CommandLineProofs` | `CaughtUpAreShown` | Once its number has passed those of the earlier processes and everything was heard, a polling session is shown, whatever was reordered or swept before. |
| `CommandLineProofs` | `RejoinersAreShown` | `RejoinIsShown` |
| `CommandLineProofs` | `EndedRoomEndsStreams` | `StreamEndsWithRoom` |

**Rosters** (`RosterProofs`, `RoomReplicasProofs`). Lemmas first say what each
operator of `Roster` does to one member (`LwwMemberFacts`, `MediaMemberFacts`,
...), then to a room: an arm of `apply` writes nobody but the sender and adds it
only to a free slot (`TouchesOnly`). `PresenceIsLastWord` alone is not inductive:
the first assertion of an unknown node is taken as it is, so one must know that
nothing had been heard of that node. `PresenceInv` adds that everything heard is
from a known member. `Convergence` follows from it without a further induction: a
register above 0 is determined by the set of assertions. For media, the invariant
names the latest signal (`DimReflects`). For the cap, rosters must be known to be finite (`CapInv`).

**Recovery** (`RoomRecoveryProofs`). A restart makes a room of a snapshot and a
merge mixes one in, so `NoResurrection` is only inductive together with the same
of everything on disk: `BeliefInv` grounds live rooms and snapshots alike in what
was heard before them, and says that nothing was taken in of a node that is not
a member (`Grounded`), which is why a first record may be taken as it is. The
register and the merge follow one rule, the higher number wins and a tie is
present only if both are; `BelievedJoin` proves it once for both. The same rule
makes `MergeMember` commutative and associative in presence and number, lifted
member by member to rooms for `MergeReconciles`. `PresenceIsLastWord` itself does
not survive here: a sweep makes a member absent that never left.
`EffectsTrackPresence` does: what a sweep and a merge report is exactly whose
presence flips (`SweptPresence`, `MergedPresence`).
What of convergence survives is `ReplicasAgreeThroughRecovery`: `BeliefInv` says
that a register is at the highest assertion taken in and present against no Leave
of that number, so equal assertions give equal numbers; presence may differ by a
sweep alone. Media need an invariant of their own, `MediaKept`: each dimension
reflects the latest signal taken in, live and on disk; a sweep leaves media alone
(`PruneMedia`), a merge copies them only for members unknown before, of whom
nothing had been taken in (`MergeMedia`), and numbers may repeat, as a participant
may start afresh. `RoomsAdvance` says once for all steps but a restart that no
register goes back and that an absent member comes back only with a higher number;
`OnlyRestartsTakeBack` and `OnlyNewerWordsRevive` are two readings of it.
`OnlyMergesOverfill` is the other half of the finding `merge_cap`: nothing but the
two ways that copy members without asking for a slot gets past the cap.

**The store** (`SnapshotStoreProofs`). `Durable` says that every file the
destination may name, now or after a power failure, was synced, and that a synced
file is whole: then `Loaded` is never "malformed" and each step is a `Replace`, a
`Settle`, a `FallBack` or a stutter of `AtomicSnapshot`. For `SettledSavesSurvive`,
`Survival` adds the same of every file in `onDisk`, since a power failure may pick
any of them.

**The reorder buffer** (`OrderedInboxProofs`). `InboxInv`: what was handed out
lies below `next`, what is held above, and an unanchored buffer stands at 0. The
lemma `StepDrainsOrReturns` reduces every call to "nothing happens" or a drain
from an admissible floor, and `DrainKeepsInv` treats that once. The same lemma
gives the refinement of `InOrderStream`; the bound on the buffer is the invariant
with a cardinality argument per outcome (`SizeStep`).

**The flow** (`SignalFlowProofs`). A step of `SignalFlow` is a step of the inbox
or leaves it alone, so the inbox's invariant is reused. `FlowInv` adds that what
was offered was fresh when it arrived and that time only goes on, hence
`NotFromTheFuture` also for what is held back; everything waiting beyond what was
handed out is in the buffer, which gives `FewerThanAWindowWait`. A dropped signal
is a `SkipTo(next)` that does nothing or a stutter, so the flow implements
`OrderedInbox` (`FlowImplementsInbox`) and with it `InOrderStream`.
`NothingWaitsUndisturbed` needs two more invariants: the peer's numbers are taken
one by one (`NumbersInv`), and while the stream is undisturbed everything below the
floor was handed out (`NoGap`), since the buffer gives a gap up only with a window
of signals in hand, which `Undisturbed` excludes.

**Admission** (`AdmissionProofs`). `LimiterInv` relates the limiter's entry of a
sender to the ledger of what passed (`Ledger`): its count is the number of passes
since the window began, earlier passes lie before it, and a sender without an
entry has only passes a window old. That is what lets an eviction forget without
letting more through, and what makes a full table a reason. Under
`SecretKept`, every token whose MAC re-derives was issued by an admission of the
node it names no longer than `ResumeTtl` before its expiry (`Genuine`), wherever it
is: kept by anyone or inside a request under way. That is the part of the invariant
`AdmittedWithAuthority` needs, and the only one that needs the hypothesis.
`RelayedInTime` needs that every TURN password of the relay's secret was minted
(`FromMint`). `OnlyHoldersEnter` carries authority through chains of
renewals: a token verifies only for the node it was issued to, and that node was
admitted before. `LapsedStayOut` reads the same step lemma (`AuthorityStep`)
forwards: to be admitted takes a chain that has not expired or a recent admission,
and neither comes back. `AnswersNeverMoveCounters` is why `resume_floor` fails:
every token the host issued carries the floor 0.

**The ranking** (`AdmissionProofs`). `LatencyDominates` and `RankingIsTotal` are
about the comparison, `BestRelayIsNear` and `HostsAgree` about what `select_relay`
returns of a whole list. `SelectRelay` folds `InsertAt` over the candidates; that a
fold keeps its accumulator sorted, with the same elements, would be an induction
over the list. The library's induction theorems take an operator and cannot be
used, so the proofs go by the least counterexample: `LeastNatural`, from the
well-foundedness of < on the naturals, gives the least length at which the fold
is wrong, which is not 0, and one less is right. Two sorted lists of the same
elements under a strict total order agree, again at the least position where
they would differ.

**The command line** (`CommandLineProofs`). `PollingStaysShown` rests on four
parts: what a session says is in the order of its numbers (`SaidInv`), it says
something each second (`PaceInv`), the observer's record is at the latest number
heard with its time (`AtLatest`), and that number is one of an envelope heard
(`Grounded`). A record can be absent at a number that a Leave or an earlier
process also bears; but if one assertion of presence alone bears it, only a sweep
made it absent and that assertion is old (`SweptWhenOld`). The last second's
keepalive, which an up-to-date observer heard, contradicts that.
`CaughtUpAreShown` adds that a session which never failed to publish said what
bears its latest number (`LatestInv`): once that is past all others and heard, the
observer is up to date. `EndedRoomEndsStreams` needs that a session is only due to
end while an EndRoom of somebody else is published (`DueInv`), and that nothing but
its end makes it no longer due.

**Liveness, and what is only model-checked.** What a weakly fair step brings about
depends on when it is enabled, and `ENABLED` is out of the prover's reach. The three
liveness properties are therefore proved from a hypothesis that says outright what
fairness is there to give, and TLC checks them, from the fairness itself, on the
instances:

* `DeliveredIsHandedOut`: every signal and those before it arrive in the end.
* `RejoinersAreShown`: a session that goes on polling without failures catches up.
  With finite bounds this is not so for every value of the constants (a second
  session with a smaller budget than the first never passes it), so the property
  cannot be a theorem without it.
* `EndedRoomEndsStreams`: an EndRoom that is there to be seen for ever is seen, that
  is `WF_vars(SessionSeesEnd)` with its enabling condition written out.

## 5. Not modelled

* The ce-cap library behind `Gate`, HMACs and node identities: external, present
  only as constants and as tuples that re-derive if and only if their parts agree.
  No step of the model makes a token but `Serve`: what joiners hold from elsewhere is
  the constant `OtherTokens`. Instances in which it breaks `SecretKept`, as the host of
  the command line allows, are not checked.
* Length limits of names, SDP, tokens and envelopes (`validate`, `from_bytes`):
  data checks before any state is touched; a refused envelope is one that is not
  delivered, a refused publish is `SendFails`.
* Argument parsing, rendering, the caps file, `join`'s own request for admission
  beyond `RequestAdmission`, the commands that only print.
* Several rooms in one process: the topic and the first guard of `apply` separate
  them, and nothing is shared.
* f64 rounding and NaN in relay scores: scores are exact integers.
* The example and the crate root: no state of their own.

## 6. What is left

* `CommandLine` has one observer and a user whose sessions follow each other; two
  sessions of one node at a time, whose counters interleave, are not modelled.
* The composition of `Admission` with `RoomReplicas`: an admitted client publishes
  numbers only; that a non-admitted node's envelopes are applied as well (pubsub
  is open to who knows the topic) is visible in `RoomReplicas`, where nobody is
  asked for admission.
* Host failover over `SnapshotStore`: `RoomRecovery` saves atomically, which
  `SnapshotStore` justifies; the two are not composed.
