---------------------------- MODULE CommandLine ----------------------------
(***************************************************************************)
(* One user of the command line (src/src/main.rs): the sessions of         *)
(* `ce-meet join`, streaming or polling, with `control`, `signal` and      *)
(* `moderate` run beside them, each a process with a MeetClient and hence  *)
(* a counter of its own; and what an observer, an application on the       *)
(* library that sweeps its roster, makes of what they publish.             *)
(*                                                                         *)
(* Pubsub is the set of everything published, as in RoomReplicas.  A second *)
(* passes by Tick; a poll cycle with its sleep takes no longer than that.  *)
(***************************************************************************)
EXTENDS Roster

CONSTANTS
  Me,          \* the user's node
  Host,        \* somebody else, who may end the room
  StaleSecs,   \* the observer's argument of prune_stale
  Modes,       \* the modes sessions run in, "stream" or "poll"
  Cycles,      \* the values of --cycles, 0 = until interrupted
  Budget,      \* bound: Budget[k] numbers for the k-th session
  CommandKinds,\* bound: the signals of the commands run beside sessions, none a presence
  MaxCommands, \* bound: how many of them are run
  MaxTime      \* bound: the last second

ASSUME CommandLineAssumption ==
  /\ Me \in Nodes /\ Host \in Nodes /\ Me # Host
  /\ StaleSecs \in Nat /\ Cycles \subseteq Nat /\ MaxCommands \in Nat /\ MaxTime \in Nat
  /\ Modes \subseteq {"stream", "poll"}
  /\ \A k \in DOMAIN Budget : Budget[k] \in 1 .. U64Max
  /\ CommandKinds \subseteq Kinds \ PresenceKinds

VARIABLES
  now,       \* the second it is
  session,   \* the running join process
  sessions,  \* how many were started
  commands,  \* how many commands were run
  published, \* every envelope the user and the host published
  heard,     \* history: those the observer received
  view       \* the observer's Room

vars == <<now, session, sessions, commands, published, heard, view>>

\* left: the cycles it has left, 0 = any number; said: what it published;
\* failed: whether a publish of it failed; cycled: whether its loop went round
\* this second; due: the room was ended while it ran.
NoSession == [phase |-> "out", mode |-> "poll", next_seq |-> 0, left |-> 0,
              said |-> {}, failed |-> FALSE, cycled |-> FALSE, due |-> FALSE]

SessionTypeOK ==
  /\ now \in 0 .. MaxTime
  /\ session.phase \in {"out", "in", "leaving"}
  /\ session.mode \in {"stream", "poll"}
  /\ session.next_seq \in Seqs
  /\ published \subseteq Envelopes /\ heard \subseteq published
  /\ session.said \subseteq {e \in published : e.from = Me /\ e.seq < session.next_seq}
  /\ \A e, f \in session.said : e.seq = f.seq => e = f
  /\ view \in Rooms /\ view.known \subseteq {Me}

Init ==
  /\ now = 0 /\ session = NoSession /\ sessions = 0 /\ commands = 0
  /\ published = {} /\ heard = {}
  /\ view = NewRoom(DefaultMaxMembers)

Envelope(from, seq, kind, body) ==
  [from |-> from, seq |-> seq, sent_at |-> now, kind |-> kind, body |-> body]

-----------------------------------------------------------------------------
(* Sessions: join and run_streamed *)

\* Wrong variant: the counter stands still.
SayOnlyReads(s, kind) ==
  LET e == Envelope(Me, s.next_seq, kind, NoName)
  IN  published' = published \cup {e} /\ session' = [s EXCEPT !.said = @ \cup {e}]

\* The session takes its next number and publishes, or fails to.
Say(s, kind) ==
  LET e == Envelope(Me, s.next_seq, kind, NoName)
  IN  \/ /\ published' = published \cup {e}
         /\ session' = [s EXCEPT !.next_seq = @ + 1, !.said = @ \cup {e}]
      \/ /\ published' = published
         /\ session' = [s EXCEPT !.next_seq = @ + 1, !.failed = TRUE]

\* A new client, subscribed; announce_join.  A process that fails before is none.
Join ==
  /\ session.phase = "out" /\ sessions + 1 \in DOMAIN Budget
  /\ sessions' = sessions + 1
  /\ \E mode \in Modes : \E cycles \in IF mode = "poll" THEN Cycles ELSE {0} :
       LET e == Envelope(Me, 0, "Join", NoName)
       IN  /\ session' = [NoSession EXCEPT !.phase = "in", !.mode = mode,
                            !.left = cycles, !.next_seq = 1, !.said = {e}, !.cycled = (mode = "poll")]
           /\ published' = published \cup {e}
  /\ UNCHANGED <<now, commands, heard, view>>

Polling == session.phase = "in" /\ session.mode = "poll"
Streaming == session.phase = "in" /\ session.mode = "stream"

\* Wrong variant: the polling loop sends nothing.
PollCycleSilent ==
  /\ Polling
  /\ session' = [session EXCEPT !.cycled = TRUE]
  /\ UNCHANGED <<now, sessions, commands, published, heard, view>>

\* One turn of the polling loop: a keepalive whose failure is ignored, and
\* poll, whose effects are only printed: an ended room does not end the loop.
\* The last of its cycles does.
PollCycle ==
  /\ Polling
  /\ session.next_seq < Budget[sessions]
  /\ Say([session EXCEPT !.cycled = TRUE,
                         !.left = IF @ = 0 THEN 0 ELSE @ - 1,
                         !.phase = IF session.left = 1 THEN "leaving" ELSE @], "Keepalive")
  /\ UNCHANGED <<now, sessions, commands, heard, view>>

\* Wrong variant: the event loop only prints that the room ended.
StreamSeesEndGoesOn(e) ==
  /\ Streaming /\ e.kind = "EndRoom" /\ e.from # Me
  /\ UNCHANGED vars

\* event_loop breaks at an EndRoom that is not our own echo.
StreamSeesEnd(e) ==
  /\ Streaming /\ e.kind = "EndRoom" /\ e.from # Me
  /\ session' = [session EXCEPT !.phase = "leaving"]
  /\ UNCHANGED <<now, sessions, commands, published, heard, view>>

\* The stream ends, or Ctrl-C: run_streamed returns in either case.
StreamEnds ==
  /\ Streaming
  /\ session' = [session EXCEPT !.phase = "leaving"]
  /\ UNCHANGED <<now, sessions, commands, published, heard, view>>

\* announce_leave, whose failure is ignored; the process ends.
Leave ==
  /\ session.phase = "leaving"
  /\ session' = NoSession
  /\ \/ published' = published \cup {Envelope(Me, session.next_seq, "Leave", NoName)}
     \/ published' = published
  /\ UNCHANGED <<now, sessions, commands, heard, view>>

\* The process is killed; while it polls, Ctrl-C does that.
Killed ==
  /\ session.phase # "out"
  /\ session' = NoSession
  /\ UNCHANGED <<now, sessions, commands, published, heard, view>>

-----------------------------------------------------------------------------
(* control, signal, moderate: a new client that publishes once, at seq 0 *)

Command(n, kind) ==
  /\ commands < MaxCommands
  /\ commands' = commands + 1
  /\ \E body \in BodiesOf(kind) : published' = published \cup {Envelope(n, 0, kind, body)}
  /\ session' = [session EXCEPT !.due = @ \/ (session.phase = "in" /\ n = Host /\ kind = "EndRoom")]
  /\ UNCHANGED <<now, sessions, heard, view>>

-----------------------------------------------------------------------------
(* The observer and time *)

Receive(e) ==
  /\ heard' = heard \cup {e}
  /\ view' = Apply(view, e)
  /\ UNCHANGED <<now, session, sessions, commands, published>>

Sweep ==
  /\ view' = PruneStale(view, now, StaleSecs)
  /\ UNCHANGED <<now, session, sessions, commands, published, heard>>

Tick ==
  /\ now < MaxTime
  /\ Polling => session.cycled
  /\ now' = now + 1
  /\ session' = [session EXCEPT !.cycled = FALSE]
  /\ UNCHANGED <<sessions, commands, published, heard, view>>

Next ==
  \/ Join \/ PollCycle \/ StreamEnds \/ Leave \/ Killed
  \/ \E e \in published : StreamSeesEnd(e)
  \/ \E kind \in CommandKinds : Command(Me, kind)
  \/ Command(Host, "EndRoom")
  \/ \E e \in published : Receive(e)
  \/ Sweep \/ Tick

Spec == Init /\ [][Next]_vars

\* The loops go on, the node publishes now and then, and what is published
\* while a client listens reaches it.
CycleThatPublishes == PollCycle /\ ~session'.failed
SessionSeesEnd == session.due /\ \E e \in published : StreamSeesEnd(e)
SomethingNew == \E e \in published \ heard : Receive(e)

FairSpec ==
  /\ Spec
  /\ WF_vars(CycleThatPublishes) /\ WF_vars(Leave)
  /\ WF_vars(SessionSeesEnd) /\ WF_vars(SomethingNew)

-----------------------------------------------------------------------------
(* Properties *)

Shown == Me \in Present(view)

(* A polling session is shown sooner or later although its counter starts  *)
(* below the numbers of an earlier session, or behind a command that left  *)
(* a placeholder: its keepalives climb past them.                          *)
RejoinIsShown == Polling /\ ~session.failed ~> Shown \/ ~Polling \/ session.failed

(* Ending the room ends a streaming session that listens (client.rs:216,   *)
(* "other clients tear down on receipt").                                  *)
StreamEndsWithRoom == Streaming /\ session.due ~> ~Streaming

\* The observer is up to date: it heard what was published before this second,
\* and of the session something past all it heard of other processes.
UpToDate ==
  /\ ~session.failed
  /\ \A e \in session.said : e.sent_at < now => e \in heard
  /\ \E e \in session.said \cap heard :
       \A f \in heard \ session.said : f.from = Me => f.seq < e.seq

(* While a session polls, an observer that is up to date shows it: the     *)
(* keepalives come often enough for any sweep, in whatever order they and  *)
(* those of earlier sessions arrive.                                       *)
PollingStaysShown == Polling /\ UpToDate => Shown

-----------------------------------------------------------------------------
(* What a comment says and the code does not do *)

(* main.rs:258-259: "A keepalive task runs alongside so peers do not prune *)
(* us": the same of a streaming session.                                   *)
StreamingStaysShown == Streaming /\ UpToDate => Shown
=============================================================================
