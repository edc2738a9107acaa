------------------------- MODULE CommandLineProofs -------------------------
(***************************************************************************)
(* Theorems about CommandLine: an observer that is up to date shows a      *)
(* polling session, for every sweep argument but 0, every interleaving     *)
(* with earlier sessions and with commands, and every bound; a rejoin is   *)
(* shown once it has caught up; and an EndRoom that is seen ends a stream. *)
(***************************************************************************)
EXTENDS CommandLine, RosterProofs

-----------------------------------------------------------------------------
(* The invariant *)

Sessions == [phase : {"out", "in", "leaving"}, mode : {"stream", "poll"},
             next_seq : Seqs, left : Nat, said : SUBSET Envelopes,
             failed : BOOLEAN, cycled : BOOLEAN, due : BOOLEAN]

\* Types, and what is published: presence by the user's sessions, signals of
\* the user's commands at seq 0, the end of the room by the host.
Published(e) ==
  /\ e.from = Me \/ e.kind = "EndRoom"
  /\ e.from = Me /\ e.kind \notin PresenceKinds => e.seq = 0

BaseInv ==
  /\ SessionTypeOK
  /\ session \in Sessions
  /\ session.phase = "in" => sessions \in DOMAIN Budget
  /\ \A e \in published : Published(e)

\* A session says that it is present, in the order of its numbers.
SaidInv == \A e \in session.said :
  /\ AssertsPresent(e) /\ e.sent_at <= now
  /\ \A f \in session.said : e.seq <= f.seq => e.sent_at <= f.sent_at

\* It says so every second.
PaceInv == Polling /\ ~session.failed =>
  /\ session.cycled => \E e \in session.said : e.sent_at = now
  /\ \/ \E e \in session.said : e.sent_at + 1 = now
     \/ session.cycled /\ \A e \in session.said : e.sent_at = now

Mine(ro) == ro.members[Me]

Presence(e) == e.from = Me /\ e.kind \in PresenceKinds

\* The register of the user is at the latest number heard, with its time; it
\* is absent although one presence alone bears that number only if a sweep
\* found that one old.
AtLatest(ro, list) == \A e \in list : Presence(e) =>
  /\ Me \in ro.known /\ e.seq <= Mine(ro).last_seq
  /\ e.seq = Mine(ro).last_seq => e.sent_at <= Mine(ro).last_seen

Grounded(ro, list) == Me \in ro.known =>
  \E f \in list : f.from = Me /\ f.seq = Mine(ro).last_seq

OnlyOne(e, ro, list) ==
  /\ Presence(e) /\ AssertsPresent(e) /\ e.seq = Mine(ro).last_seq
  /\ \A f \in list : f.from = Me /\ f.seq = Mine(ro).last_seq => f = e

SweptWhenOld(ro, list, at) == Me \in ro.known /\ ~Mine(ro).present =>
  \A e \in list : OnlyOne(e, ro, list) => at > e.sent_at + StaleSecs

ViewInv == AtLatest(view, heard) /\ Grounded(view, heard) /\ SweptWhenOld(view, heard, now)

IInv == BaseInv /\ SaidInv /\ PaceInv /\ ViewInv

-----------------------------------------------------------------------------
(* Envelopes and sessions *)

LEMMA EnvelopeType ==
  ASSUME NEW from \in Nodes, NEW seq \in Seqs, NEW kind \in Kinds, NEW body \in BodiesOf(kind),
         now \in Nat
  PROVE  LET e == Envelope(from, seq, kind, body)
         IN  /\ e \in Envelopes
             /\ e.from = from /\ e.seq = seq /\ e.sent_at = now /\ e.kind = kind
<1>1. body \in Payloads
  BY MediaAssumption DEF BodiesOf, Payloads
<1> QED  BY <1>1 DEF Envelope, Envelopes

\* What a session publishes bears NoName.
LEMMA PresenceEnvelope ==
  ASSUME NEW seq \in Seqs, NEW kind \in PresenceKinds, now \in Nat
  PROVE  LET e == Envelope(Me, seq, kind, NoName)
         IN  /\ e \in Envelopes /\ Published(e) /\ Presence(e)
             /\ e.from = Me /\ e.seq = seq /\ e.sent_at = now /\ e.kind = kind
<1>1. kind \in Kinds /\ NoName \in BodiesOf(kind) /\ Me \in Nodes
  BY CommandLineAssumption DEF PresenceKinds, Kinds, BodiesOf, MediaKinds
<1> DEFINE e == Envelope(Me, seq, kind, NoName)
<1>2. /\ e \in Envelopes
      /\ e.from = Me /\ e.seq = seq /\ e.sent_at = now /\ e.kind = kind
  BY <1>1, EnvelopeType
<1> HIDE DEF e
<1>3. Published(e) /\ Presence(e)
  BY <1>2 DEF Published, Presence
<1> QED  BY <1>2, <1>3 DEF e

LEMMA NoSessionType == NoSession \in Sessions
<1>1. 0 \in Seqs
  BY U64Assumption DEF Seqs
<1> QED  BY <1>1 DEF NoSession, Sessions

\* A session out of the way leaves no obligation.
LEMMA OutOfTheWay ==
  ASSUME session = NoSession
  PROVE  SaidInv /\ PaceInv
  BY DEF NoSession, SaidInv, PaceInv, Polling

-----------------------------------------------------------------------------
(* The observer's register *)

(* What an envelope of the user makes of the observer's record of it.      *)
Heeds(ro, after, x) ==
  LET m == Mine(ro)
      k == Mine(after)
  IN  /\ after \in Rooms /\ after.known \subseteq {Me}
      /\ Me \in ro.known =>
           /\ Me \in after.known /\ k.last_seen >= m.last_seen
           /\ x.kind \in PresenceKinds =>
                /\ k.last_seq = Later(m.last_seq, x.seq)
                /\ x.seq > m.last_seq => (k.present <=> AssertsPresent(x))
                /\ x.seq = m.last_seq => (k.present <=> m.present /\ AssertsPresent(x))
                /\ x.seq < m.last_seq => (k.present <=> m.present)
           /\ x.kind \notin PresenceKinds => SamePresence(k, m)
      /\ Me \notin ro.known =>
           /\ x.kind \in PresenceKinds =>
                Me \in after.known /\ k.last_seq = x.seq /\ (k.present <=> AssertsPresent(x))
           /\ x.kind \notin PresenceKinds /\ Me \in after.known => k.last_seq = 0
      /\ x.kind \in PresenceKinds /\ x.seq >= k.last_seq => k.last_seen >= x.sent_at

LEMMA FirstIsTracked ==
  ASSUME NEW ro \in Rooms, ro.known = {}, NEW x \in Envelopes, x.from = Me,
         x.kind \in PresenceKinds
  PROVE  Me \in Apply(ro, x).known
<1> DEFINE k == FirstPresence(x)
<1>1. Cardinality(ro.known) < ro.max_members
  BY FS_EmptySet, RoomFields
<1>2. Lww(ro, x) = Put(ro, Me, k)
  BY <1>1 DEF Lww, HasSlot
<1>3. k \in Members /\ Me \in Nodes
  BY FirstPresenceFacts, CommandLineAssumption
<1>4. Lww(ro, x) \in Rooms /\ Me \in Lww(ro, x).known
  BY <1>2, <1>3, PutFacts
<1>5. CASE x.kind \in {"Join", "Leave"}
  BY <1>4, <1>5, ApplyArms
<1>6. CASE x.kind = "Keepalive"
  <2>1. Touch(Lww(ro, x), Me, x.sent_at).known = Lww(ro, x).known
    BY <1>3, <1>4, EnvelopeFields, TouchFacts
  <2>2. Apply(ro, x).known = Lww(ro, x).known
    BY <1>6, <2>1, ApplyArms DEF Keepalive
  <2> QED  BY <1>4, <2>2
<1> QED  BY <1>5, <1>6 DEF PresenceKinds

LEMMA ApplyHeeds ==
  ASSUME NEW ro \in Rooms, ro.known \subseteq {Me}, NEW x \in Envelopes, x.from = Me
  PROVE  Heeds(ro, Apply(ro, x), x)
<1> DEFINE after == Apply(ro, x)
           m == Mine(ro)
           k == Mine(after)
<1>0. /\ Me \in Nodes /\ x.seq \in Nat /\ x.sent_at \in Nat
      /\ m \in Members /\ m.last_seq \in Nat /\ m.last_seen \in Nat
      /\ m = ro.members[x.from] /\ k = after.members[x.from]
  BY EnvelopeFields, RoomFields, MemberFields, SeqsAreNat DEF Mine
<1>1. /\ TouchesOnly(ro, after, Me)
      /\ x.kind \in PresenceKinds => AsPresence(ro, after, x)
      /\ x.kind \notin PresenceKinds \cup MediaKinds => AsPassing(ro, after, x)
  BY ApplyFacts
<1>2. after \in Rooms /\ after.known \subseteq {Me} /\ (Me \in ro.known => Me \in after.known)
  BY <1>1 DEF TouchesOnly
<1>3. k \in Members /\ k.last_seq \in Nat /\ k.last_seen \in Nat
  BY <1>0, <1>2, RoomFields, MemberFields, SeqsAreNat DEF Mine
<1>4. CASE x.kind \in PresenceKinds
  <2>1. AsPresence(ro, after, x)
    BY <1>1, <1>4
  <2>2. Me \in after.known
    BY <1>2, <1>4, FirstIsTracked
  <2>3. x.seq >= k.last_seq => k.last_seen >= x.sent_at
    BY <1>0, <1>4, <2>2, SeenByPresence
  <2>4. ASSUME Me \in ro.known
        PROVE  /\ k.last_seen >= m.last_seen
               /\ k.last_seq = Later(m.last_seq, x.seq)
               /\ x.seq > m.last_seq => (k.present <=> AssertsPresent(x))
               /\ x.seq = m.last_seq => (k.present <=> m.present /\ AssertsPresent(x))
               /\ x.seq < m.last_seq => (k.present <=> m.present)
    <3>1. SamePresence(k, LwwMember(m, x)) /\ k.last_seen >= m.last_seen
      BY <1>0, <2>1, <2>4 DEF AsPresence
    <3>2. k.present = LwwMember(m, x).present /\ k.last_seq = LwwMember(m, x).last_seq
      BY <3>1 DEF SamePresence
    <3> HIDE DEF m, k
    <3> QED  BY <1>0, <3>1, <3>2, LwwMemberFacts
  <2>5. ASSUME Me \notin ro.known
        PROVE  k.last_seq = x.seq /\ (k.present <=> AssertsPresent(x))
    <3>1. SamePresence(k, FirstPresence(x))
      BY <1>0, <2>1, <2>2, <2>5 DEF AsPresence
    <3>2. k.present = FirstPresence(x).present /\ k.last_seq = FirstPresence(x).last_seq
      BY <3>1 DEF SamePresence
    <3> HIDE DEF m, k
    <3> QED  BY <3>2, FirstPresenceFacts
  <2> HIDE DEF after, m, k
  <2> QED  BY <1>2, <1>4, <2>2, <2>3, <2>4, <2>5 DEF Heeds, m, k, after
<1>5. CASE x.kind \in MediaKinds
  <2>1. x.kind \notin PresenceKinds /\ after = MediaLww(ro, x)
    BY <1>5, ApplyArms DEF PresenceKinds, MediaKinds
  <2>2. ASSUME Me \in ro.known
        PROVE  k.last_seen >= m.last_seen /\ SamePresence(k, m)
    <3>1. k = MediaMember(m, x)
      BY <1>0, <1>5, <2>1, <2>2, MediaRoom
    <3>2. m \in Members
      BY <1>0
    <3> HIDE DEF m, k
    <3>3. /\ MediaMember(m, x).last_seen >= m.last_seen
          /\ MediaMember(m, x).present = m.present
          /\ MediaMember(m, x).last_seq = m.last_seq
      BY <1>5, <3>2, MediaMemberFacts
    <3> QED  BY <3>1, <3>3 DEF SamePresence
  <2>3. ASSUME Me \notin ro.known, Me \in after.known
        PROVE  k.last_seq = 0
    <3>1. k = Placeholder(x)
      BY <1>0, <1>5, <2>1, <2>3, MediaRoom
    <3> HIDE DEF m, k
    <3> QED  BY <1>5, <3>1, PlaceholderFacts
  <2> HIDE DEF after, m, k
  <2> QED  BY <1>2, <2>1, <2>2, <2>3 DEF Heeds, m, k, after
<1>6. CASE x.kind \notin PresenceKinds \cup MediaKinds
  <2>1. after.known = ro.known /\ SamePresence(k, m) /\ k.last_seen >= m.last_seen
    BY <1>0, <1>1, <1>6 DEF AsPassing
  <2> HIDE DEF after, m, k
  <2> QED  BY <1>2, <1>6, <2>1 DEF Heeds, m, k, after
<1> QED  BY <1>4, <1>5, <1>6

\* What the next lemmas assume: the observer heard list, and now hears x.
Hears(ro, list, x) ==
  /\ ro \in Rooms /\ ro.known \subseteq {Me}
  /\ list \subseteq Envelopes /\ x \in Envelopes /\ x.from = Me /\ Published(x)
  /\ AtLatest(ro, list) /\ Grounded(ro, list)

LEMMA HeardFields ==
  ASSUME NEW ro, NEW list, NEW x, Hears(ro, list, x)
  PROVE  /\ Heeds(ro, Apply(ro, x), x)
         /\ \A e \in list \cup {x} : e.seq \in Nat /\ e.sent_at \in Nat
         /\ Mine(ro).last_seq \in Nat /\ Mine(ro).last_seen \in Nat
         /\ Mine(ro).present \in BOOLEAN
         /\ Mine(Apply(ro, x)).last_seq \in Nat /\ Mine(Apply(ro, x)).last_seen \in Nat
         /\ Mine(Apply(ro, x)).present \in BOOLEAN
<1>1. ro \in Rooms /\ ro.known \subseteq {Me} /\ x \in Envelopes /\ x.from = Me /\ Me \in Nodes
  BY CommandLineAssumption DEF Hears
<1>2. Heeds(ro, Apply(ro, x), x)
  BY <1>1, ApplyHeeds
<1>3. \A e \in list \cup {x} : e.seq \in Nat /\ e.sent_at \in Nat
  BY EnvelopeFields, SeqsAreNat DEF Hears
<1>4. ASSUME NEW r \in Rooms
      PROVE  /\ Mine(r).last_seq \in Nat /\ Mine(r).last_seen \in Nat
             /\ Mine(r).present \in BOOLEAN
  <2>1. r.members[Me] \in Members
    BY <1>1, RoomFields
  <2> QED  BY <2>1, MemberFields, SeqsAreNat DEF Mine
<1>5. Apply(ro, x) \in Rooms
  BY <1>2 DEF Heeds
<1> QED  BY <1>1, <1>2, <1>3, <1>4, <1>5

LEMMA AtLatestStep ==
  ASSUME NEW ro, NEW list, NEW x, Hears(ro, list, x)
  PROVE  AtLatest(Apply(ro, x), list \cup {x})
<1> DEFINE after == Apply(ro, x)
           m == Mine(ro)
           k == Mine(after)
<1>1. /\ Heeds(ro, after, x)
      /\ \A e \in list \cup {x} : e.seq \in Nat /\ e.sent_at \in Nat
      /\ m.last_seq \in Nat /\ m.last_seen \in Nat
      /\ k.last_seq \in Nat /\ k.last_seen \in Nat
  BY HeardFields
<1>2. AtLatest(ro, list)
  BY DEF Hears
<1> HIDE DEF after
<1> SUFFICES ASSUME NEW e \in list \cup {x}, Presence(e)
             PROVE  /\ Me \in after.known /\ e.seq <= k.last_seq
                    /\ e.seq = k.last_seq => e.sent_at <= k.last_seen
  BY DEF AtLatest, after
<1>3. CASE e = x
  <2>1. x.kind \in PresenceKinds
    BY <1>3 DEF Presence
  <2>2. Me \in after.known
    BY <1>1, <2>1 DEF Heeds
  <2>3. x.seq <= k.last_seq
    <3>1. k.last_seq \in {x.seq, Later(m.last_seq, x.seq)}
      BY <1>1, <2>1 DEF Heeds
    <3> QED  BY <1>1, <3>1, LaterFacts
  <2>4. x.seq >= k.last_seq => k.last_seen >= x.sent_at
    BY <1>1, <2>1 DEF Heeds
  <2> HIDE DEF m, k
  <2> QED  BY <1>1, <1>3, <2>2, <2>3, <2>4
<1>4. CASE e \in list
  <2>1. /\ Me \in ro.known /\ e.seq <= m.last_seq
        /\ e.seq = m.last_seq => e.sent_at <= m.last_seen
    BY <1>2, <1>4 DEF AtLatest
  <2>2. Me \in after.known /\ k.last_seen >= m.last_seen
    BY <1>1, <2>1 DEF Heeds
  <2>3. k.last_seq >= m.last_seq
    <3>1. k.last_seq = m.last_seq \/ k.last_seq = Later(m.last_seq, x.seq)
      BY <1>1, <2>1 DEF Heeds, SamePresence
    <3> QED  BY <1>1, <3>1, LaterFacts
  <2> HIDE DEF m, k
  <2> QED  BY <1>1, <2>1, <2>2, <2>3
<1> QED  BY <1>3, <1>4

LEMMA GroundedStep ==
  ASSUME NEW ro, NEW list, NEW x, Hears(ro, list, x)
  PROVE  Grounded(Apply(ro, x), list \cup {x})
<1> DEFINE after == Apply(ro, x)
           m == Mine(ro)
           k == Mine(after)
<1>1. /\ Heeds(ro, after, x)
      /\ \A e \in list \cup {x} : e.seq \in Nat
      /\ m.last_seq \in Nat /\ k.last_seq \in Nat
  BY HeardFields
<1>2. Grounded(ro, list) /\ x.from = Me /\ (x.kind \notin PresenceKinds => x.seq = 0)
  BY DEF Hears, Published
<1> HIDE DEF after
<1> SUFFICES ASSUME Me \in after.known
             PROVE  \E f \in list \cup {x} : f.from = Me /\ f.seq = k.last_seq
  BY DEF Grounded, after
<1>3. k.last_seq = x.seq \/ (Me \in ro.known /\ k.last_seq = m.last_seq)
  <2>1. k.last_seq = x.seq \/ (Me \in ro.known /\
          (k.last_seq = m.last_seq \/ k.last_seq = Later(m.last_seq, x.seq)))
    BY <1>1, <1>2 DEF Heeds, SamePresence
  <2> QED  BY <1>1, <2>1, LaterFacts
<1> QED  BY <1>2, <1>3 DEF Grounded

LEMMA SweptStep ==
  ASSUME NEW ro, NEW list, NEW x, Hears(ro, list, x), NEW at, SweptWhenOld(ro, list, at)
  PROVE  SweptWhenOld(Apply(ro, x), list \cup {x}, at)
<1> DEFINE after == Apply(ro, x)
           m == Mine(ro)
           k == Mine(after)
<1>1. /\ Heeds(ro, after, x)
      /\ \A e \in list \cup {x} : e.seq \in Nat
      /\ m.last_seq \in Nat /\ k.last_seq \in Nat
      /\ m.present \in BOOLEAN /\ k.present \in BOOLEAN
  BY HeardFields
<1>2. /\ Grounded(ro, list) /\ x.from = Me
      /\ (x.kind \notin PresenceKinds => x.seq = 0)
  BY DEF Hears, Published
<1> HIDE DEF after
<1> SUFFICES ASSUME Me \in after.known, ~k.present,
                    NEW e \in list \cup {x}, OnlyOne(e, after, list \cup {x})
             PROVE  at > e.sent_at + StaleSecs
  BY DEF SweptWhenOld, after
<1>3. /\ e.kind \in PresenceKinds /\ AssertsPresent(e) /\ e.seq = k.last_seq
      /\ \A f \in list \cup {x} : f.from = Me /\ f.seq = k.last_seq => f = e
  BY DEF OnlyOne, Presence
\* The record was absent at that number before, and e had been heard.
<1>4. Me \in ro.known
  <2> SUFFICES ASSUME Me \notin ro.known PROVE FALSE
    OBVIOUS
  <2>1. CASE x.kind \in PresenceKinds
    <3>1. k.last_seq = x.seq /\ (k.present <=> AssertsPresent(x))
      BY <1>1, <2>1 DEF Heeds
    <3>2. x = e
      BY <1>2, <1>3, <3>1
    <3> QED  BY <1>3, <3>1, <3>2
  <2>2. CASE x.kind \notin PresenceKinds
    <3>1. k.last_seq = x.seq
      BY <1>1, <1>2, <2>2 DEF Heeds
    <3>2. x = e
      BY <1>2, <1>3, <3>1
    <3> QED  BY <1>3, <2>2, <3>2
  <2> QED  BY <2>1, <2>2
<1>5. k.last_seq = m.last_seq /\ ~m.present
  <2>1. CASE x.kind \notin PresenceKinds
    BY <1>1, <1>4, <2>1 DEF Heeds, SamePresence
  <2>2. CASE x.kind \in PresenceKinds
    <3>1. /\ k.last_seq = Later(m.last_seq, x.seq)
          /\ x.seq > m.last_seq => (k.present <=> AssertsPresent(x))
          /\ x.seq = m.last_seq => (k.present <=> m.present /\ AssertsPresent(x))
          /\ x.seq < m.last_seq => (k.present <=> m.present)
      BY <1>1, <1>4, <2>2 DEF Heeds
    <3>2. x.seq > m.last_seq => FALSE
      <4> SUFFICES ASSUME x.seq > m.last_seq PROVE FALSE
        OBVIOUS
      <4>1. k.last_seq = x.seq
        BY <1>1, <3>1 DEF Later
      <4>2. x = e
        BY <1>2, <1>3, <4>1
      <4> QED  BY <1>3, <3>1, <4>2
    <3>3. k.last_seq = m.last_seq
      BY <1>1, <3>1, <3>2 DEF Later
    <3>4. x.seq = m.last_seq => x = e
      BY <1>2, <1>3, <3>3
    <3>5. x.seq = m.last_seq => ~m.present
      BY <1>3, <3>1, <3>4
    <3>6. x.seq < m.last_seq => ~m.present
      BY <3>1
    <3>7. x.seq = m.last_seq \/ x.seq < m.last_seq
      BY <1>1, <3>2
    <3> QED  BY <3>3, <3>5, <3>6, <3>7
  <2> QED  BY <2>1, <2>2
<1>6. PICK f \in list : f.from = Me /\ f.seq = m.last_seq
  BY <1>2, <1>4 DEF Grounded
<1>7. f = e /\ e \in list
  BY <1>3, <1>5, <1>6
<1>8. OnlyOne(e, ro, list)
  BY <1>3, <1>5, <1>6, <1>7 DEF OnlyOne, Presence
<1> QED  BY <1>4, <1>5, <1>7, <1>8 DEF SweptWhenOld

-----------------------------------------------------------------------------
(* The steps of a session *)

\* The numbers and the clock of a state that satisfies the invariant.
LEMMA BaseFields ==
  ASSUME BaseInv
  PROVE  /\ now \in Nat /\ session \in Sessions
         /\ session.next_seq \in Seqs /\ session.next_seq \in Nat
         /\ session.said \subseteq published /\ session.said \subseteq Envelopes
         /\ \A e \in session.said : /\ e.from = Me /\ e.seq \in Nat
                                    /\ e.sent_at \in Nat /\ e.seq < session.next_seq
         /\ published \subseteq Envelopes /\ heard \subseteq published
<1>0. SessionTypeOK /\ session \in Sessions
  BY DEF BaseInv
<1>1. /\ now \in Nat /\ session.next_seq \in Seqs /\ session.next_seq \in Nat
  <2>1. now \in 0 .. MaxTime /\ session.next_seq \in Seqs
    BY <1>0 DEF SessionTypeOK
  <2>2. MaxTime \in Nat
    BY CommandLineAssumption
  <2>3. now \in Nat
    BY <2>1, <2>2
  <2>4. session.next_seq \in Nat
    BY <2>1, SeqsAreNat
  <2> QED  BY <2>1, <2>3, <2>4
<1>2. /\ published \subseteq Envelopes /\ heard \subseteq published
      /\ session.said \subseteq {e \in published : e.from = Me /\ e.seq < session.next_seq}
  BY <1>0 DEF SessionTypeOK
<1>3. \A e \in Envelopes : e.seq \in Nat /\ e.sent_at \in Nat
  BY EnvelopeFields, SeqsAreNat
<1> QED  BY <1>0, <1>1, <1>2, <1>3

LEMMA SayStep ==
  ASSUME NEW s \in Sessions, Say(s, "Keepalive"), now \in Nat, s.next_seq + 1 \in Seqs
  PROVE  LET e == Envelope(Me, s.next_seq, "Keepalive", NoName)
         IN  /\ session' \in Sessions
             /\ session'.next_seq = s.next_seq + 1 /\ session'.phase = s.phase
             /\ session'.mode = s.mode /\ session'.cycled = s.cycled
             /\ \/ /\ published' = published \cup {e}
                   /\ session'.said = s.said \cup {e} /\ session'.failed = s.failed
                \/ /\ published' = published
                   /\ session'.said = s.said /\ session'.failed
<1> DEFINE e == Envelope(Me, s.next_seq, "Keepalive", NoName)
<1>1. s.next_seq \in Seqs /\ s.said \subseteq Envelopes
  BY DEF Sessions
<1>2. e \in Envelopes
  BY <1>1, PresenceEnvelope DEF PresenceKinds
<1>3. \/ /\ published' = published \cup {e}
         /\ session' = [s EXCEPT !.next_seq = @ + 1, !.said = @ \cup {e}]
      \/ /\ published' = published
         /\ session' = [s EXCEPT !.next_seq = @ + 1, !.failed = TRUE]
  BY DEF Say
<1> HIDE DEF e
<1>4. CASE /\ published' = published \cup {e}
           /\ session' = [s EXCEPT !.next_seq = @ + 1, !.said = @ \cup {e}]
  BY <1>1, <1>2, <1>4 DEF Sessions, e
<1>5. CASE /\ published' = published
           /\ session' = [s EXCEPT !.next_seq = @ + 1, !.failed = TRUE]
  BY <1>1, <1>5 DEF Sessions
<1> QED  BY <1>3, <1>4, <1>5

\* A turn of the polling loop publishes a keepalive under the next number, or fails to.
LEMMA PollCycleFacts ==
  ASSUME BaseInv, PollCycle
  PROVE  LET e == Envelope(Me, session.next_seq, "Keepalive", NoName)
         IN  /\ session' \in Sessions
             /\ session'.next_seq = session.next_seq + 1
             /\ session'.next_seq \in Seqs
             /\ session'.phase \in {"in", "leaving"} /\ session'.cycled
             /\ Polling
             /\ \/ /\ published' = published \cup {e}
                   /\ session'.said = session.said \cup {e} /\ session'.failed = session.failed
                \/ /\ published' = published
                   /\ session'.said = session.said /\ session'.failed
             /\ UNCHANGED <<now, sessions, commands, heard, view>>
<1> DEFINE left == IF session.left = 0 THEN 0 ELSE session.left - 1
           phase == IF session.left = 1 THEN "leaving" ELSE session.phase
           s == [session EXCEPT !.cycled = TRUE, !.left = left, !.phase = phase]
<1>1. /\ Polling /\ session.next_seq < Budget[sessions]
      /\ UNCHANGED <<now, sessions, commands, heard, view>>
  BY DEF PollCycle
<1>2. /\ now \in Nat /\ session \in Sessions /\ session.next_seq \in Nat
      /\ session.next_seq \in Seqs
  BY BaseFields
<1>3. session.phase = "in" /\ session.left \in Nat
  BY <1>1, <1>2 DEF Polling, Sessions
<1>4. left \in Nat /\ phase \in {"in", "leaving"}
  BY <1>3
<1>5. Say(s, "Keepalive")
  BY DEF PollCycle
<1> HIDE DEF left, phase
<1>6. /\ s \in Sessions /\ s.next_seq = session.next_seq /\ s.said = session.said
      /\ s.failed = session.failed /\ s.cycled = TRUE /\ s.phase \in {"in", "leaving"}
  BY <1>2, <1>4 DEF Sessions
<1>7. Budget[sessions] \in 1 .. U64Max
  BY <1>3, CommandLineAssumption DEF BaseInv
<1>8. session.next_seq + 1 \in Seqs
  BY <1>1, <1>2, <1>7, U64Assumption DEF Seqs
<1> HIDE DEF s
<1>9. LET e == Envelope(Me, s.next_seq, "Keepalive", NoName)
      IN  /\ session' \in Sessions
          /\ session'.next_seq = s.next_seq + 1 /\ session'.phase = s.phase
          /\ session'.mode = s.mode /\ session'.cycled = s.cycled
          /\ \/ /\ published' = published \cup {e}
                /\ session'.said = s.said \cup {e} /\ session'.failed = s.failed
             \/ /\ published' = published
                /\ session'.said = s.said /\ session'.failed
  BY <1>2, <1>8, <1>5, <1>6, SayStep
<1> QED  BY <1>1, <1>8, <1>9, <1>6

\* A session starts with its Join at number 0.
LEMMA JoinFacts ==
  ASSUME BaseInv, Join
  PROVE  LET e == Envelope(Me, 0, "Join", NoName)
         IN  /\ session' \in Sessions /\ session'.next_seq = 1 /\ session'.phase = "in"
             /\ session'.said = {e} /\ published' = published \cup {e}
             /\ session'.mode = "poll" => session'.cycled
             /\ sessions' \in DOMAIN Budget
             /\ UNCHANGED <<now, commands, heard, view>>
<1> DEFINE e == Envelope(Me, 0, "Join", NoName)
<1>1. 0 \in Seqs /\ 1 \in Seqs /\ now \in Nat
  BY U64Assumption, BaseFields DEF Seqs
<1>2. e \in Envelopes
  BY <1>1, PresenceEnvelope DEF PresenceKinds
<1> HIDE DEF e
<1>3. PICK mode \in Modes : \E cycles \in IF mode = "poll" THEN Cycles ELSE {0} :
        /\ session' = [NoSession EXCEPT !.phase = "in", !.mode = mode,
             !.left = cycles, !.next_seq = 1, !.said = {e}, !.cycled = (mode = "poll")]
        /\ published' = published \cup {e}
  BY DEF Join, e
<1>4. PICK cycles \in IF mode = "poll" THEN Cycles ELSE {0} :
        /\ session' = [NoSession EXCEPT !.phase = "in", !.mode = mode,
             !.left = cycles, !.next_seq = 1, !.said = {e}, !.cycled = (mode = "poll")]
        /\ published' = published \cup {e}
  BY <1>3
<1>5. mode \in {"stream", "poll"} /\ cycles \in Nat
  BY CommandLineAssumption
<1>6. (mode = "poll") \in BOOLEAN
  OBVIOUS
<1>7. /\ session' \in Sessions /\ session'.next_seq = 1 /\ session'.phase = "in"
      /\ session'.said = {e} /\ session'.mode = mode /\ session'.cycled = (mode = "poll")
  BY <1>1, <1>2, <1>4, <1>5, <1>6, NoSessionType DEF Sessions
<1> QED  BY <1>4, <1>7 DEF Join, e

\* The other steps of a session leave it what it said.
LEMMA EndingFacts ==
  ASSUME BaseInv, \/ StreamEnds \/ \E e \in published : StreamSeesEnd(e)
  PROVE  /\ session' \in Sessions /\ session'.said = session.said
         /\ session'.next_seq = session.next_seq /\ session'.phase = "leaving"
         /\ UNCHANGED <<now, sessions, commands, published, heard, view>>
<1>1. /\ session' = [session EXCEPT !.phase = "leaving"]
      /\ UNCHANGED <<now, sessions, commands, published, heard, view>>
  BY DEF StreamEnds, StreamSeesEnd
<1>2. session \in Sessions
  BY BaseFields
<1> QED  BY <1>1, <1>2 DEF Sessions

LEMMA LeaveFacts ==
  ASSUME BaseInv, Leave
  PROVE  LET e == Envelope(Me, session.next_seq, "Leave", NoName)
         IN  /\ session' = NoSession /\ published' \in {published, published \cup {e}}
             /\ e \in Envelopes /\ Published(e)
             /\ UNCHANGED <<now, sessions, commands, heard, view>>
<1>1. now \in Nat /\ session.next_seq \in Seqs
  BY BaseFields
<1> QED  BY <1>1, PresenceEnvelope DEF Leave, PresenceKinds

\* A command publishes one signal at number 0.
LEMMA CommandFacts ==
  ASSUME BaseInv, NEW n, NEW kind,
         \/ n = Me /\ kind \in CommandKinds
         \/ n = Host /\ kind = "EndRoom",
         Command(n, kind)
  PROVE  /\ session' \in Sessions /\ session'.said = session.said
         /\ session'.next_seq = session.next_seq /\ session'.phase = session.phase
         /\ session'.mode = session.mode /\ session'.failed = session.failed
         /\ session'.cycled = session.cycled
         /\ \E e \in Envelopes : Published(e) /\ published' = published \cup {e}
         /\ UNCHANGED <<now, sessions, heard, view>>
<1>1. now \in Nat /\ session \in Sessions /\ 0 \in Seqs
  BY BaseFields, U64Assumption DEF Seqs
<1>2. PICK body \in BodiesOf(kind) : published' = published \cup {Envelope(n, 0, kind, body)}
  BY DEF Command
<1>3. n \in Nodes /\ kind \in Kinds
  BY CommandLineAssumption DEF Kinds
<1> DEFINE e == Envelope(n, 0, kind, body)
           due == session.due \/ (session.phase = "in" /\ n = Host /\ kind = "EndRoom")
<1>4. e \in Envelopes /\ e.from = n /\ e.seq = 0 /\ e.kind = kind
  BY <1>1, <1>2, <1>3, EnvelopeType
<1>5. published' = published \cup {e}
  BY <1>2
<1> HIDE DEF e
<1>6. Published(e)
  BY <1>4, CommandLineAssumption DEF Published
<1>7. session' = [session EXCEPT !.due = due] /\ due \in BOOLEAN
  BY <1>1 DEF Command, Sessions
<1> HIDE DEF due
<1>8. /\ session' \in Sessions /\ session'.said = session.said
      /\ session'.next_seq = session.next_seq /\ session'.phase = session.phase
      /\ session'.mode = session.mode /\ session'.failed = session.failed
      /\ session'.cycled = session.cycled
  BY <1>1, <1>7 DEF Sessions
<1> QED  BY <1>4, <1>5, <1>6, <1>8 DEF Command

LEMMA TickFacts ==
  ASSUME BaseInv, Tick
  PROVE  /\ now' = now + 1 /\ now' \in 0 .. MaxTime
         /\ Polling => session.cycled
         /\ session' \in Sessions /\ session'.said = session.said
         /\ session'.next_seq = session.next_seq /\ session'.phase = session.phase
         /\ session'.mode = session.mode /\ session'.failed = session.failed
         /\ ~session'.cycled
         /\ UNCHANGED <<sessions, commands, published, heard, view>>
<1>1. now \in Nat /\ session \in Sessions
  BY BaseFields
<1>2. session' = [session EXCEPT !.cycled = FALSE]
  BY DEF Tick
<1>3. /\ session' \in Sessions /\ session'.said = session.said
      /\ session'.next_seq = session.next_seq /\ session'.phase = session.phase
      /\ session'.mode = session.mode /\ session'.failed = session.failed
      /\ ~session'.cycled
  BY <1>1, <1>2 DEF Sessions
<1> QED  BY <1>1, <1>3, CommandLineAssumption DEF Tick

-----------------------------------------------------------------------------
(* The invariant holds *)

LEMMA InitEstablishes == Init => IInv
<1> SUFFICES ASSUME Init PROVE IInv
  OBVIOUS
<1> USE DEF Init
<1>1. session = NoSession /\ session \in Sessions
  BY NoSessionType
<1>2. view \in Rooms /\ view.known = {}
  BY NewRoomFacts, CapAssumption
<1>3. 0 \in Seqs /\ now \in 0 .. MaxTime
  BY U64Assumption, CommandLineAssumption DEF Seqs
<1>4. SessionTypeOK
  BY <1>1, <1>2, <1>3 DEF SessionTypeOK, NoSession
<1>5. BaseInv
  BY <1>1, <1>4 DEF BaseInv, NoSession
<1>6. ViewInv
  BY <1>2 DEF ViewInv, AtLatest, Grounded, SweptWhenOld
<1> QED  BY <1>1, <1>5, <1>6, OutOfTheWay DEF IInv

\* The parts of BaseInv that talk about the publications, once for all steps.
LEMMA BaseFrame ==
  ASSUME BaseInv, session' \in Sessions, now' \in 0 .. MaxTime,
         session'.phase = "in" => sessions' \in DOMAIN Budget,
         published \subseteq published',
         \A e \in published' \ published : e \in Envelopes /\ Published(e),
         heard' \subseteq published',
         view' \in Rooms, view'.known \subseteq {Me},
         session'.said \subseteq {e \in published' : e.from = Me /\ e.seq < session'.next_seq},
         \A e, f \in session'.said : e.seq = f.seq => e = f
  PROVE  BaseInv'
<1>1. /\ session'.phase \in {"out", "in", "leaving"}
      /\ session'.mode \in {"stream", "poll"} /\ session'.next_seq \in Seqs
  BY DEF Sessions
<1>2. published' \subseteq Envelopes /\ \A e \in published' : Published(e)
  BY DEF BaseInv, SessionTypeOK
<1>3. SessionTypeOK'
  BY <1>1, <1>2 DEF SessionTypeOK
<1> QED  BY <1>2, <1>3 DEF BaseInv, Published

LEMMA NoSaid ==
  ASSUME session' = NoSession
  PROVE  /\ session' \in Sessions /\ session'.phase # "in"
         /\ session'.said \subseteq {e \in published' : e.from = Me /\ e.seq < session'.next_seq}
         /\ \A e, f \in session'.said : e.seq = f.seq => e = f
  BY NoSessionType DEF NoSession

LEMMA BaseStep == BaseInv /\ [Next]_vars => BaseInv'
<1> SUFFICES ASSUME BaseInv, [Next]_vars PROVE BaseInv'
  OBVIOUS
<1>0. /\ now \in 0 .. MaxTime /\ now \in Nat /\ session \in Sessions
      /\ session.phase = "in" => sessions \in DOMAIN Budget
      /\ heard \subseteq published /\ view \in Rooms /\ view.known \subseteq {Me}
      /\ session.next_seq \in Nat /\ session.next_seq \in Seqs
      /\ session.said \subseteq {e \in published : e.from = Me /\ e.seq < session.next_seq}
      /\ \A e \in session.said : e.seq \in Nat
      /\ \A e, f \in session.said : e.seq = f.seq => e = f
  BY BaseFields DEF BaseInv, SessionTypeOK
<1>1. CASE Join
  <2> DEFINE e == Envelope(Me, 0, "Join", NoName)
  <2>1. /\ session' \in Sessions /\ session'.next_seq = 1 /\ session'.phase = "in"
        /\ session'.said = {e} /\ published' = published \cup {e}
        /\ sessions' \in DOMAIN Budget
        /\ UNCHANGED <<now, heard, view>>
    BY <1>1, JoinFacts
  <2>2. e \in Envelopes /\ Published(e) /\ e.from = Me /\ e.seq = 0
    BY <1>0, U64Assumption, PresenceEnvelope DEF PresenceKinds, Seqs
  <2> HIDE DEF e
  <2> QED  BY <1>0, <2>1, <2>2, BaseFrame
<1>2. CASE PollCycle
  <2> DEFINE e == Envelope(Me, session.next_seq, "Keepalive", NoName)
  <2>1. /\ session' \in Sessions /\ session'.next_seq = session.next_seq + 1
        /\ session'.phase \in {"in", "leaving"} /\ Polling
        /\ \/ published' = published \cup {e} /\ session'.said = session.said \cup {e}
           \/ published' = published /\ session'.said = session.said
        /\ UNCHANGED <<now, sessions, heard, view>>
    BY <1>2, PollCycleFacts
  <2>2. e \in Envelopes /\ Published(e) /\ e.from = Me /\ e.seq = session.next_seq
    BY <1>0, PresenceEnvelope DEF PresenceKinds
  <2>3. sessions' \in DOMAIN Budget
    BY <1>0, <2>1 DEF Polling
  <2> HIDE DEF e
  <2>4. session.said \subseteq {f \in published' : f.from = Me /\ f.seq < session'.next_seq}
    BY <1>0, <2>1
  <2>5. \A f, g \in session'.said : f.seq = g.seq => f = g
    BY <1>0, <2>1, <2>2
  <2>6. session'.said \subseteq {f \in published' : f.from = Me /\ f.seq < session'.next_seq}
    BY <1>0, <2>1, <2>2, <2>4
  <2> QED  BY <1>0, <2>1, <2>2, <2>3, <2>5, <2>6, BaseFrame
<1>3. CASE StreamEnds \/ \E e \in published : StreamSeesEnd(e)
  BY <1>0, <1>3, EndingFacts, BaseFrame
<1>4. CASE Leave
  <2>1. /\ session' = NoSession
        /\ \A e \in published' \ published : e \in Envelopes /\ Published(e)
        /\ published \subseteq published' /\ UNCHANGED <<now, heard, view>>
    BY <1>4, LeaveFacts
  <2> QED  BY <1>0, <2>1, NoSaid, BaseFrame
<1>5. CASE Killed
  <2>1. session' = NoSession /\ UNCHANGED <<now, published, heard, view>>
    BY <1>5 DEF Killed
  <2> QED  BY <1>0, <2>1, NoSaid, BaseFrame
<1>6. ASSUME NEW n, NEW kind,
             \/ n = Me /\ kind \in CommandKinds
             \/ n = Host /\ kind = "EndRoom",
             Command(n, kind)
      PROVE  BaseInv'
  <2>1. /\ session' \in Sessions /\ session'.said = session.said
        /\ session'.next_seq = session.next_seq /\ session'.phase = session.phase
        /\ published \subseteq published'
        /\ \A e \in published' \ published : e \in Envelopes /\ Published(e)
        /\ UNCHANGED <<now, sessions, heard, view>>
    BY <1>6, CommandFacts
  <2> QED  BY <1>0, <2>1, BaseFrame
<1>7. ASSUME NEW e \in published, Receive(e) PROVE BaseInv'
  <2>1. e \in Envelopes /\ Published(e)
    BY BaseFields DEF BaseInv
  <2>2. view' = Apply(view, e) /\ heard' \subseteq published
    BY <1>0, <1>7 DEF Receive
  <2>3. view' \in Rooms /\ view'.known \subseteq {Me}
    <3>1. CASE e.from = Me
      BY <1>0, <2>1, <2>2, <3>1, ApplyHeeds DEF Heeds
    <3>2. CASE e.kind = "EndRoom"
      <4>1. e.kind \notin PresenceKinds \cup MediaKinds
        BY <3>2 DEF PresenceKinds, MediaKinds
      <4>2. TouchesOnly(view, view', e.from) /\ AsPassing(view, view', e)
        BY <1>0, <2>1, <2>2, <4>1, ApplyFacts
      <4> QED  BY <1>0, <4>2 DEF TouchesOnly, AsPassing
    <3> QED  BY <2>1, <3>1, <3>2 DEF Published
  <2> QED  BY <1>0, <1>7, <2>2, <2>3, BaseFrame DEF Receive
<1>8. CASE Sweep
  <2>1. view' \in Rooms /\ view'.known = view.known
    BY <1>0, <1>8, PruneFacts DEF Sweep
  <2> QED  BY <1>0, <1>8, <2>1, BaseFrame DEF Sweep
<1>9. CASE Tick
  BY <1>0, <1>9, TickFacts, BaseFrame
<1>10. CASE UNCHANGED vars
  BY <1>0, <1>10, BaseFrame DEF vars
<1> QED  BY <1>1, <1>2, <1>3, <1>4, <1>5, <1>6, <1>7, <1>8, <1>9, <1>10 DEF Next

LEMMA SaidStep == BaseInv /\ SaidInv /\ [Next]_vars => SaidInv'
<1> SUFFICES ASSUME BaseInv, SaidInv, [Next]_vars PROVE SaidInv'
  OBVIOUS
<1>0. /\ now \in Nat /\ session.next_seq \in Nat /\ session.next_seq \in Seqs
      /\ \A e \in session.said : e.seq \in Nat /\ e.sent_at \in Nat /\ e.seq < session.next_seq
  BY BaseFields
<1>1. ASSUME session'.said = session.said, now' \in Nat, now' >= now PROVE SaidInv'
  BY <1>0, <1>1 DEF SaidInv
<1>2. CASE Join
  <2> DEFINE e == Envelope(Me, 0, "Join", NoName)
  <2>1. session'.said = {e} /\ now' = now
    BY <1>2, JoinFacts
  <2>2. e.kind = "Join" /\ e.sent_at = now
    BY <1>0, U64Assumption, PresenceEnvelope DEF PresenceKinds, Seqs
  <2> HIDE DEF e
  <2> QED  BY <1>0, <2>1, <2>2 DEF SaidInv, AssertsPresent
<1>3. CASE PollCycle
  <2> DEFINE e == Envelope(Me, session.next_seq, "Keepalive", NoName)
  <2>1. session'.said \in {session.said, session.said \cup {e}} /\ now' = now
    BY <1>3, PollCycleFacts
  <2>2. e.kind = "Keepalive" /\ e.sent_at = now /\ e.seq = session.next_seq
    BY <1>0, PresenceEnvelope DEF PresenceKinds
  <2> HIDE DEF e
  <2> SUFFICES ASSUME session'.said = session.said \cup {e} PROVE SaidInv'
    BY <1>0, <1>1, <2>1
  <2>3. ASSUME NEW f \in session'.said
        PROVE  AssertsPresent(f) /\ f.sent_at <= now
    BY <1>0, <2>2, <2>3 DEF SaidInv, AssertsPresent
  <2>4. ASSUME NEW f \in session'.said, NEW g \in session'.said, f.seq <= g.seq
        PROVE  f.sent_at <= g.sent_at
    <3>1. CASE g = e
      BY <2>2, <2>3, <3>1
    <3>2. CASE g # e
      <4>1. g \in session.said /\ g.seq < e.seq
        BY <1>0, <2>2, <3>2
      <4>2. f \in session.said
        BY <1>0, <2>2, <2>4, <4>1
      <4> QED  BY <2>4, <4>1, <4>2 DEF SaidInv
    <3> QED  BY <3>1, <3>2
  <2> QED  BY <2>1, <2>3, <2>4 DEF SaidInv
<1>4. CASE Leave \/ Killed
  <2>1. session' = NoSession
    BY <1>4 DEF Leave, Killed
  <2> QED  BY <2>1 DEF SaidInv, NoSession
<1>5. CASE StreamEnds \/ \E e \in published : StreamSeesEnd(e)
  BY <1>0, <1>1, <1>5, EndingFacts
<1>6. CASE \/ \E kind \in CommandKinds : Command(Me, kind)
           \/ Command(Host, "EndRoom")
  BY <1>0, <1>1, <1>6, CommandFacts
<1>7. CASE \/ \E e \in published : Receive(e)
           \/ Sweep \/ UNCHANGED vars
  BY <1>0, <1>1, <1>7 DEF Receive, Sweep, vars
<1>8. CASE Tick
  BY <1>0, <1>1, <1>8, TickFacts
<1> QED  BY <1>2, <1>3, <1>4, <1>5, <1>6, <1>7, <1>8 DEF Next

LEMMA PaceStep == BaseInv /\ SaidInv /\ PaceInv /\ [Next]_vars => PaceInv'
<1> SUFFICES ASSUME BaseInv, SaidInv, PaceInv, [Next]_vars PROVE PaceInv'
  OBVIOUS
<1>0. /\ now \in Nat /\ session.next_seq \in Nat /\ session.next_seq \in Seqs
      /\ \A e \in session.said : e.sent_at \in Nat
  BY BaseFields
<1>1. ASSUME session'.said = session.said, now' = now, session'.cycled = session.cycled,
             session'.phase = session.phase, session'.mode = session.mode,
             session'.failed = session.failed
      PROVE  PaceInv'
  BY <1>1 DEF PaceInv, Polling
<1>2. CASE Join
  <2> DEFINE e == Envelope(Me, 0, "Join", NoName)
  <2>1. /\ session'.said = {e} /\ now' = now
        /\ session'.mode = "poll" => session'.cycled
    BY <1>2, JoinFacts
  <2>2. e.sent_at = now
    BY <1>0, U64Assumption, PresenceEnvelope DEF PresenceKinds, Seqs
  <2> HIDE DEF e
  <2> QED  BY <2>1, <2>2 DEF PaceInv, Polling
<1>3. CASE PollCycle
  <2> DEFINE e == Envelope(Me, session.next_seq, "Keepalive", NoName)
  <2>1. /\ now' = now /\ session'.cycled /\ Polling
        /\ \/ session'.said = session.said \cup {e} /\ session'.failed = session.failed
           \/ session'.failed
    BY <1>3, PollCycleFacts
  <2>2. e.sent_at = now
    BY <1>0, PresenceEnvelope DEF PresenceKinds
  <2> HIDE DEF e
  <2> QED  BY <2>1, <2>2 DEF PaceInv
<1>4. CASE Leave \/ Killed
  <2>1. session' = NoSession
    BY <1>4 DEF Leave, Killed
  <2> QED  BY <2>1 DEF PaceInv, NoSession, Polling
<1>5. CASE StreamEnds \/ \E e \in published : StreamSeesEnd(e)
  <2>1. session'.phase = "leaving"
    BY <1>5, EndingFacts
  <2> QED  BY <2>1 DEF PaceInv, Polling
<1>6. CASE \/ \E kind \in CommandKinds : Command(Me, kind)
           \/ Command(Host, "EndRoom")
  BY <1>1, <1>6, CommandFacts
<1>7. CASE \/ \E e \in published : Receive(e)
           \/ Sweep \/ UNCHANGED vars
  BY <1>1, <1>7 DEF Receive, Sweep, vars
<1>8. CASE Tick
  <2>1. /\ now' = now + 1 /\ (Polling => session.cycled) /\ session'.said = session.said
        /\ session'.phase = session.phase /\ session'.mode = session.mode
        /\ session'.failed = session.failed /\ ~session'.cycled
    BY <1>8, TickFacts
  <2> SUFFICES ASSUME Polling', ~session'.failed
               PROVE  \E e \in session'.said : e.sent_at + 1 = now'
    BY <2>1 DEF PaceInv
  <2>2. \E e \in session.said : e.sent_at = now
    BY <2>1 DEF PaceInv, Polling
  <2> QED  BY <1>0, <2>1, <2>2
<1> QED  BY <1>2, <1>3, <1>4, <1>5, <1>6, <1>7, <1>8 DEF Next

\* A sweep keeps the records; whom it turns absent was seen long ago.
LEMMA SweepKeeps ==
  ASSUME BaseInv, ViewInv, Sweep
  PROVE  ViewInv'
<1> DEFINE after == PruneStale(view, now, StaleSecs)
<1>1. /\ now \in Nat /\ heard \subseteq Envelopes /\ Me \in Nodes /\ view \in Rooms
      /\ \A e \in heard : e.seq \in Nat /\ e.sent_at \in Nat
  BY BaseFields, EnvelopeFields, SeqsAreNat, CommandLineAssumption DEF BaseInv, SessionTypeOK
<1>2. view' = after /\ heard' = heard /\ now' = now
  BY DEF Sweep
<1>3. /\ after.known = view.known
      /\ Mine(after).last_seq = Mine(view).last_seq
      /\ Mine(after).last_seen = Mine(view).last_seen
  BY <1>1, PruneFacts DEF Mine
<1>4. Mine(view).last_seen \in Nat
  BY <1>1, RoomFields, MemberFields DEF Mine
<1>5. Mine(view).present /\ ~Mine(after).present => now > Mine(view).last_seen + StaleSecs
  BY <1>1, PruneDrops DEF Mine
<1> HIDE DEF after
<1>6. AtLatest(after, heard) /\ Grounded(after, heard)
  BY <1>3 DEF ViewInv, AtLatest, Grounded
<1>7. ASSUME Me \in after.known, ~Mine(after).present,
             NEW e \in heard, OnlyOne(e, after, heard)
      PROVE  now > e.sent_at + StaleSecs
  <2>1. OnlyOne(e, view, heard)
    BY <1>3, <1>7 DEF OnlyOne
  <2>2. CASE Mine(view).present
    <3>1. e.sent_at <= Mine(view).last_seen
      BY <2>1 DEF OnlyOne, ViewInv, AtLatest
    <3> QED  BY <1>1, <1>4, <1>5, <1>7, <2>2, <3>1, CommandLineAssumption
  <2>3. CASE ~Mine(view).present
    BY <1>3, <1>7, <2>1, <2>3 DEF ViewInv, SweptWhenOld
  <2> QED  BY <2>2, <2>3
<1>8. SweptWhenOld(after, heard, now)
  BY <1>7 DEF SweptWhenOld
<1> QED  BY <1>2, <1>6, <1>8 DEF ViewInv, AtLatest, Grounded, SweptWhenOld, OnlyOne, Mine

\* What the host publishes leaves the record of the user alone.
LEMMA HostIsPassedBy ==
  ASSUME BaseInv, ViewInv, NEW x \in published, x.from # Me
  PROVE  LET after == Apply(view, x)
             list == heard \cup {x}
         IN  AtLatest(after, list) /\ Grounded(after, list) /\ SweptWhenOld(after, list, now)
<1> DEFINE after == Apply(view, x)
<1>1. /\ x \in Envelopes /\ x.kind = "EndRoom" /\ view \in Rooms /\ Me \in Nodes
  BY BaseFields, CommandLineAssumption DEF BaseInv, SessionTypeOK, Published
<1>2. x.kind \notin PresenceKinds \cup MediaKinds
  BY <1>1 DEF PresenceKinds, MediaKinds
<1>3. TouchesOnly(view, after, x.from) /\ AsPassing(view, after, x)
  BY <1>1, <1>2, ApplyFacts
<1> HIDE DEF after
<1>4. after.known = view.known /\ Mine(after) = Mine(view)
  BY <1>1, <1>3 DEF TouchesOnly, AsPassing, Mine
<1>5. AtLatest(after, heard \cup {x}) /\ Grounded(after, heard \cup {x})
  BY <1>4 DEF ViewInv, AtLatest, Grounded, Presence
<1>6. ASSUME NEW e \in heard \cup {x}, OnlyOne(e, after, heard \cup {x})
      PROVE  e \in heard /\ OnlyOne(e, view, heard)
  BY <1>4, <1>6 DEF OnlyOne, Presence
<1>7. SweptWhenOld(after, heard \cup {x}, now)
  BY <1>4, <1>6 DEF ViewInv, SweptWhenOld
<1> QED  BY <1>5, <1>7 DEF after

LEMMA ViewStep == BaseInv /\ ViewInv /\ [Next]_vars => ViewInv'
<1> SUFFICES ASSUME BaseInv, ViewInv, [Next]_vars PROVE ViewInv'
  OBVIOUS
<1>0. /\ now \in Nat /\ published \subseteq Envelopes /\ heard \subseteq published
      /\ view \in Rooms /\ view.known \subseteq {Me}
      /\ \A e \in heard : e.sent_at \in Nat
  BY BaseFields, EnvelopeFields DEF BaseInv, SessionTypeOK
<1>1. ASSUME view' = view, heard' = heard, now' \in Nat, now' >= now PROVE ViewInv'
  <2>1. AtLatest(view, heard) /\ Grounded(view, heard)
    BY DEF ViewInv
  <2>2. SweptWhenOld(view, heard, now')
    BY <1>0, <1>1, CommandLineAssumption DEF ViewInv, SweptWhenOld
  <2> QED  BY <1>1, <2>1, <2>2
           DEF ViewInv, AtLatest, Grounded, SweptWhenOld, OnlyOne, Mine
<1>2. ASSUME NEW x \in published, Receive(x) PROVE ViewInv'
  <2> DEFINE after == Apply(view, x)
             list == heard \cup {x}
  <2>1. view' = after /\ heard' = list /\ now' = now
    BY <1>2 DEF Receive
  <2>2. AtLatest(after, list) /\ Grounded(after, list) /\ SweptWhenOld(after, list, now)
    <3>1. CASE x.from = Me
      <4>1. Hears(view, heard, x) /\ SweptWhenOld(view, heard, now)
        BY <1>0, <3>1 DEF Hears, ViewInv, BaseInv
      <4> QED  BY <4>1, AtLatestStep, GroundedStep, SweptStep
    <3>2. CASE x.from # Me
      BY <3>2, HostIsPassedBy
    <3> QED  BY <3>1, <3>2
  <2> HIDE DEF after, list
  <2> QED  BY <2>1, <2>2 DEF ViewInv, AtLatest, Grounded, SweptWhenOld, OnlyOne, Mine
<1>3. CASE Sweep
  BY <1>3, SweepKeeps
<1>4. CASE Tick
  BY <1>0, <1>1, <1>4, TickFacts
<1>5. CASE Join
  BY <1>0, <1>1, <1>5 DEF Join
<1>6. CASE PollCycle
  BY <1>0, <1>1, <1>6 DEF PollCycle
<1>7. CASE StreamEnds \/ \E e \in published : StreamSeesEnd(e)
  BY <1>0, <1>1, <1>7 DEF StreamEnds, StreamSeesEnd
<1>8. CASE Leave \/ Killed
  BY <1>0, <1>1, <1>8 DEF Leave, Killed
<1>9. CASE \/ \E kind \in CommandKinds : Command(Me, kind)
           \/ Command(Host, "EndRoom")
  BY <1>0, <1>1, <1>9 DEF Command
<1>10. CASE UNCHANGED vars
  BY <1>0, <1>1, <1>10 DEF vars
<1> QED  BY <1>2, <1>3, <1>4, <1>5, <1>6, <1>7, <1>8, <1>9, <1>10 DEF Next

-----------------------------------------------------------------------------
(* The theorems *)

(* The invariant is inductive: what every reachable state satisfies.       *)
THEOREM Invariance == Spec => []IInv
<1>1. IInv /\ [Next]_vars => IInv'
  BY BaseStep, SaidStep, PaceStep, ViewStep DEF IInv
<1> QED  BY InitEstablishes, <1>1, PTL DEF Spec

(* Type correctness: the numbers of a session, below its counter, are each *)
(* borne by one envelope (next_seq, client.rs), and the observer tracks    *)
(* nobody but the user.                                                    *)
THEOREM SessionTypeCorrect == Spec => []SessionTypeOK
<1>1. IInv => SessionTypeOK
  BY DEF IInv, BaseInv
<1> QED  BY <1>1, Invariance, PTL

\* The record of a polling session is not the one a sweep dropped.
LEMMA ShownWhilePolling ==
  ASSUME IInv, StaleSecs >= 1, Polling, UpToDate
  PROVE  Shown
<1>1. BaseInv /\ SaidInv /\ PaceInv /\ ViewInv /\ ~session.failed
  BY DEF IInv, UpToDate
<1>2. /\ now \in Nat /\ heard \subseteq Envelopes /\ view \in Rooms /\ Me \in Nodes
      /\ \A e \in heard : e.seq \in Nat /\ e.sent_at \in Nat
      /\ \A e \in session.said : e.from = Me /\ e.seq \in Nat /\ e.sent_at \in Nat
      /\ \A e, f \in session.said : e.seq = f.seq => e = f
  BY <1>1, BaseFields, EnvelopeFields, SeqsAreNat, CommandLineAssumption
     DEF BaseInv, SessionTypeOK
<1>3. \A e \in session.said : Presence(e) /\ AssertsPresent(e)
  BY <1>1, <1>2 DEF SaidInv, Presence, AssertsPresent, PresenceKinds
<1>4. PICK e0 \in session.said \cap heard :
        \A f \in heard \ session.said : f.from = Me => f.seq < e0.seq
  BY DEF UpToDate
<1>5. Me \in view.known /\ e0.seq <= Mine(view).last_seq
  BY <1>1, <1>3, <1>4 DEF ViewInv, AtLatest
<1>6. PICK f \in heard : f.from = Me /\ f.seq = Mine(view).last_seq
  BY <1>1, <1>5 DEF ViewInv, Grounded
<1>7. \A g \in heard : g.from = Me /\ g.seq = Mine(view).last_seq => g \in session.said
  BY <1>2, <1>4, <1>5, <1>6
<1>8. f \in session.said /\ OnlyOne(f, view, heard)
  BY <1>2, <1>3, <1>6, <1>7 DEF OnlyOne
<1> SUFFICES ASSUME ~Mine(view).present PROVE FALSE
  BY <1>5 DEF Shown, Present, Mine
<1>9. now > f.sent_at + StaleSecs
  BY <1>1, <1>5, <1>8 DEF ViewInv, SweptWhenOld
<1>10. StaleSecs \in Nat /\ f.sent_at \in Nat
  BY <1>2, <1>6, CommandLineAssumption
<1>11. PICK e \in session.said : e.sent_at + 1 = now
  <2>1. f.sent_at # now
    BY <1>2, <1>9, <1>10
  <2> QED  BY <1>1, <1>8, <2>1 DEF PaceInv
<1>12. e \in heard
  BY <1>2, <1>11 DEF UpToDate
<1>13. e.seq <= f.seq
  BY <1>1, <1>3, <1>6, <1>12 DEF ViewInv, AtLatest
<1>14. e.sent_at <= f.sent_at
  BY <1>1, <1>8, <1>11, <1>13 DEF SaidInv
<1> QED  BY <1>2, <1>9, <1>10, <1>11, <1>14

(* While a session polls, an observer that is up to date shows it, for     *)
(* every sweep argument but 0: the keepalive of each turn (main.rs, the    *)
(* loop of join) outruns every prune_stale, in whatever order it and the   *)
(* envelopes of earlier sessions and of commands arrive.                   *)
THEOREM PollersStayShown ==
  ASSUME StaleSecs >= 1
  PROVE  Spec => []PollingStaysShown
<1>1. IInv => PollingStaysShown
  BY ShownWhilePolling DEF PollingStaysShown
<1> QED  BY <1>1, Invariance, PTL

-----------------------------------------------------------------------------
(* Catching up *)

\* A session that has not failed to publish said what bears its latest number.
LatestInv == session.phase = "in" /\ ~session.failed =>
  \E e \in session.said : session.next_seq = e.seq + 1

LEMMA LatestStep == BaseInv /\ LatestInv /\ [Next]_vars => LatestInv'
<1> SUFFICES ASSUME BaseInv, LatestInv, [Next]_vars PROVE LatestInv'
  OBVIOUS
<1>0. now \in Nat /\ session.next_seq \in Seqs /\ session.next_seq \in Nat
  BY BaseFields
<1>1. ASSUME session'.said = session.said, session'.next_seq = session.next_seq,
             session'.phase = session.phase, session'.failed = session.failed
      PROVE  LatestInv'
  BY <1>1 DEF LatestInv
<1>2. CASE Join
  <2> DEFINE e == Envelope(Me, 0, "Join", NoName)
  <2>1. session'.said = {e} /\ session'.next_seq = 1
    BY <1>2, JoinFacts
  <2>2. e.seq = 0
    BY <1>0, U64Assumption, PresenceEnvelope DEF PresenceKinds, Seqs
  <2> HIDE DEF e
  <2> QED  BY <2>1, <2>2 DEF LatestInv
<1>3. CASE PollCycle
  <2> DEFINE e == Envelope(Me, session.next_seq, "Keepalive", NoName)
  <2>1. /\ session'.next_seq = session.next_seq + 1
        /\ session'.said = session.said \cup {e} \/ session'.failed
    BY <1>3, PollCycleFacts
  <2>2. e.seq = session.next_seq
    BY <1>0, PresenceEnvelope DEF PresenceKinds
  <2> HIDE DEF e
  <2> QED  BY <2>1, <2>2 DEF LatestInv
<1>4. CASE Leave \/ Killed
  <2>1. session' = NoSession
    BY <1>4 DEF Leave, Killed
  <2> QED  BY <2>1 DEF LatestInv, NoSession
<1>5. CASE StreamEnds \/ \E e \in published : StreamSeesEnd(e)
  <2>1. session'.phase = "leaving"
    BY <1>5, EndingFacts
  <2> QED  BY <2>1 DEF LatestInv
<1>6. CASE \/ \E kind \in CommandKinds : Command(Me, kind)
           \/ Command(Host, "EndRoom")
  BY <1>1, <1>6, CommandFacts
<1>7. CASE \/ \E e \in published : Receive(e)
           \/ Sweep \/ UNCHANGED vars
  BY <1>1, <1>7 DEF Receive, Sweep, vars
<1>8. CASE Tick
  BY <1>1, <1>8, TickFacts
<1> QED  BY <1>2, <1>3, <1>4, <1>5, <1>6, <1>7, <1>8 DEF Next

\* Everything published has arrived, and the session has numbered past what
\* the user's other processes said.
CaughtUp ==
  /\ heard = published
  /\ \A e \in published \ session.said : e.from = Me => e.seq + 1 < session.next_seq

CaughtUpIsShown == Polling /\ ~session.failed /\ CaughtUp => Shown

LEMMA CatchingUpSuffices ==
  ASSUME BaseInv, LatestInv, Polling, ~session.failed, CaughtUp
  PROVE  UpToDate
<1>1. /\ session.said \subseteq published /\ heard = published
      /\ \A e \in published : e.seq \in Nat
  BY BaseFields, EnvelopeFields, SeqsAreNat DEF CaughtUp
<1>2. PICK e \in session.said : session.next_seq = e.seq + 1
  BY DEF LatestInv, Polling
<1>3. \A f \in heard \ session.said : f.from = Me => f.seq < e.seq
  BY <1>1, <1>2 DEF CaughtUp
<1> QED  BY <1>1, <1>2, <1>3 DEF UpToDate

(* Whoever rejoins with a counter that starts again at 0 is shown once its *)
(* keepalives have numbered past its earlier sessions and commands and     *)
(* everything has arrived: however those were reordered on the way, and    *)
(* whatever was swept meanwhile (next_seq, client.rs; apply, room.rs).     *)
THEOREM CaughtUpAreShown ==
  ASSUME StaleSecs >= 1
  PROVE  Spec => []CaughtUpIsShown
<1>1. Init => LatestInv
  BY DEF Init, NoSession, LatestInv
<1>2. IInv /\ LatestInv => CaughtUpIsShown
  BY CatchingUpSuffices, ShownWhilePolling DEF IInv, CaughtUpIsShown
<1>3. IInv /\ LatestInv /\ [Next]_vars => LatestInv'
  BY LatestStep DEF IInv
<1> QED  BY <1>1, <1>2, <1>3, Invariance, PTL DEF Spec

(* So a rejoin is shown in the end if a session that goes on polling       *)
(* without a failure comes to number past the others with everything heard.*)
THEOREM RejoinersAreShown ==
  ASSUME StaleSecs >= 1
  PROVE  Spec /\ (Polling /\ ~session.failed ~> CaughtUp \/ ~Polling \/ session.failed)
           => RejoinIsShown
<1>1. CaughtUpIsShown /\ (CaughtUp \/ ~Polling \/ session.failed)
        => Shown \/ ~Polling \/ session.failed
  BY DEF CaughtUpIsShown
<1> QED  BY <1>1, CaughtUpAreShown, PTL DEF RejoinIsShown

-----------------------------------------------------------------------------
(* The end of the room *)

EndIsOut == \E e \in published : e.kind = "EndRoom" /\ e.from # Me

DueInv == session.due => EndIsOut

\* The host's command alone makes a session due, by what it publishes.
LEMMA DueStep == BaseInv /\ DueInv /\ [Next]_vars => DueInv'
<1> SUFFICES ASSUME BaseInv, DueInv, [Next]_vars PROVE DueInv'
  OBVIOUS
<1>0. session \in Sessions /\ now \in Nat
  BY BaseFields
<1>1. ASSUME session'.due => session.due, published \subseteq published' PROVE DueInv'
  BY <1>1 DEF DueInv, EndIsOut
<1>2. ASSUME session' = NoSession PROVE DueInv'
  BY <1>2 DEF DueInv, NoSession
<1>3. CASE Join
  <2>1. ~session'.due
    BY <1>3 DEF Join, NoSession
  <2> QED  BY <2>1 DEF DueInv
<1>4. CASE PollCycle
  <2>1. session'.due = session.due /\ published \subseteq published'
    BY <1>0, <1>4 DEF PollCycle, Say, Sessions
  <2> QED  BY <1>1, <2>1
<1>5. CASE StreamEnds \/ \E e \in published : StreamSeesEnd(e)
  BY <1>0, <1>1, <1>5 DEF StreamEnds, StreamSeesEnd, Sessions
<1>6. CASE Leave \/ Killed
  BY <1>2, <1>6 DEF Leave, Killed
<1>7. ASSUME NEW kind \in CommandKinds, Command(Me, kind) PROVE DueInv'
  <2>1. session'.due => session.due
    BY <1>0, <1>7, CommandLineAssumption DEF Command, Sessions
  <2>2. published \subseteq published'
    BY <1>7 DEF Command
  <2> QED  BY <1>1, <2>1, <2>2
<1>8. CASE Command(Host, "EndRoom")
  <2>1. Host \in Nodes /\ Host # Me /\ "EndRoom" \in Kinds /\ 0 \in Seqs
    BY CommandLineAssumption, U64Assumption DEF Kinds, Seqs
  <2>2. PICK body \in BodiesOf("EndRoom") :
          published' = published \cup {Envelope(Host, 0, "EndRoom", body)}
    BY <1>8 DEF Command
  <2> DEFINE e == Envelope(Host, 0, "EndRoom", body)
  <2>3. e.kind = "EndRoom" /\ e.from # Me
    BY <1>0, <2>1, EnvelopeType
  <2>4. e \in published'
    BY <2>2
  <2> HIDE DEF e
  <2> QED  BY <2>3, <2>4 DEF DueInv, EndIsOut
<1>9. CASE \/ \E e \in published : Receive(e)
           \/ Sweep \/ UNCHANGED vars
  BY <1>1, <1>9 DEF Receive, Sweep, vars
<1>10. CASE Tick
  BY <1>0, <1>1, <1>10 DEF Tick, Sessions
<1> QED  BY <1>3, <1>4, <1>5, <1>6, <1>7, <1>8, <1>9, <1>10 DEF Next

\* There is an end to see for a session that streams: event_loop can break.
EndToSee == Streaming /\ session.due /\ EndIsOut

\* What is published while a client listens reaches it: WF_vars(SessionSeesEnd)
\* with the enabling condition written out.
EndsAreSeen == []([]EndToSee => <><<SessionSeesEnd>>_vars)

(* A room that is ended while a session streams ends the session, provided *)
(* an EndRoom that is there to be seen is seen: nothing the user's own     *)
(* commands do meanwhile takes it back (run_streamed and event_loop,       *)
(* main.rs).                                                               *)
THEOREM EndedRoomEndsStreams ==
  Spec /\ EndsAreSeen => StreamEndsWithRoom
<1>1. Init => DueInv
  BY DEF Init, NoSession, DueInv
<1>2. IInv /\ DueInv /\ [Next]_vars => DueInv'
  BY DueStep DEF IInv
<1>3. DueInv /\ Streaming /\ session.due => EndToSee
  BY DEF DueInv, EndToSee
<1>4. IInv /\ DueInv /\ EndToSee /\ [Next]_vars => EndToSee' \/ ~Streaming'
  <2> SUFFICES ASSUME IInv, DueInv, Streaming, session.due, [Next]_vars
               PROVE  session'.due \/ ~Streaming'
    BY <1>2 DEF EndToSee, DueInv
  <2>1. session \in Sessions /\ session.phase = "in" /\ session.mode = "stream"
    BY DEF IInv, BaseInv, Streaming
  <2>2. ASSUME session'.phase # "in" PROVE ~Streaming'
    BY <2>2 DEF Streaming
  <2>3. ~Join /\ ~PollCycle
    BY <2>1 DEF Join, PollCycle, Polling
  <2>4. CASE StreamEnds \/ \E e \in published : StreamSeesEnd(e)
    BY <2>2, <2>4, EndingFacts DEF IInv
  <2>5. CASE Leave \/ Killed
    BY <2>2, <2>5 DEF Leave, Killed, NoSession
  <2>6. CASE \/ \E kind \in CommandKinds : Command(Me, kind)
             \/ Command(Host, "EndRoom")
    BY <2>1, <2>6 DEF Command, Sessions
  <2>7. CASE \/ \E e \in published : Receive(e)
             \/ Sweep \/ UNCHANGED vars
    BY <2>7 DEF Receive, Sweep, vars
  <2>8. CASE Tick
    BY <2>1, <2>8 DEF Tick, Sessions
  <2> QED  BY <2>3, <2>4, <2>5, <2>6, <2>7, <2>8 DEF Next
<1>5. IInv /\ <<SessionSeesEnd>>_vars => ~Streaming'
  BY EndingFacts DEF IInv, SessionSeesEnd, Streaming
<1>6. EndToSee => Streaming
  BY DEF EndToSee
<1> QED
  BY <1>1, <1>2, <1>3, <1>4, <1>5, <1>6, Invariance, PTL
  DEF Spec, EndsAreSeen, StreamEndsWithRoom
=============================================================================
