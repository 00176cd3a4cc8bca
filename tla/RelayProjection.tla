-------------------------- MODULE RelayProjection --------------------------
(***************************************************************************)
(* The roster of channels and participants that the Management API serves: *)
(* managementState in main.go, kept by the PCL session from one chunked    *)
(* snapshot per connection and the lifecycle events after it               *)
(* (handleSessionMessage and privateControlSnapshotReassembly in           *)
(* private_control.go), and read by management_api.go.                     *)
(*                                                                         *)
(* The Relay is external: it has the true roster, and what it writes is    *)
(* modelled from what the client accepts. Frames arrive in the order they  *)
(* were written; a lost connection loses those not read yet.               *)
(***************************************************************************)
EXTENDS Integers, FiniteSets, Sequences, TLC

CONSTANTS
  Channels, Senders,
  ChunkCounts,  \* chunk counts the Relay uses, at most 64
  EventsBetweenChunks,  \* the Relay writes events between the chunks of a snapshot
  MaxFlight,    \* bound: frames in flight
  MaxChanges,   \* bound: roster changes
  MaxFaults     \* bound: lost connections and defective snapshots

ASSUME ProjectionAssumption ==
  /\ ChunkCounts \subseteq 1 .. 64 /\ ChunkCounts # {}
  /\ EventsBetweenChunks \in BOOLEAN
  /\ MaxFlight \in Nat /\ MaxChanges \in Nat /\ MaxFaults \in Nat

VARIABLES
  relay,       \* the Relay's roster
  subscribed,  \* the Relay exports events to the current connection
  requested,   \* get_relay_state_snapshot is on its way to the Relay
  unsent,      \* chunks of the current snapshot the Relay has not written
  sid,         \* snapshot_id of the last snapshot
  link,        \* frames from the Relay that the session has not handled
  session,     \* runSession and the loop of run around it
  got,         \* privateControlSnapshotReassembly.chunks; {} also before the first
  connected,   \* managementState.connected
  snapshotAt,  \* managementState.snapshotAt is set
  channels,    \* managementState.channels: the state of every participant
  listed,      \* managementState.channels: its keys, which GET /v1/channels lists
  fresh,       \* history: the last applied snapshot is of the last connection
  changes, faults

relayVars == <<relay, subscribed, requested, unsent, sid>>
stateVars == <<connected, snapshotAt, channels, listed, fresh>>
boundVars == <<changes, faults>>
vars == <<relayVars, link, session, got, stateVars, boundVars>>

(***************************************************************************)
(* A roster gives every slot a state. Snapshots call a participant who has *)
(* not talked "joined"; the participant_joined event makes it "idle".      *)
(***************************************************************************)
Slots     == Channels \X Senders
States    == {"absent", "joined", "idle", "talking"}
Rosters   == [Slots -> States]
NoOne     == [p \in Slots |-> "absent"]
SnapshotIds == Nat   \* the Relay uses an ID once

EventKinds == {"participant_joined", "participant_left", "talk_started",
               "talk_ended", "other"}

(***************************************************************************)
(* A chunk lists some of the participants; cells outside part are absent.  *)
(* It may also list channels without any, which applyRelayStateSnapshot    *)
(* keeps as keys of the map.                                               *)
(***************************************************************************)
HelloAckFrame == [type |-> "hello_ack"]
Event(k, p)   == [type |-> "event", kind |-> k, slot |-> p]
Chunk(id, i, n, m) ==
  [type |-> "chunk", id |-> id, index |-> i, count |-> n, part |-> m]

IsFrame(f) ==
  \/ f = HelloAckFrame
  \/ \E k \in EventKinds, p \in Slots : f = Event(k, p)
  \/ /\ f.type = "chunk" /\ f.id \in SnapshotIds
     /\ f.count \in ChunkCounts /\ f.index \in 1 .. f.count /\ f.part \in Rosters

SessionStates == {"down", "hello", "open", "closed"}

TypeOK ==
  /\ relay \in Rosters
  /\ subscribed \in BOOLEAN /\ requested \in BOOLEAN
  /\ \A f \in unsent \cup got : IsFrame(f) /\ f.type = "chunk"
  /\ sid \in SnapshotIds
  /\ \A i \in DOMAIN link : IsFrame(link[i])
  /\ session \in SessionStates
  /\ connected \in BOOLEAN /\ snapshotAt \in BOOLEAN /\ fresh \in BOOLEAN
  /\ channels \in Rosters /\ listed \subseteq Channels
  /\ changes \in 0 .. MaxChanges /\ faults \in 0 .. MaxFaults

Init ==
  /\ relay = NoOne
  /\ subscribed = FALSE /\ requested = FALSE
  /\ unsent = {} /\ sid = 0
  /\ link = <<>>
  /\ session = "down"
  /\ got = {}
  /\ connected = FALSE /\ snapshotAt = FALSE /\ fresh = FALSE
  /\ channels = NoOne /\ listed = {}
  /\ changes = 0 /\ faults = 0

-----------------------------------------------------------------------------
(***************************************************************************)
(* The Relay. Change moves one participant and writes the event; a talker  *)
(* who leaves causes two events, in either order.                          *)
(***************************************************************************)
CanWrite(n) == Len(link) + n <= MaxFlight

\* Events that announce the move of a participant from state a to state b.
Announcements(p, a, b) ==
  CASE a = "absent" /\ b = "joined" -> {<<Event("participant_joined", p)>>}
    [] a \in {"joined", "idle"} /\ b = "absent" -> {<<Event("participant_left", p)>>}
    [] a = "talking" /\ b = "absent" ->
         {<<Event("participant_left", p), Event("talk_ended", p)>>,
          <<Event("talk_ended", p), Event("participant_left", p)>>}
    [] a \in {"joined", "idle"} /\ b = "talking" -> {<<Event("talk_started", p)>>}
    [] a = "talking" /\ b = "idle" -> {<<Event("talk_ended", p)>>}
    [] OTHER -> {}

WriteEvents(es) ==
  /\ unsent # {} => EventsBetweenChunks
  /\ CanWrite(Len(es))
  /\ link' = IF subscribed THEN link \o es ELSE link

Change(p, b) ==
  /\ changes < MaxChanges
  /\ \E es \in Announcements(p, relay[p], b) : WriteEvents(es)
  /\ relay' = [relay EXCEPT ![p] = b]
  /\ changes' = changes + 1
  /\ UNCHANGED <<subscribed, requested, unsent, sid, session, got, stateVars, faults>>

\* recording_state_changed and the service_admission events may name a sender.
OtherEvent(p) ==
  /\ WriteEvents(<<Event("other", p)>>)
  /\ UNCHANGED <<relayVars, session, got, stateVars, boundVars>>

RelayAccept ==
  /\ session = "hello"
  /\ ~subscribed
  /\ subscribed' = TRUE
  /\ link' = Append(link, HelloAckFrame)
  /\ UNCHANGED <<relay, requested, unsent, sid, session, got, stateVars, boundVars>>

(***************************************************************************)
(* A snapshot: the roster of one instant, spread over n chunks. A sound    *)
(* one lists every participant once.                                       *)
(***************************************************************************)
SoundSpreads(n) == [Slots -> {{i} : i \in 1 .. n}]

Capture(n, spread) ==
  LET part(i) == [p \in Slots |-> IF i \in spread[p] THEN relay[p] ELSE "absent"]
  IN  /\ sid' = sid + 1
      /\ unsent' = {Chunk(sid', i, n, part(i)) : i \in 1 .. n}

RelaySnapshot ==
  /\ requested
  /\ requested' = FALSE
  /\ \E n \in ChunkCounts : \E spread \in SoundSpreads(n) : Capture(n, spread)
  /\ UNCHANGED <<relay, subscribed, link, session, got, stateVars, boundVars>>

RelayWriteChunk ==
  /\ CanWrite(1)
  /\ \E f \in unsent : link' = Append(link, f) /\ unsent' = unsent \ {f}
  /\ UNCHANGED <<relay, subscribed, requested, sid, session, got, stateVars, boundVars>>

(***************************************************************************)
(* Defects of a Relay that the client guards against: starting over with   *)
(* a new snapshot before the first is complete, listing a participant in   *)
(* two chunks, writing a chunk twice.                                      *)
(***************************************************************************)
RelayRestartSnapshot ==
  /\ unsent # {}
  /\ faults < MaxFaults
  /\ \E n \in ChunkCounts : \E spread \in SoundSpreads(n) : Capture(n, spread)
  /\ faults' = faults + 1
  /\ UNCHANGED <<relay, subscribed, requested, link, session, got, stateVars, changes>>

TwiceListed(n) ==
  {spread \in [Slots -> (SUBSET (1 .. n)) \ {{}}] :
     \E p \in Slots : relay[p] # "absent" /\ Cardinality(spread[p]) > 1}

RelayListTwice ==
  /\ requested
  /\ faults < MaxFaults
  /\ requested' = FALSE
  /\ \E n \in ChunkCounts : \E spread \in TwiceListed(n) : Capture(n, spread)
  /\ faults' = faults + 1
  /\ UNCHANGED <<relay, subscribed, link, session, got, stateVars, changes>>

RelayRepeatChunk ==
  /\ CanWrite(1)
  /\ faults < MaxFaults
  /\ \E f \in unsent : link' = Append(link, f)
  /\ faults' = faults + 1
  /\ UNCHANGED <<relayVars, session, got, stateVars, changes>>

-----------------------------------------------------------------------------
(***************************************************************************)
(* The session. runSession returns with the connection closed; run then    *)
(* calls markDisconnected, so for a moment the state is still "connected". *)
(***************************************************************************)
Dial ==
  /\ session = "down"
  /\ session' = "hello"
  /\ fresh' = FALSE
  /\ UNCHANGED <<relayVars, link, got, connected, snapshotAt, channels, listed,
                 boundVars>>

Close ==
  /\ session' = "closed"
  /\ link' = <<>>
  /\ got' = {}
  /\ subscribed' = FALSE
  /\ requested' = FALSE
  /\ unsent' = {}

LoseConnection ==
  /\ session \in {"hello", "open"}
  /\ faults < MaxFaults
  /\ Close
  /\ faults' = faults + 1
  /\ UNCHANGED <<relay, sid, stateVars, changes>>

markDisconnected ==
  /\ session = "closed"
  /\ session' = "down"
  /\ connected' = FALSE
  /\ UNCHANGED <<relayVars, link, got, snapshotAt, channels, listed, fresh, boundVars>>

Receive(f) == link # <<>> /\ f = Head(link)

\* Mutant: the old snapshot still counts after a reconnect.
markConnectedKeepingSnapshot ==
  /\ connected' = TRUE
  /\ UNCHANGED <<channels, listed, snapshotAt, fresh>>

markConnected ==
  /\ connected' = TRUE
  /\ channels' = NoOne
  /\ listed' = {}
  /\ snapshotAt' = FALSE
  /\ UNCHANGED fresh

\* Mutant: the snapshot is requested on the first connection only.
ReceiveFirstHelloAck ==
  /\ session = "hello"
  /\ Receive(HelloAckFrame)
  /\ session' = "open"
  /\ markConnected
  /\ requested' = (sid = 0)
  /\ link' = Tail(link)
  /\ UNCHANGED <<relay, subscribed, unsent, sid, got, boundVars>>

\* markConnected, then the request for the snapshot.
ReceiveHelloAck ==
  /\ session = "hello"
  /\ Receive(HelloAckFrame)
  /\ session' = "open"
  /\ markConnected
  /\ requested' = TRUE
  /\ link' = Tail(link)
  /\ UNCHANGED <<relay, subscribed, unsent, sid, got, boundVars>>

(***************************************************************************)
(* What recordLifecycleEvent does to the roster. Every event that names a  *)
(* channel and a sender makes the channel a key; only a participant_left   *)
(* that empties it takes the key away.                                     *)
(***************************************************************************)
\* Mutant: the event's name is stored as the participant's state.
RecordedKind(c, e) == IF e.kind = "other" THEN c ELSE [c EXCEPT ![e.slot] = e.kind]

\* Mutant: talk_ended brings a participant back who has left.
RecordedReturn(c, e) ==
  CASE e.kind \in {"participant_joined", "talk_ended"} -> [c EXCEPT ![e.slot] = "idle"]
    [] e.kind = "participant_left" -> [c EXCEPT ![e.slot] = "absent"]
    [] e.kind = "talk_started"     -> [c EXCEPT ![e.slot] = "talking"]
    [] OTHER -> c

Recorded(c, e) ==
  CASE e.kind = "participant_joined" -> [c EXCEPT ![e.slot] = "idle"]
    [] e.kind = "participant_left"   -> [c EXCEPT ![e.slot] = "absent"]
    [] e.kind = "talk_started"       -> [c EXCEPT ![e.slot] = "talking"]
    [] e.kind = "talk_ended" /\ c[e.slot] # "absent" -> [c EXCEPT ![e.slot] = "idle"]
    [] OTHER -> c

Occupied(c) == {p[1] : p \in {q \in Slots : c[q] # "absent"}}

RecordedKeys(c, e) ==
  IF e.kind = "participant_left" /\ e.slot[1] \notin Occupied(Recorded(c, e))
  THEN listed \ {e.slot[1]}
  ELSE listed \cup {e.slot[1]}

recordLifecycleEvent ==
  /\ session = "open"
  /\ \E k \in EventKinds, p \in Slots :
       /\ Receive(Event(k, p))
       /\ channels' = Recorded(channels, Event(k, p))
       /\ listed' = RecordedKeys(channels, Event(k, p))
  /\ link' = Tail(link)
  /\ UNCHANGED <<relayVars, session, got, connected, snapshotAt, fresh, boundVars>>

(***************************************************************************)
(* privateControlSnapshotReassembly.add: the tests on the chunk alone, and *)
(* the one on the completed set.                                           *)
(***************************************************************************)
\* Mutant: the snapshot ID of a chunk is not compared.
ConsistentCount(f) == \A g \in got : g.count = f.count

Consistent(f) == \A g \in got : g.id = f.id /\ g.count = f.count

Duplicate(f) == \E g \in got : g.index = f.index

\* Mutant: the last chunk completes the snapshot, in whatever order they come.
CompleteAtLast(fs, n) == \E f \in fs : f.index = n

Complete(fs, n) == Cardinality(fs) = n

ListedTwice(fs) ==
  \E p \in Slots, f, g \in fs : f # g /\ f.part[p] # "absent" /\ g.part[p] # "absent"

Assembled(fs) ==
  [p \in Slots |-> IF \E f \in fs : f.part[p] # "absent"
                   THEN (CHOOSE f \in fs : f.part[p] # "absent").part[p]
                   ELSE "absent"]

applyRelayStateSnapshot(fs) ==
  /\ channels' = Assembled(fs)
  /\ \E empty \in SUBSET Channels : listed' = Occupied(channels') \cup empty
  /\ snapshotAt' = TRUE
  /\ fresh' = TRUE
  /\ UNCHANGED connected

ReceiveChunk(f) ==
  /\ session = "open"
  /\ Receive(f) /\ f.type = "chunk"
  /\ Consistent(f) /\ ~Duplicate(f)
  /\ LET fs == got \cup {f} IN
       /\ Complete(fs, f.count) => ~ListedTwice(fs)
       /\ got' = fs
       /\ IF Complete(fs, f.count) THEN applyRelayStateSnapshot(fs)
                                   ELSE UNCHANGED stateVars
  /\ link' = Tail(link)
  /\ UNCHANGED <<relayVars, session, boundVars>>

RejectChunk(f) ==
  /\ session = "open"
  /\ Receive(f) /\ f.type = "chunk"
  /\ \/ ~Consistent(f)
     \/ Duplicate(f)
     \/ Complete(got \cup {f}, f.count) /\ ListedTwice(got \cup {f})
  /\ Close
  /\ UNCHANGED <<relay, sid, stateVars, boundVars>>

-----------------------------------------------------------------------------
ReceiveFrame ==
  \/ ReceiveHelloAck \/ recordLifecycleEvent
  \/ link # <<>> /\ (ReceiveChunk(Head(link)) \/ RejectChunk(Head(link)))

Next ==
  \/ \E p \in Slots : (\E b \in States : Change(p, b)) \/ OtherEvent(p)
  \/ RelayAccept \/ RelaySnapshot \/ RelayWriteChunk
  \/ RelayRestartSnapshot \/ RelayListTwice \/ RelayRepeatChunk
  \/ Dial \/ LoseConnection \/ markDisconnected \/ ReceiveFrame

Spec == Init /\ [][Next]_vars

(***************************************************************************)
(* Fairness: run redials after each session, the session goroutine handles *)
(* what has arrived, and (an assumption on it) the Relay answers.          *)
(***************************************************************************)
Fairness ==
  /\ WF_vars(Dial) /\ WF_vars(markDisconnected) /\ WF_vars(ReceiveFrame)
  /\ WF_vars(RelayAccept) /\ WF_vars(RelaySnapshot) /\ WF_vars(RelayWriteChunk)

FairSpec == Spec /\ Fairness

-----------------------------------------------------------------------------
(***************************************************************************)
(* Properties.                                                             *)
(***************************************************************************)

\* managementAPIChannelState and readyz: the roster is served.
Ready == connected /\ snapshotAt

\* The API never serves a prior connection's state: what it serves was applied
\* from a complete snapshot of the latest connection, also while that
\* connection is being replaced.
ServedIsOfThisConnection == Ready => fresh

\* What is served while the session lives was taken from one whole snapshot: the
\* chunks are of one snapshot_id, every index is there, and no participant is
\* listed twice. So the "incomplete" error of add, for a set of chunks of the
\* right size in which an index is missing, is never met.
SnapshotWhole ==
  Ready /\ session = "open" =>
    /\ \E f \in got : /\ \A g \in got : g.id = f.id /\ g.count = f.count
                      /\ {g.index : g \in got} = 1 .. f.count
    /\ ~ListedTwice(got)

\* "joined" and "idle" both mean present and silent.
Norm(r) == [p \in Slots |-> IF r[p] = "joined" THEN "idle" ELSE r[p]]

Apply(c, f) == IF f.type = "event" THEN Recorded(c, f) ELSE c

\* The roster after all the frames of l.
Replay(c, l) ==
  LET after[i \in 0 .. Len(l)] == IF i = 0 THEN c ELSE Apply(after[i - 1], l[i])
  IN  after[Len(l)]

\* While the session lives, the served roster differs from the Relay's only by
\* the events still in flight: no event is lost, applied twice or undone, no two
\* snapshots are mixed, and a talk_ended that follows its participant_left does
\* not bring the participant back. GET /v1/channels hides no occupied channel.
ServedMatchesRelay ==
  Ready /\ session = "open" =>
    /\ Norm(Replay(channels, link)) = Norm(relay)
    /\ Occupied(channels) \subseteq listed

\* Once connections stop failing, the API ends up serving the Relay's roster.
EventuallyInSync == <>[](Ready /\ Norm(channels) = Norm(relay))
=============================================================================
