------------------------ MODULE RelayProjectionProofs ------------------------
(***************************************************************************)
(* Proofs about RelayProjection, for any channels, senders, chunk counts   *)
(* and bounds, also with events between the chunks of a snapshot.          *)
(***************************************************************************)
EXTENDS RelayProjection, FiniteSetTheorems, SequenceTheorems, TLAPS

-----------------------------------------------------------------------------
(***************************************************************************)
(* Type correctness.                                                       *)
(***************************************************************************)

Chunks ==
  {f \in [type : {"chunk"}, id : SnapshotIds, index : 1 .. 64, count : ChunkCounts,
          part : Rosters] : f.index <= f.count}

Events == [type : {"event"}, kind : EventKinds, slot : Slots]

Frames == {HelloAckFrame} \cup Events \cup Chunks

\* The part of TypeOK that Capture, the link and the reassembly keep, with the
\* frames as sets.
Types ==
  /\ relay \in Rosters
  /\ subscribed \in BOOLEAN /\ requested \in BOOLEAN
  /\ unsent \subseteq Chunks /\ got \subseteq Chunks
  /\ sid \in SnapshotIds
  /\ link \in Seq(Frames)
  /\ session \in SessionStates
  /\ connected \in BOOLEAN /\ snapshotAt \in BOOLEAN /\ fresh \in BOOLEAN
  /\ channels \in Rosters /\ listed \subseteq Channels
  /\ changes \in 0 .. MaxChanges /\ faults \in 0 .. MaxFaults

\* A member of Chunks is a chunk that IsFrame admits.
LEMMA ChunkIsFrame ==
  ASSUME NEW f \in Chunks
  PROVE  /\ IsFrame(f) /\ f.type = "chunk" /\ f.id \in SnapshotIds
         /\ f.count \in ChunkCounts /\ f.count \in Nat \ {0}
         /\ f.index \in 1 .. f.count /\ f.part \in Rosters
<1>1. f.count \in 1 .. 64
  BY ProjectionAssumption DEF Chunks
<1>2. QED
  BY <1>1 DEF Chunks, IsFrame

\* Types implies TypeOK.
LEMMA TypesImplyTypeOK == Types => TypeOK
<1> SUFFICES ASSUME Types PROVE TypeOK
  OBVIOUS
<1>1. \A f \in unsent \cup got : IsFrame(f) /\ f.type = "chunk"
  BY ChunkIsFrame DEF Types
<1>2. ASSUME NEW i \in DOMAIN link PROVE IsFrame(link[i])
  <2>1. link[i] \in Frames
    BY DEF Types
  <2>2. CASE link[i] \in Chunks
    BY <2>2, ChunkIsFrame
  <2>3. CASE link[i] \in Events
    BY <2>3 DEF Events, IsFrame, Event
  <2>4. QED
    BY <2>1, <2>2, <2>3 DEF Frames, IsFrame
<1>3. QED
  BY <1>1, <1>2 DEF Types, TypeOK

\* The events the Relay writes are frames.
LEMMA EventType ==
  ASSUME NEW k \in EventKinds, NEW p \in Slots
  PROVE  Event(k, p) \in Events /\ Event(k, p) \in Frames
BY DEF Event, Events, Frames

\* The announcements of a change are sequences of frames.
LEMMA AnnouncementType ==
  ASSUME NEW p \in Slots, NEW a, NEW b, NEW es \in Announcements(p, a, b)
  PROVE  es \in Seq(Frames)
<1>1. \A k \in EventKinds : Event(k, p) \in Frames
  BY EventType
<1>2. \A k, l \in EventKinds : /\ <<Event(k, p)>> \in Seq(Frames)
                               /\ <<Event(k, p), Event(l, p)>> \in Seq(Frames)
  BY <1>1
<1>3. \/ \E k \in EventKinds : es = <<Event(k, p)>>
      \/ \E k, l \in EventKinds : es = <<Event(k, p), Event(l, p)>>
  BY DEF Announcements, EventKinds
<1>4. QED
  BY <1>2, <1>3

\* Writing events keeps the link a sequence of frames.
LEMMA WriteType ==
  ASSUME Types, NEW es \in Seq(Frames), WriteEvents(es)
  PROVE  link' \in Seq(Frames)
<1>1. link \o es \in Seq(Frames)
  BY ConcatProperties DEF Types
<1>2. QED
  BY <1>1 DEF WriteEvents, Types

\* A snapshot is a set of chunks.
LEMMA CaptureType ==
  ASSUME Types, NEW n \in ChunkCounts, NEW spread, Capture(n, spread)
  PROVE  sid' \in SnapshotIds /\ unsent' \subseteq Chunks
<1> DEFINE part(i) == [p \in Slots |-> IF i \in spread[p] THEN relay[p] ELSE "absent"]
<1>1. sid' \in SnapshotIds
  BY DEF Capture, Types, SnapshotIds
<1>2. \A i \in 1 .. n : part(i) \in Rosters
  BY DEF Types, Rosters, States
<1>3. n \in 1 .. 64
  BY ProjectionAssumption
<1>4. ASSUME NEW i \in 1 .. n PROVE Chunk(sid', i, n, part(i)) \in Chunks
  <2>1. i \in 1 .. 64 /\ i <= n
    BY <1>3
  <2>2. part(i) \in Rosters
    BY <1>2
  <2> HIDE DEF part
  <2>3. QED
    BY <1>1, <2>1, <2>2 DEF Chunk, Chunks
<1>5. unsent' = {Chunk(sid', i, n, part(i)) : i \in 1 .. n}
  BY DEF Capture
<1>6. QED
  BY <1>1, <1>4, <1>5

\* The head of the link is a frame, the tail a sequence of them.
LEMMA LinkType ==
  ASSUME Types, link # <<>>
  PROVE  Head(link) \in Frames /\ Tail(link) \in Seq(Frames)
BY HeadTailProperties DEF Types

\* The reassembly only takes chunks.
LEMMA HeadChunk ==
  ASSUME Types, link # <<>>, Head(link).type = "chunk"
  PROVE  Head(link) \in Chunks
<1>1. Head(link) \in Frames
  BY LinkType
<1>2. QED
  BY <1>1 DEF Frames, Events, HelloAckFrame

\* recordLifecycleEvent leaves a roster.
LEMMA RecordedType ==
  ASSUME NEW c \in Rosters, NEW k \in EventKinds, NEW p \in Slots
  PROVE  Recorded(c, Event(k, p)) \in Rosters
BY DEF Recorded, Event, Rosters, States

\* What the chunks list is a roster.
LEMMA AssembledType ==
  ASSUME NEW fs \in SUBSET Chunks
  PROVE  Assembled(fs) \in Rosters
<1>1. ASSUME NEW p \in Slots, \E f \in fs : f.part[p] # "absent"
      PROVE  (CHOOSE f \in fs : f.part[p] # "absent").part[p] \in States
  <2>1. PICK f : f = CHOOSE g \in fs : g.part[p] # "absent"
    OBVIOUS
  <2>2. f \in fs
    BY <1>1, <2>1
  <2>3. f.part \in Rosters
    BY <2>2, ChunkIsFrame
  <2>4. QED
    BY <2>1, <2>3 DEF Rosters
<1>2. "absent" \in States
  BY DEF States
<1>3. QED
  BY <1>1, <1>2 DEF Assembled, Rosters

\* Occupied channels are channels.
LEMMA OccupiedType == \A c : Occupied(c) \subseteq Channels
BY DEF Occupied, Slots

\* Every action keeps the types.
LEMMA TypeStep == Types /\ [Next]_vars => Types'
<1> SUFFICES ASSUME Types, [Next]_vars PROVE Types'
  OBVIOUS
<1> USE ProjectionAssumption
<1>1. ASSUME NEW p \in Slots, NEW b \in States, Change(p, b) PROVE Types'
  <2>1. link' \in Seq(Frames)
    BY <1>1, AnnouncementType, WriteType DEF Change
  <2>2. relay' \in Rosters
    BY <1>1 DEF Change, Types, Rosters
  <2>3. QED
    BY <1>1, <2>1, <2>2 DEF Change, Types, stateVars
<1>2. ASSUME NEW p \in Slots, OtherEvent(p) PROVE Types'
  <2>1. Event("other", p) \in Frames
    BY EventType DEF EventKinds
  <2>2. <<Event("other", p)>> \in Seq(Frames)
    BY <2>1
  <2>3. link' \in Seq(Frames)
    BY <1>2, <2>2, WriteType DEF OtherEvent
  <2>4. QED
    BY <1>2, <2>3 DEF OtherEvent, Types, relayVars, stateVars, boundVars
<1>3. CASE RelayAccept
  <2>1. link' \in Seq(Frames)
    BY <1>3, AppendProperties DEF RelayAccept, Types, Frames
  <2>2. QED
    BY <1>3, <2>1 DEF RelayAccept, Types, stateVars, boundVars
<1>4. CASE RelaySnapshot
  <2>1. sid' \in SnapshotIds /\ unsent' \subseteq Chunks
    BY <1>4, CaptureType DEF RelaySnapshot
  <2>2. QED
    BY <1>4, <2>1 DEF RelaySnapshot, Types, stateVars, boundVars
<1>5. CASE RelayWriteChunk
  <2>1. PICK f \in unsent : link' = Append(link, f) /\ unsent' = unsent \ {f}
    BY <1>5 DEF RelayWriteChunk
  <2>2. link' \in Seq(Frames)
    BY <2>1, AppendProperties DEF Types, Frames
  <2>3. QED
    BY <1>5, <2>1, <2>2 DEF RelayWriteChunk, Types, stateVars, boundVars
<1>6. CASE RelayRestartSnapshot
  <2>1. sid' \in SnapshotIds /\ unsent' \subseteq Chunks
    BY <1>6, CaptureType DEF RelayRestartSnapshot
  <2>2. faults' \in 0 .. MaxFaults
    BY <1>6 DEF RelayRestartSnapshot, Types
  <2>3. QED
    BY <1>6, <2>1, <2>2 DEF RelayRestartSnapshot, Types, stateVars
<1>7. CASE RelayListTwice
  <2>1. sid' \in SnapshotIds /\ unsent' \subseteq Chunks
    BY <1>7, CaptureType DEF RelayListTwice
  <2>2. faults' \in 0 .. MaxFaults
    BY <1>7 DEF RelayListTwice, Types
  <2>3. QED
    BY <1>7, <2>1, <2>2 DEF RelayListTwice, Types, stateVars
<1>8. CASE RelayRepeatChunk
  <2>1. PICK f \in unsent : link' = Append(link, f)
    BY <1>8 DEF RelayRepeatChunk
  <2>2. link' \in Seq(Frames)
    BY <2>1, AppendProperties DEF Types, Frames
  <2>3. QED
    BY <1>8, <2>2 DEF RelayRepeatChunk, Types, relayVars, stateVars
<1>9. CASE Dial
  BY <1>9 DEF Dial, Types, relayVars, boundVars, SessionStates
<1>10. CASE LoseConnection
  <2>1. link' \in Seq(Frames)
    BY <1>10, EmptySeq DEF LoseConnection, Close
  <2>2. faults' \in 0 .. MaxFaults
    BY <1>10 DEF LoseConnection, Types
  <2>3. QED
    BY <1>10, <2>1, <2>2 DEF LoseConnection, Close, Types, stateVars, SessionStates
<1>11. CASE markDisconnected
  BY <1>11 DEF markDisconnected, Types, relayVars, boundVars, SessionStates
<1>12. CASE ReceiveHelloAck
  <2>1. link' \in Seq(Frames)
    BY <1>12, LinkType DEF ReceiveHelloAck, Receive
  <2>2. channels' \in Rosters
    BY <1>12 DEF ReceiveHelloAck, markConnected, NoOne, Rosters, States
  <2>3. QED
    BY <1>12, <2>1, <2>2 DEF ReceiveHelloAck, markConnected, Types, boundVars, SessionStates
<1>13. CASE recordLifecycleEvent
  <2>1. PICK k \in EventKinds, p \in Slots :
          /\ link # <<>>
          /\ channels' = Recorded(channels, Event(k, p))
          /\ listed' = RecordedKeys(channels, Event(k, p))
    BY <1>13 DEF recordLifecycleEvent, Receive
  <2>2. channels' \in Rosters
    BY <2>1, RecordedType DEF Types
  <2>3. Event(k, p).slot[1] \in Channels
    BY DEF Event, Slots
  <2>4. listed' \subseteq Channels
    BY <2>1, <2>3 DEF RecordedKeys, Types
  <2>5. link' \in Seq(Frames)
    BY <1>13, <2>1, LinkType DEF recordLifecycleEvent
  <2>6. QED
    BY <1>13, <2>2, <2>4, <2>5 DEF recordLifecycleEvent, Types, relayVars, boundVars
<1>14. CASE link # <<>> /\ ReceiveChunk(Head(link))
  <2>1. Head(link) \in Chunks /\ link' \in Seq(Frames)
    BY <1>14, LinkType, HeadChunk DEF ReceiveChunk
  <2>2. got' = got \cup {Head(link)} /\ got' \subseteq Chunks
    BY <1>14, <2>1 DEF ReceiveChunk, Types
  <2>3. CASE applyRelayStateSnapshot(got')
    <3>1. channels' \in Rosters /\ listed' \subseteq Channels
      BY <2>2, <2>3, AssembledType, OccupiedType DEF applyRelayStateSnapshot
    <3>2. QED
      BY <1>14, <2>1, <2>2, <2>3, <3>1
         DEF applyRelayStateSnapshot, ReceiveChunk, Types, relayVars, boundVars
  <2>4. CASE UNCHANGED stateVars
    BY <1>14, <2>1, <2>2, <2>4 DEF ReceiveChunk, Types, relayVars, boundVars, stateVars
  <2>5. QED
    BY <1>14, <2>2, <2>3, <2>4 DEF ReceiveChunk
<1>15. CASE link # <<>> /\ RejectChunk(Head(link))
  <2>1. link' \in Seq(Frames)
    BY <1>15, EmptySeq DEF RejectChunk, Close
  <2>2. QED
    BY <1>15, <2>1 DEF RejectChunk, Close, Types, stateVars, boundVars, SessionStates
<1>16. CASE UNCHANGED vars
  BY <1>16 DEF vars, relayVars, stateVars, boundVars, Types
<1>17. QED
  BY <1>1, <1>2, <1>3, <1>4, <1>5, <1>6, <1>7, <1>8, <1>9, <1>10, <1>11, <1>12, <1>13,
     <1>14, <1>15, <1>16 DEF Next, ReceiveFrame

\* The types hold at the start.
LEMMA TypeInit == Init => Types
<1> SUFFICES ASSUME Init PROVE Types
  OBVIOUS
<1>1. NoOne \in Rosters
  BY DEF NoOne, Rosters, States
<1>2. link \in Seq(Frames)
  BY EmptySeq DEF Init
<1>3. sid \in SnapshotIds /\ changes \in 0 .. MaxChanges /\ faults \in 0 .. MaxFaults
  BY ProjectionAssumption DEF Init, SnapshotIds
<1>4. QED
  BY <1>1, <1>2, <1>3 DEF Init, Types, SessionStates

\* Frames, rosters and states keep their types in every reachable state.
THEOREM TypeCorrect == Spec => []TypeOK
BY TypeInit, TypeStep, TypesImplyTypeOK, PTL DEF Spec

-----------------------------------------------------------------------------
(***************************************************************************)
(* The roster that is served is of this connection.                        *)
(***************************************************************************)

\* From markDisconnected to the next hello_ack the state is not connected, so
\* the roster of the last connection is not served when the next one starts.
ServedInv ==
  /\ session \in {"down", "hello"} => ~connected
  /\ ServedIsOfThisConnection

\* Steps that leave the served state and do not enter a waiting state.
LEMMA ServedFrame ==
  ASSUME ServedInv, UNCHANGED stateVars, session' = session \/ session' = "closed"
  PROVE  ServedInv'
BY DEF ServedInv, ServedIsOfThisConnection, Ready, stateVars

\* Every action keeps ServedInv.
LEMMA ServedStep == ServedInv /\ [Next]_vars => ServedInv'
<1> SUFFICES ASSUME ServedInv, [Next]_vars PROVE ServedInv'
  OBVIOUS
<1>1. ASSUME NEW p \in Slots, \/ \E b \in States : Change(p, b)
                              \/ OtherEvent(p)
      PROVE  ServedInv'
  BY <1>1, ServedFrame DEF Change, OtherEvent
<1>2. CASE \/ RelayAccept \/ RelaySnapshot \/ RelayWriteChunk
           \/ RelayRestartSnapshot \/ RelayListTwice \/ RelayRepeatChunk
  BY <1>2, ServedFrame DEF RelayAccept, RelaySnapshot, RelayWriteChunk,
     RelayRestartSnapshot, RelayListTwice, RelayRepeatChunk
<1>3. CASE Dial
  BY <1>3 DEF Dial, ServedInv, ServedIsOfThisConnection, Ready
<1>4. CASE LoseConnection
  BY <1>4, ServedFrame DEF LoseConnection, Close
<1>5. CASE markDisconnected
  BY <1>5 DEF markDisconnected, ServedInv, ServedIsOfThisConnection, Ready
<1>6. CASE ReceiveHelloAck
  BY <1>6 DEF ReceiveHelloAck, markConnected, ServedInv, ServedIsOfThisConnection, Ready
<1>7. CASE recordLifecycleEvent
  BY <1>7 DEF recordLifecycleEvent, ServedInv, ServedIsOfThisConnection, Ready
<1>8. CASE ReceiveChunk(Head(link))
  <2>1. CASE UNCHANGED stateVars
    BY <1>8, <2>1, ServedFrame DEF ReceiveChunk
  <2>2. CASE applyRelayStateSnapshot(got \cup {Head(link)})
    BY <1>8, <2>2 DEF ReceiveChunk, applyRelayStateSnapshot, ServedInv,
       ServedIsOfThisConnection, Ready
  <2>3. QED
    BY <1>8, <2>1, <2>2 DEF ReceiveChunk
<1>9. CASE RejectChunk(Head(link))
  BY <1>9, ServedFrame DEF RejectChunk, Close
<1>10. CASE UNCHANGED vars
  BY <1>10, ServedFrame DEF vars
<1>11. QED
  BY <1>1, <1>2, <1>3, <1>4, <1>5, <1>6, <1>7, <1>8, <1>9, <1>10 DEF Next, ReceiveFrame

\* The API never serves the roster of a connection before the last, nor one of
\* the last that is not from a complete snapshot.
THEOREM ServedIsOfThisConnectionHolds == Spec => []ServedIsOfThisConnection
<1>1. Init => ServedInv
  BY DEF Init, ServedInv, ServedIsOfThisConnection, Ready
<1>2. ServedInv => ServedIsOfThisConnection
  BY DEF ServedInv
<1>3. QED
  BY <1>1, <1>2, ServedStep, PTL DEF Spec

-----------------------------------------------------------------------------
(***************************************************************************)
(* A snapshot is applied whole.                                            *)
(***************************************************************************)

\* What the tests of add leave of the chunks received.
OneSnapshot(fs) ==
  /\ IsFiniteSet(fs)
  /\ \A f, g \in fs : /\ f.id = g.id /\ f.count = g.count
                      /\ f.index = g.index => f = g

Whole(fs) == (\E f \in fs : Complete(fs, f.count)) /\ ~ListedTwice(fs)

ReassemblyInv ==
  /\ OneSnapshot(got)
  /\ snapshotAt /\ session = "open" => Whole(got)

\* As many chunks as the count says, with different indices: all indices.
LEMMA AllIndices ==
  ASSUME NEW fs \in SUBSET Chunks, OneSnapshot(fs), NEW g \in fs, Complete(fs, g.count)
  PROVE  {f.index : f \in fs} = 1 .. g.count
<1> DEFINE n == g.count
           idx == [f \in fs |-> f.index]
<1>1. \A f \in fs : f.index \in 1 .. n
  BY ChunkIsFrame DEF OneSnapshot
<1>2. n \in Nat
  BY ChunkIsFrame
<1>3. IsFiniteSet(1 .. n) /\ Cardinality(1 .. n) = n
  <2>1. 1 \in Int /\ n \in Int
    BY <1>2
  <2> HIDE DEF n
  <2>2. IsFiniteSet(1 .. n) /\ Cardinality(1 .. n) = IF 1 > n THEN 0 ELSE n - 1 + 1
    BY <2>1, FS_Interval, Zenon
  <2>3. (IF 1 > n THEN 0 ELSE n - 1 + 1) = n
    BY <1>2
  <2>4. QED
    BY <2>2, <2>3
<1>4. idx \in Injection(fs, 1 .. n)
  BY <1>1 DEF OneSnapshot, Injection, IsInjective
<1>5. idx \in Surjection(fs, 1 .. n)
  <2>1. Cardinality(fs) = Cardinality(1 .. n)
    BY <1>3 DEF Complete
  <2> HIDE DEF idx, n
  <2>2. QED
    BY <1>3, <1>4, <2>1, FS_Injection
<1>6. \A i \in 1 .. n : \E f \in fs : f.index = i
  BY <1>5 DEF Surjection
<1>7. QED
  BY <1>1, <1>6

\* No chunk is taken after the snapshot is complete.
LEMMA NoChunkAfter ==
  ASSUME Types, OneSnapshot(got), Whole(got), NEW f \in Chunks, Consistent(f)
  PROVE  Duplicate(f)
<1>1. PICK g \in got : Complete(got, g.count)
  BY DEF Whole
<1>2. {h.index : h \in got} = 1 .. g.count
  BY <1>1, AllIndices DEF Types
<1>3. f.index \in 1 .. g.count
  BY ChunkIsFrame DEF Consistent
<1>4. QED
  BY <1>2, <1>3 DEF Duplicate

\* Steps that do not touch the reassembly and apply nothing.
LEMMA ReassemblyFrame ==
  ASSUME ReassemblyInv, got' = got, snapshotAt' = snapshotAt,
         session' = session \/ session' # "open"
  PROVE  ReassemblyInv'
<1>1. OneSnapshot(got)' /\ (Whole(got) => Whole(got)')
  BY DEF ReassemblyInv, OneSnapshot, Whole, Complete, ListedTwice
<1>2. QED
  BY <1>1 DEF ReassemblyInv

\* The end of a session forgets the chunks.
LEMMA ReassemblyClose ==
  ASSUME Close
  PROVE  ReassemblyInv'
<1>1. got' = {} /\ session' # "open"
  BY DEF Close
<1>2. OneSnapshot(got)'
  BY <1>1, FS_EmptySet DEF OneSnapshot
<1>3. QED
  BY <1>1, <1>2 DEF ReassemblyInv

\* Every action keeps ReassemblyInv.
LEMMA ReassemblyStep == Types /\ ReassemblyInv /\ [Next]_vars => ReassemblyInv'
<1> SUFFICES ASSUME Types, ReassemblyInv, [Next]_vars PROVE ReassemblyInv'
  OBVIOUS
<1>1. ASSUME NEW p \in Slots, \/ \E b \in States : Change(p, b)
                              \/ OtherEvent(p)
      PROVE  ReassemblyInv'
  BY <1>1, ReassemblyFrame DEF Change, OtherEvent, stateVars
<1>2. CASE \/ RelayAccept \/ RelaySnapshot \/ RelayWriteChunk
           \/ RelayRestartSnapshot \/ RelayListTwice \/ RelayRepeatChunk
  BY <1>2, ReassemblyFrame DEF RelayAccept, RelaySnapshot, RelayWriteChunk,
     RelayRestartSnapshot, RelayListTwice, RelayRepeatChunk, stateVars
<1>3. CASE Dial
  BY <1>3, ReassemblyFrame DEF Dial
<1>4. CASE LoseConnection
  BY <1>4, ReassemblyClose DEF LoseConnection
<1>5. CASE markDisconnected
  BY <1>5, ReassemblyFrame DEF markDisconnected
<1>6. CASE ReceiveHelloAck
  <2>1. got' = got /\ ~snapshotAt'
    BY <1>6 DEF ReceiveHelloAck, markConnected
  <2>2. OneSnapshot(got)'
    BY <2>1 DEF ReassemblyInv, OneSnapshot
  <2>3. QED
    BY <2>1, <2>2 DEF ReassemblyInv
<1>7. CASE recordLifecycleEvent
  BY <1>7, ReassemblyFrame DEF recordLifecycleEvent
<1>8. CASE link # <<>> /\ ReceiveChunk(Head(link))
  <2> DEFINE f == Head(link)
  <2>1. f \in Chunks
    BY <1>8, HeadChunk DEF ReceiveChunk
  <2> HIDE DEF f
  <2>2. /\ session = "open" /\ session' = "open"
        /\ Consistent(f) /\ ~Duplicate(f)
        /\ got' = got \cup {f}
        /\ Complete(got', f.count) => ~ListedTwice(got')
        /\ Complete(got', f.count) \/ UNCHANGED stateVars
    BY <1>8 DEF ReceiveChunk, f
  <2>3. ~snapshotAt
    BY <2>1, <2>2, NoChunkAfter DEF ReassemblyInv
  <2>4. OneSnapshot(got)'
    <3>1. IsFiniteSet(got')
      BY <2>2, FS_AddElement DEF ReassemblyInv, OneSnapshot
    <3>2. \A g, h \in got' : /\ g.id = h.id /\ g.count = h.count
                             /\ g.index = h.index => g = h
      BY <2>2 DEF ReassemblyInv, OneSnapshot, Consistent, Duplicate
    <3>3. QED
      BY <3>1, <3>2 DEF OneSnapshot
  <2>5. CASE Complete(got', f.count)
    <3>1. Whole(got)'
      BY <2>2, <2>5 DEF Whole, Complete, ListedTwice
    <3>2. QED
      BY <2>4, <3>1 DEF ReassemblyInv
  <2>6. CASE UNCHANGED stateVars
    BY <2>3, <2>4, <2>6 DEF ReassemblyInv, stateVars
  <2>7. QED
    BY <2>2, <2>5, <2>6
<1>9. CASE RejectChunk(Head(link))
  BY <1>9, ReassemblyClose DEF RejectChunk
<1>10. CASE UNCHANGED vars
  BY <1>10, ReassemblyFrame DEF vars, stateVars
<1>11. QED
  BY <1>1, <1>2, <1>3, <1>4, <1>5, <1>6, <1>7, <1>8, <1>9, <1>10 DEF Next, ReceiveFrame

\* The roster is only ever built from every chunk of one snapshot_id, and the
\* "incomplete" error of privateControlSnapshotReassembly.add is never met.
THEOREM SnapshotWholeHolds == Spec => []SnapshotWhole
<1>1. ASSUME Init PROVE ReassemblyInv
  BY <1>1, FS_EmptySet DEF Init, ReassemblyInv, OneSnapshot
<1>2. ASSUME Types, ReassemblyInv PROVE SnapshotWhole
  <2> SUFFICES ASSUME Ready, session = "open"
               PROVE  /\ \E f \in got : /\ \A g \in got : g.id = f.id /\ g.count = f.count
                                        /\ {g.index : g \in got} = 1 .. f.count
                      /\ ~ListedTwice(got)
    BY DEF SnapshotWhole
  <2>1. OneSnapshot(got) /\ Whole(got)
    BY <1>2 DEF ReassemblyInv, Ready
  <2>2. PICK g \in got : Complete(got, g.count)
    BY <2>1 DEF Whole
  <2>3. {f.index : f \in got} = 1 .. g.count
    BY <1>2, <2>1, <2>2, AllIndices DEF Types
  <2>4. \A f \in got : f.id = g.id /\ f.count = g.count
    BY <2>1 DEF OneSnapshot
  <2>5. QED
    BY <2>1, <2>3, <2>4 DEF Whole
<1>3. QED
  BY <1>1, <1>2, TypeInit, TypeStep, ReassemblyStep, PTL DEF Spec
=============================================================================
