------------------------ MODULE DelayedRosterProofs ------------------------
(***************************************************************************)
(* The proof that RelayProjection implements DelayedRoster, for any        *)
(* channels, senders, chunk counts and bounds, and a Relay that writes no  *)
(* event between the chunks of a snapshot.                                 *)
(***************************************************************************)
EXTENDS ServedRoster, ServedRosterProofs

-----------------------------------------------------------------------------
(***************************************************************************)
(* The rosters ahead.                                                      *)
(***************************************************************************)

\* Norm leaves a roster.
LEMMA NormType ==
  ASSUME NEW r \in Rosters
  PROVE  Norm(r) \in Rosters
BY DEF Norm, Rosters, States

\* The first frames of a sequence are frames.
LEMMA PrefixType ==
  ASSUME NEW l \in Seq(Frames), NEW n \in 0 .. Len(l)
  PROVE  SubSeq(l, 1, n) \in Seq(Frames)
<1>1. Len(l) \in Nat
  BY LenProperties
<1>2. \A i \in 1 .. n : l[i] \in Frames
  BY <1>1, ElementOfSeq
<1>3. 1 \in Int /\ n \in Int
  BY <1>1
<1>4. QED
  BY <1>2, <1>3, SubSeqProperties

\* The rosters ahead: how many, the first and the last.
LEMMA AheadShape ==
  ASSUME NEW c \in Rosters, NEW l \in Seq(Frames)
  PROVE  /\ Ahead(c, l) \in Seq(Rosters)
         /\ Len(Ahead(c, l)) = Len(l) + 1
         /\ Len(l) \in Nat
         /\ Ahead(c, l)[1] = Norm(c)
         /\ Ahead(c, l)[Len(l) + 1] = Norm(Replay(c, l))
         /\ \A i \in 1 .. Len(l) + 1 : Ahead(c, l)[i] = Norm(Replay(c, SubSeq(l, 1, i - 1)))
         /\ Ahead(c, l) # <<>>
<1> DEFINE n == Len(l) + 1
           r(i) == Norm(Replay(c, SubSeq(l, 1, i - 1)))
<1>1. Len(l) \in Nat /\ n \in Nat /\ n # 0 /\ n - 1 = Len(l)
  BY LenProperties
<1>2. ASSUME NEW i \in 1 .. n PROVE r(i) \in Rosters
  <2>1. i - 1 \in 0 .. Len(l)
    BY <1>1
  <2>2. QED
    BY <2>1, PrefixType, ReplayType, NormType
<1>3. r(1) = Norm(c)
  <2>1. SubSeq(l, 1, 1 - 1) = <<>>
    BY SubSeqEmpty
  <2>2. QED
    BY <2>1, ReplayEmpty
<1>4. r(n) = Norm(Replay(c, l))
  <2>1. SubSeq(l, 1, n - 1) = l
    BY <1>1, SubSeqFull
  <2>2. QED
    BY <2>1
<1>5. Ahead(c, l) = [i \in 1 .. n |-> r(i)]
  BY DEF Ahead
<1> HIDE DEF r, n
<1>6. /\ Ahead(c, l) \in Seq(Rosters) /\ Len(Ahead(c, l)) = n
      /\ \A i \in 1 .. n : Ahead(c, l)[i] = r(i)
  BY <1>1, <1>2, <1>5
<1>7. Ahead(c, l) # <<>>
  BY <1>1, <1>6, EmptySeq
<1>8. 1 \in 1 .. n /\ n \in 1 .. n
  BY <1>1
<1>9. QED
  BY <1>1, <1>3, <1>4, <1>6, <1>7, <1>8 DEF r, n

\* Nothing in flight.
LEMMA AheadEmpty ==
  ASSUME NEW c \in Rosters
  PROVE  Ahead(c, <<>>) = <<Norm(c)>>
<1>1. PICK l \in Seq(Frames) : l = <<>>
  BY EmptySeq
<1>2. Len(l) = 0
  BY <1>1, EmptySeq
<1>3. Ahead(c, l) \in Seq(Rosters) /\ Len(Ahead(c, l)) = Len(l) + 1 /\ Ahead(c, l)[1] = Norm(c)
  BY AheadShape
<1>4. <<Norm(c)>> \in Seq(Rosters) /\ Len(<<Norm(c)>>) = 1 /\ <<Norm(c)>>[1] = Norm(c)
  BY NormType
<1>5. Len(Ahead(c, l)) = 1 /\ \A i \in 1 .. 1 : Ahead(c, l)[i] = <<Norm(c)>>[i]
  BY <1>2, <1>3, <1>4
<1>6. Ahead(c, l) = <<Norm(c)>>
  BY <1>3, <1>4, <1>5, SeqEqual
<1>7. QED
  BY <1>1, <1>6

\* New frames leave the rosters ahead and add to them.
LEMMA AheadConcat ==
  ASSUME NEW c \in Rosters, NEW l \in Seq(Frames), NEW es \in Seq(Frames)
  PROVE  Copy!Extends(Ahead(c, l), Ahead(c, l \o es))
<1>1. l \o es \in Seq(Frames) /\ Len(l \o es) = Len(l) + Len(es) /\ Len(es) \in Nat /\ Len(l) \in Nat
  BY ConcatProperties, LenProperties
<1>2. ASSUME NEW i \in 1 .. Len(l) + 1
      PROVE  SubSeq(l \o es, 1, i - 1) = SubSeq(l, 1, i - 1)
  <2>1. CASE i = 1
    BY <2>1, SubSeqEmpty
  <2>2. CASE i # 1
    <3>1. 1 \in 1 .. Len(l) /\ i - 1 \in 1 .. Len(l)
      BY <1>1, <2>2
    <3>2. QED
      BY <3>1, SubSeqOfConcat1
  <2>3. QED
    BY <2>1, <2>2
<1>3. \A i \in 1 .. Len(l) + 1 : i \in 1 .. Len(l \o es) + 1
  BY <1>1
<1>4. /\ Len(Ahead(c, l)) = Len(l) + 1
      /\ \A i \in 1 .. Len(l) + 1 : Ahead(c, l)[i] = Norm(Replay(c, SubSeq(l, 1, i - 1)))
  BY AheadShape
<1>5. PICK m \in Seq(Frames) : m = l \o es
  BY <1>1
<1>6. /\ Len(Ahead(c, m)) = Len(m) + 1
      /\ \A i \in 1 .. Len(m) + 1 : Ahead(c, m)[i] = Norm(Replay(c, SubSeq(m, 1, i - 1)))
  BY AheadShape
<1>7. Len(Ahead(c, l)) <= Len(Ahead(c, m))
  BY <1>1, <1>4, <1>5, <1>6
<1>8. \A i \in 1 .. Len(Ahead(c, l)) : Ahead(c, m)[i] = Ahead(c, l)[i]
  BY <1>2, <1>3, <1>4, <1>5, <1>6
<1>9. QED
  BY <1>5, <1>7, <1>8 DEF Copy!Extends

\* Applying the first frame makes the second of the rosters ahead the first.
LEMMA AheadTail ==
  ASSUME NEW c \in Rosters, NEW l \in Seq(Frames), l # <<>>
  PROVE  Ahead(Apply(c, Head(l)), Tail(l)) = Tail(Ahead(c, l))
<1>1. PICK m \in Seq(Frames) : m = Tail(l)
  BY HeadTailProperties
<1>2. PICK d \in Rosters : d = Apply(c, Head(l))
  BY HeadTailProperties, ApplyType
<1>3. Len(l) \in Nat \ {0} /\ Len(m) = Len(l) - 1
  BY <1>1, EmptySeq, HeadTailProperties
<1> DEFINE a == Ahead(c, l)
           b == Ahead(d, m)
<1>4. /\ a \in Seq(Rosters) /\ Len(a) = Len(l) + 1 /\ a # <<>>
      /\ \A i \in 1 .. Len(l) + 1 : a[i] = Norm(Replay(c, SubSeq(l, 1, i - 1)))
  BY AheadShape
<1>5. /\ b \in Seq(Rosters) /\ Len(b) = Len(m) + 1
      /\ \A i \in 1 .. Len(m) + 1 : b[i] = Norm(Replay(d, SubSeq(m, 1, i - 1)))
  BY AheadShape
<1> HIDE DEF a, b
<1>6. ASSUME NEW i \in 1 .. Len(l)
      PROVE  Replay(c, SubSeq(l, 1, i)) = Replay(d, SubSeq(m, 1, i - 1))
  <2>1. i \in 0 .. Len(l) /\ 1 \in 1 .. Len(l) /\ i \in 1 .. Len(l)
    BY <1>3
  <2>2. PICK s : s = SubSeq(l, 1, i)
    OBVIOUS
  <2>3. s \in Seq(Frames)
    BY <2>1, <2>2, PrefixType
  <2>4. Head(s) = l[1] /\ Tail(s) = SubSeq(l, 1 + 1, i)
    BY <2>1, <2>2, HeadTailOfSubSeq
  <2>5. s # <<>>
    <3>1. \A k \in 1 .. i : l[k] \in Frames
      BY <1>3, ElementOfSeq
    <3>2. Len(s) = i
      BY <2>1, <2>2, <3>1, SubSeqProperties
    <3>3. QED
      BY <1>3, <3>2, EmptySeq
  <2>6. SubSeq(m, 1, i - 1) = SubSeq(l, 1 + 1, i)
    <3>1. CASE i = 1
      <4>1. SubSeq(m, 1, i - 1) = <<>> /\ SubSeq(l, 1 + 1, i) = <<>>
        BY <3>1, SubSeqEmpty
      <4>2. QED
        BY <4>1
    <3>2. CASE i # 1
      <4>1. m = SubSeq(l, 2, Len(l))
        BY <1>1, TailIsSubSeq
      <4>2. /\ 2 \in 1 .. Len(l) /\ Len(l) \in 1 .. Len(l)
            /\ 1 \in 1 .. Len(l) - 2 + 1 /\ i - 1 \in 1 .. Len(l) - 2 + 1
            /\ 2 + 1 - 1 = 1 + 1 /\ 2 + (i - 1) - 1 = i
        BY <1>3, <3>2
      <4>3. SubSeq(SubSeq(l, 2, Len(l)), 1, i - 1) = SubSeq(l, 2 + 1 - 1, 2 + (i - 1) - 1)
        BY <4>2, SubSeqOfSubSeq
      <4>4. QED
        BY <4>1, <4>2, <4>3
    <3>3. QED
      BY <3>1, <3>2
  <2>7. Replay(c, s) = Replay(Apply(c, Head(s)), Tail(s))
    BY <2>3, <2>5, ReplayTail
  <2>8. Head(s) = Head(l)
    BY <2>4
  <2>9. QED
    BY <1>2, <2>2, <2>4, <2>6, <2>7, <2>8
<1>7. /\ Tail(a) \in Seq(Rosters) /\ Len(Tail(a)) = Len(a) - 1
      /\ \A i \in 1 .. Len(Tail(a)) : Tail(a)[i] = a[i + 1]
  BY <1>4, HeadTailProperties
<1>8. Len(b) = Len(Tail(a))
  BY <1>3, <1>4, <1>5, <1>7
<1>9. ASSUME NEW i \in 1 .. Len(b) PROVE b[i] = Tail(a)[i]
  <2>1. /\ i \in 1 .. Len(l) /\ i \in 1 .. Len(m) + 1 /\ i \in 1 .. Len(Tail(a))
        /\ i + 1 \in 1 .. Len(l) + 1 /\ (i + 1) - 1 = i
    BY <1>3, <1>5, <1>8
  <2>2. a[i + 1] = Norm(Replay(c, SubSeq(l, 1, i)))
    BY <1>4, <2>1
  <2>3. QED
    BY <1>5, <1>6, <1>7, <2>1, <2>2
<1>10. b = Tail(a)
  BY <1>5, <1>7, <1>8, <1>9, SeqEqual
<1>11. QED
  BY <1>1, <1>2, <1>10 DEF a, b

-----------------------------------------------------------------------------
(***************************************************************************)
(* The steps. With the invariants of the other proof modules, each of them *)
(* is a step of the copy or leaves it as it is.                            *)
(***************************************************************************)
Inv == Types /\ ServedInv /\ ReassemblyInv /\ RosterInv

\* A roster that the frames lead to r is followed by what ends with r.
LEMMA AheadEnds ==
  ASSUME NEW c \in Rosters, NEW l \in Seq(Frames), NEW r, LeadsTo(c, l, r)
  PROVE  Copy!EndsWith(Ahead(c, l), Norm(r))
<1>1. Len(Ahead(c, l)) = Len(l) + 1 /\ Ahead(c, l)[Len(l) + 1] = Norm(Replay(c, l))
      /\ Ahead(c, l) # <<>>
  BY AheadShape
<1>2. QED
  BY <1>1 DEF Copy!EndsWith, LeadsTo

\* A roster that is served without a session is one whose session has ended.
LEMMA StaleLink ==
  ASSUME Inv, Ready, session # "open"
  PROVE  session = "closed" /\ link = <<>> /\ ~subscribed
BY DEF Inv, Types, SessionStates, ServedInv, Ready, RosterInv, SessionInv

\* Steps that change nothing a reader can see.
LEMMA CopyStutter ==
  ASSUME relay' = relay, ~Ready, ~Ready'
  PROVE  UNCHANGED Copy!vars
BY DEF Copy!vars

\* Whatever the Relay does, what it has written stays.
LEMMA CopyChange ==
  ASSUME Inv, Inv', session' = session, UNCHANGED stateVars,
         NEW es \in Seq(Frames), link' = link \/ (link' = link \o es /\ subscribed)
  PROVE  Copy!Change
<1>1. /\ connected' = connected /\ snapshotAt' = snapshotAt /\ channels' = channels
      /\ channels \in Rosters /\ link \in Seq(Frames) /\ link' \in Seq(Frames)
  BY DEF stateVars, Inv, Types
<1>2. Norm(relay') \in Rosters
  BY NormType DEF Inv, Types
<1>3. Ready' = Ready
  BY <1>1 DEF Ready
<1>4. CASE Ready /\ session = "open"
  <2>1. LeadsTo(channels', link', relay')
    BY <1>3, <1>4 DEF Ready, Inv, RosterInv, SyncInv, AppliedInv
  <2>2. Copy!EndsWith(Ahead(channels, link'), Norm(relay'))
    BY <1>1, <2>1, AheadEnds
  <2>3. Copy!Extends(Ahead(channels, link), Ahead(channels, link'))
    <3>1. CASE link' = link \o es
      BY <1>1, <3>1, AheadConcat
    <3>2. CASE link' = link
      BY <1>1, <3>2, AheadShape DEF Copy!Extends
    <3>3. QED
      BY <3>1, <3>2
  <2>4. QED
    BY <1>1, <1>2, <1>3, <1>4, <2>2, <2>3 DEF Copy!Change
<1>5. CASE Ready /\ session # "open"
  <2>1. link' = link
    BY <1>5, StaleLink
  <2>2. QED
    BY <1>1, <1>2, <1>3, <1>5, <2>1 DEF Copy!Change
<1>6. CASE ~Ready
  BY <1>2, <1>3, <1>6 DEF Copy!Change
<1>7. QED
  BY <1>4, <1>5, <1>6

\* The end of a session: the served roster stays, what followed it is lost.
LEMMA CopyClose ==
  ASSUME Inv, Close, UNCHANGED <<relay, stateVars>>
  PROVE  Copy!Next \/ UNCHANGED Copy!vars
<1>1. /\ relay' = relay /\ channels' = channels /\ channels \in Rosters /\ link \in Seq(Frames)
      /\ link' = <<>> /\ session' = "closed"
  BY DEF stateVars, Close, Inv, Types
<1>2. Ready' = Ready
  BY DEF Ready, stateVars
<1>3. Ahead(channels, <<>>) = <<Norm(channels)>>
  BY <1>1, AheadEmpty
<1>4. Head(Ahead(channels, link)) = Norm(channels)
  BY <1>1, AheadShape
<1>5. CASE Ready /\ session = "open"
  <2>1. Copy!Lose
    BY <1>1, <1>2, <1>3, <1>4, <1>5 DEF Copy!Lose
  <2>2. QED
    BY <2>1 DEF Copy!Next
<1>6. CASE Ready /\ session # "open"
  <2>1. link' = link
    BY <1>1, <1>6, StaleLink
  <2>2. QED
    BY <1>1, <1>2, <1>6, <2>1 DEF Copy!vars
<1>7. CASE ~Ready
  BY <1>1, <1>2, <1>7, CopyStutter
<1>8. QED
  BY <1>5, <1>6, <1>7

\* recordLifecycleEvent takes the served roster one step on.
LEMMA CopyAdvance ==
  ASSUME Inv, recordLifecycleEvent
  PROVE  Copy!Next \/ UNCHANGED Copy!vars
<1>1. PICK k \in EventKinds, p \in Slots :
        link # <<>> /\ Event(k, p) = Head(link) /\ channels' = Recorded(channels, Event(k, p))
  BY DEF recordLifecycleEvent, Receive
<1>2. channels' = Apply(channels, Head(link))
  <2>1. Event(k, p).type = "event"
    BY DEF Event
  <2>2. QED
    BY <1>1, <2>1 DEF Apply
<1>3. /\ session = "open" /\ session' = session /\ link' = Tail(link) /\ relay' = relay
      /\ channels \in Rosters /\ link \in Seq(Frames)
  BY DEF recordLifecycleEvent, relayVars, Inv, Types
<1>4. Ready' = Ready
  BY DEF recordLifecycleEvent, Ready
<1>5. CASE Ready
  <2>1. Ahead(channels', link') = Tail(Ahead(channels, link))
    BY <1>1, <1>2, <1>3, AheadTail
  <2>2. Len(Ahead(channels, link)) > 1
    <3>1. Len(Ahead(channels, link)) = Len(link) + 1
      BY <1>3, AheadShape
    <3>2. Len(link) \in Nat \ {0}
      BY <1>1, <1>3, EmptySeq
    <3>3. QED
      BY <3>1, <3>2
  <2>3. Copy!Advance
    BY <1>3, <1>4, <1>5, <2>1, <2>2 DEF Copy!Advance
  <2>4. QED
    BY <2>3 DEF Copy!Next
<1>6. CASE ~Ready
  BY <1>3, <1>4, <1>6, CopyStutter
<1>7. QED
  BY <1>5, <1>6

\* ReceiveChunk publishes a roster, and only where none is served.
LEMMA CopyPublish ==
  ASSUME Inv, Inv', link # <<>>, ReceiveChunk(Head(link))
  PROVE  Copy!Next \/ UNCHANGED Copy!vars
<1>1. Head(link) \in Chunks
  BY HeadChunk DEF Inv, ReceiveChunk
<1>2. /\ session = "open" /\ session' = session /\ relay' = relay
      /\ Consistent(Head(link)) /\ ~Duplicate(Head(link))
  BY DEF ReceiveChunk, relayVars
<1>3. ~Ready
  <2>1. ~snapshotAt
    BY <1>1, <1>2, NoChunkAfter DEF Inv, ReassemblyInv
  <2>2. QED
    BY <2>1 DEF Ready
<1>4. CASE Ready'
  <2>1. LeadsTo(channels', link', relay')
    BY <1>2, <1>4 DEF Ready, Inv, RosterInv, SyncInv, AppliedInv
  <2>2. channels' \in Rosters /\ link' \in Seq(Frames)
    BY DEF Inv, Types
  <2>3. Copy!EndsWith(Ahead(channels', link'), Norm(relay'))
    BY <2>1, <2>2, AheadEnds
  <2>4. Copy!Publish
    BY <1>2, <1>3, <1>4, <2>3 DEF Copy!Publish
  <2>5. QED
    BY <2>4 DEF Copy!Next
<1>5. CASE ~Ready'
  BY <1>2, <1>3, <1>5, CopyStutter
<1>6. QED
  BY <1>4, <1>5

\* Every step of RelayProjection is a step of the copy or a stutter.
LEMMA CopyStep == Inv /\ Inv' /\ [Next]_vars => [Copy!Next]_(Copy!vars)
<1> SUFFICES ASSUME Inv, Inv', [Next]_vars PROVE Copy!Next \/ UNCHANGED Copy!vars
  OBVIOUS
<1>1. ASSUME NEW es \in Seq(Frames), link' = link \/ (link' = link \o es /\ subscribed),
             session' = session, UNCHANGED stateVars
      PROVE  Copy!Next
  BY <1>1, CopyChange DEF Copy!Next
<1>2. ASSUME NEW p \in Slots, NEW b \in States, Change(p, b) PROVE Copy!Next
  <2>1. PICK es \in Announcements(p, relay[p], b) : WriteEvents(es)
    BY <1>2 DEF Change
  <2>2. es \in Seq(Frames)
    BY AnnouncementType
  <2>3. QED
    BY <1>1, <1>2, <2>1, <2>2 DEF Change, WriteEvents
<1>3. ASSUME NEW p \in Slots, OtherEvent(p) PROVE Copy!Next
  <2>1. Event("other", p) \in Frames
    BY EventType DEF EventKinds
  <2>2. <<Event("other", p)>> \in Seq(Frames)
    BY <2>1
  <2>3. QED
    BY <1>1, <1>3, <2>2 DEF OtherEvent, WriteEvents
<1>4. CASE RelayAccept
  <2>1. Ready' = Ready /\ relay' = relay
    BY <1>4 DEF RelayAccept, stateVars, Ready
  <2>2. ~Ready
    BY <1>4 DEF RelayAccept, Inv, ServedInv, Ready
  <2>3. QED
    BY <2>1, <2>2, CopyStutter
<1>5. CASE RelaySnapshot \/ RelayRestartSnapshot \/ RelayListTwice
  <2>1. <<>> \in Seq(Frames)
    BY EmptySeq
  <2>2. link' = link /\ session' = session /\ UNCHANGED stateVars
    BY <1>5 DEF RelaySnapshot, RelayRestartSnapshot, RelayListTwice
  <2>3. QED
    BY <1>1, <2>1, <2>2
<1>6. CASE RelayWriteChunk \/ RelayRepeatChunk
  <2>1. PICK f \in unsent : link' = Append(link, f)
    BY <1>6 DEF RelayWriteChunk, RelayRepeatChunk
  <2>2. f \in Frames /\ link \in Seq(Frames)
    BY DEF Inv, Types, Frames
  <2>3. link' = link \o <<f>> /\ <<f>> \in Seq(Frames)
    BY <2>1, <2>2, AppendIsConcat
  <2>4. subscribed
    BY DEF Inv, RosterInv, SessionInv
  <2>5. session' = session /\ UNCHANGED stateVars
    BY <1>6 DEF RelayWriteChunk, RelayRepeatChunk
  <2>6. QED
    BY <1>1, <2>3, <2>4, <2>5
<1>7. CASE Dial
  <2>1. ~Ready /\ ~Ready' /\ relay' = relay
    BY <1>7 DEF Dial, Inv, ServedInv, Ready, relayVars
  <2>2. QED
    BY <2>1, CopyStutter
<1>8. CASE LoseConnection
  BY <1>8, CopyClose DEF LoseConnection
<1>9. CASE RejectChunk(Head(link))
  BY <1>9, CopyClose DEF RejectChunk
<1>10. CASE markDisconnected
  <2>1. ~Ready' /\ session = "closed" /\ session' = "down" /\ relay' = relay
    BY <1>10 DEF markDisconnected, Ready, relayVars
  <2>2. Copy!Withdraw
    BY <2>1 DEF Copy!Withdraw
  <2>3. QED
    BY <2>2 DEF Copy!Next
<1>11. CASE ReceiveHelloAck
  <2>1. ~Ready /\ ~Ready' /\ relay' = relay
    BY <1>11 DEF ReceiveHelloAck, markConnected, Inv, ServedInv, Ready
  <2>2. QED
    BY <2>1, CopyStutter
<1>12. CASE recordLifecycleEvent
  BY <1>12, CopyAdvance
<1>13. CASE link # <<>> /\ ReceiveChunk(Head(link))
  BY <1>13, CopyPublish
<1>14. CASE UNCHANGED vars
  BY <1>14 DEF vars, relayVars, stateVars, Copy!vars, Ready
<1>15. QED
  BY <1>2, <1>3, <1>4, <1>5, <1>6, <1>7, <1>8, <1>9, <1>10, <1>11, <1>12, <1>13, <1>14
     DEF Next, ReceiveFrame

\* With a Relay that writes no event between the chunks of a snapshot, what the
\* API serves is the Relay's roster of a moment ago: it is published in step with
\* the Relay, follows it in order, is never replaced or set back while the
\* connection lives, and is withdrawn before the next one is published.
THEOREM ImplementsDelayedRosterHolds ==
  ASSUME EventsBetweenChunks = FALSE
  PROVE  Spec => ImplementsDelayedRoster
<1>1. Init => Copy!Init
  <2> SUFFICES ASSUME Init PROVE Copy!Init
    OBVIOUS
  <2>1. relay \in Rosters /\ ~Ready
    BY TypeInit DEF Init, Types, Ready
  <2>2. QED
    BY <2>1, NormType DEF Copy!Init
<1>2. Init => Inv
  BY TypeInit, RosterInit, FS_EmptySet
     DEF Inv, Init, ServedInv, ServedIsOfThisConnection, Ready, ReassemblyInv, OneSnapshot
<1>3. Inv /\ [Next]_vars => Inv'
  BY TypeStep, ServedStep, ReassemblyStep, SessionStep, ListedStep, SyncStep
     DEF Inv, RosterInv
<1>4. QED
  BY <1>1, <1>2, <1>3, CopyStep, PTL DEF Spec, ImplementsDelayedRoster, Copy!Spec
=============================================================================
