-------------------------- MODULE LiveEventsProofs --------------------------
(***************************************************************************)
(* Proofs about LiveEvents, for any clients, topics, buffer, number of     *)
(* slots and last event ID.                                                *)
(***************************************************************************)
EXTENDS LiveEvents, FiniteSetTheorems, SequenceTheorems, TLAPS

-----------------------------------------------------------------------------
(***************************************************************************)
(* Sequences.                                                              *)
(***************************************************************************)

\* A finite sequence given as a function on 1 .. n grows by one element.
LEMMA AppendToFunction ==
  ASSUME NEW S, NEW n \in Nat, NEW f \in [1 .. n -> S], NEW e \in S
  PROVE  Append(f, e) \in [1 .. n + 1 -> S]
<1>1. f \in Seq(S) /\ Len(f) = n
  BY SeqDef
<1>2. Append(f, e) \in Seq(S) /\ Len(Append(f, e)) = n + 1
  BY <1>1, AppendProperties
<1>3. QED
  BY <1>2, LenProperties

\* Sequence s counts up from the number after k.
Counts(s, k) == \A i \in 1 .. Len(s) : s[i] = k + i

\* Counting goes on after an Append of the next number.
LEMMA CountsAppend ==
  ASSUME NEW S, NEW s \in Seq(S), NEW k \in Int, Counts(s, k), NEW e \in S,
         e = k + Len(s) + 1
  PROVE  Append(s, e) \in Seq(S) /\ Len(Append(s, e)) = Len(s) + 1 /\ Counts(Append(s, e), k)
<1>1. /\ Append(s, e) \in Seq(S) /\ Len(Append(s, e)) = Len(s) + 1
      /\ \A i \in 1 .. Len(s) : Append(s, e)[i] = s[i]
      /\ Append(s, e)[Len(s) + 1] = e
  BY AppendProperties
<1>2. Len(s) \in Nat
  BY LenProperties
<1>3. ASSUME NEW i \in 1 .. Len(s) + 1 PROVE Append(s, e)[i] = k + i
  <2>1. CASE i \in 1 .. Len(s)
    BY <1>1, <2>1 DEF Counts
  <2>2. CASE i = Len(s) + 1
    BY <1>1, <1>2, <2>2
  <2>3. QED
    BY <1>2, <2>1, <2>2
<1>4. QED
  BY <1>1, <1>3 DEF Counts

\* Taking the head of a counting sequence leaves one that counts from the head.
LEMMA CountsTail ==
  ASSUME NEW S, NEW s \in Seq(S), NEW k \in Int, Counts(s, k), s # <<>>
  PROVE  /\ Head(s) = k + 1 /\ Head(s) \in S
         /\ Tail(s) \in Seq(S) /\ Len(Tail(s)) = Len(s) - 1
         /\ Counts(Tail(s), Head(s))
<1>1. /\ Head(s) \in S /\ Tail(s) \in Seq(S) /\ Len(Tail(s)) = Len(s) - 1
      /\ \A i \in 1 .. Len(Tail(s)) : Tail(s)[i] = s[i + 1]
  BY HeadTailProperties
<1>2. Len(s) \in Nat /\ Len(s) > 0
  BY EmptySeq, LenProperties
<1>3. Head(s) = s[1]
  OBVIOUS
<1>4. Head(s) = k + 1
  BY <1>2, <1>3 DEF Counts
<1>5. ASSUME NEW i \in 1 .. Len(Tail(s)) PROVE Tail(s)[i] = Head(s) + i
  <2>1. i + 1 \in 1 .. Len(s)
    BY <1>1, <1>2
  <2>2. s[i + 1] = k + (i + 1)
    BY <2>1 DEF Counts
  <2>3. QED
    BY <1>1, <1>4, <2>2
<1>6. QED
  BY <1>1, <1>4, <1>5 DEF Counts

-----------------------------------------------------------------------------
(***************************************************************************)
(* Type correctness.                                                       *)
(***************************************************************************)

\* Every action keeps the types.
LEMMA TypeStep == TypeOK /\ [Next]_vars => TypeOK'
<1> SUFFICES ASSUME TypeOK, [Next]_vars PROVE TypeOK'
  OBVIOUS
<1> USE LiveEventsAssumption DEF TypeOK
<1>1. ASSUME NEW c \in Clients, authenticate(c) PROVE TypeOK'
  BY <1>1 DEF authenticate, hubVars, HandlerStates
<1>2. ASSUME NEW c \in Clients, subscribe(c) PROVE TypeOK'
  <2>1. <<>> \in Seq(EventIDs)
    OBVIOUS
  <2>2. QED
    BY <1>2, <2>1 DEF subscribe, boundVars, HandlerStates
<1>3. ASSUME NEW c \in Clients, Refuse(c) PROVE TypeOK'
  BY <1>3 DEF Refuse, hubVars, streamVars, boundVars, HandlerStates
<1>4. ASSUME NEW t \in Topics, publish(t) PROVE TypeOK'
  <2>1. nextEventID' \in 1 .. LastEventID /\ nextEventID' = nextEventID + 1
    BY <1>4 DEF publish
  <2>2. topic' \in [1 .. nextEventID' -> Topics]
    BY <1>4, <2>1, AppendToFunction DEF publish
  <2>3. \A c \in Clients : Append(queue[c], nextEventID') \in Seq(EventIDs)
    BY <2>1, AppendProperties DEF EventIDs
  <2>4. queue' \in [Clients -> Seq(EventIDs)]
    BY <1>4, <2>3 DEF publish
  <2>5. closes' \in [Clients -> Nat] /\ subscribers' \subseteq Clients
    BY <1>4 DEF publish
  <2>6. QED
    BY <1>4, <2>1, <2>2, <2>4, <2>5 DEF publish, boundVars
<1>5. ASSUME NEW t \in Topics, publishExhausted(t) PROVE TypeOK'
  BY <1>5 DEF publishExhausted, vars, hubVars, streamVars, boundVars
<1>6. ASSUME NEW c \in Clients, ReceiveEvent(c) PROVE TypeOK'
  <2>1. /\ Head(queue[c]) \in EventIDs /\ Tail(queue[c]) \in Seq(EventIDs)
        /\ Append(written[c], Head(queue[c])) \in Seq(EventIDs)
    BY <1>6, HeadTailProperties, AppendProperties DEF ReceiveEvent
  <2>2. queue' \in [Clients -> Seq(EventIDs)] /\ taken' \in [Clients -> 0 .. LastEventID]
    BY <1>6, <2>1 DEF ReceiveEvent, EventIDs
  <2>3. written' \in [Clients -> Seq(EventIDs)]
    BY <1>6, <2>1 DEF ReceiveEvent
  <2>4. leaked' \in BOOLEAN
    BY <1>6 DEF ReceiveEvent
  <2>5. QED
    BY <1>6, <2>2, <2>3, <2>4 DEF ReceiveEvent, hubVars, boundVars
<1>7. ASSUME NEW c \in Clients, ReceiveClosed(c) \/ ClientGone(c) PROVE TypeOK'
  BY <1>7 DEF ReceiveClosed, ClientGone, hubVars, streamVars, boundVars, HandlerStates
<1>8. ASSUME NEW c \in Clients, unsubscribe(c) PROVE TypeOK'
  BY <1>8 DEF unsubscribe, boundVars, HandlerStates
<1>9. CASE AdoptAuthorizer
  BY <1>9 DEF AdoptAuthorizer, hubVars, streamVars
<1>10. CASE UNCHANGED vars
  BY <1>10 DEF vars, hubVars, streamVars, boundVars
<1>11. QED
  BY <1>1, <1>2, <1>3, <1>4, <1>5, <1>6, <1>7, <1>8, <1>9, <1>10 DEF Next

\* TypeOK holds in every reachable state.
THEOREM TypeCorrect == Spec => []TypeOK
<1>1. ASSUME Init PROVE TypeOK
  <2>1. topic \in [1 .. nextEventID -> Topics]
    BY <1>1 DEF Init
  <2>2. /\ queue \in [Clients -> Seq(EventIDs)]
        /\ written \in [Clients -> Seq(EventIDs)]
    BY <1>1, EmptySeq DEF Init
  <2>3. /\ nextEventID \in 0 .. LastEventID
        /\ first \in [Clients -> 0 .. LastEventID] /\ taken \in [Clients -> 0 .. LastEventID]
        /\ closes \in [Clients -> Nat]
        /\ opened \in 0 .. MaxOpened /\ reloads \in 0 .. MaxReloads
    BY <1>1, LiveEventsAssumption DEF Init
  <2>4. /\ acl \in [Clients -> SUBSET Topics] /\ service \in [Clients -> SUBSET Topics]
        /\ subscribers \subseteq Clients /\ handler \in [Clients -> HandlerStates]
        /\ leaked \in BOOLEAN
    BY <1>1 DEF Init, HandlerStates
  <2>5. QED
    BY <2>1, <2>2, <2>3, <2>4 DEF TypeOK
<1>2. QED
  BY <1>1, TypeStep, PTL DEF Spec

-----------------------------------------------------------------------------
(***************************************************************************)
(* Slots and closes.                                                       *)
(***************************************************************************)

\* A slot of the hub belongs to a handler that will give it back.
Owned == \A c \in subscribers : handler[c] \in {"streaming", "returning"}

Bounded == IsFiniteSet(subscribers) /\ Cardinality(subscribers) <= MaximumSubscribers

SlotInv == Owned /\ Bounded /\ ClosedOnce

\* Slots are only ever given up, but by subscribe.
LEMMA FewerSlots ==
  ASSUME Bounded, subscribers' \subseteq subscribers
  PROVE  Bounded'
<1>1. /\ IsFiniteSet(subscribers') /\ Cardinality(subscribers') <= Cardinality(subscribers)
      /\ Cardinality(subscribers) \in Nat /\ Cardinality(subscribers') \in Nat
  BY FS_Subset, FS_CardinalityType DEF Bounded
<1>2. QED
  BY <1>1, LiveEventsAssumption DEF Bounded

\* subscribe takes at most the last free slot.
LEMMA OneMoreSlot ==
  ASSUME Bounded, HasSlot, NEW c, subscribers' = subscribers \cup {c}
  PROVE  Bounded'
<1>1. /\ IsFiniteSet(subscribers') /\ Cardinality(subscribers) \in Nat
      /\ \/ Cardinality(subscribers') = Cardinality(subscribers)
         \/ Cardinality(subscribers') = Cardinality(subscribers) + 1
  BY FS_AddElement, FS_CardinalityType DEF Bounded
<1>2. QED
  BY <1>1, LiveEventsAssumption DEF Bounded, HasSlot

\* A channel is closed by the step that takes it from the hub.
LEMMA SlotStep == TypeOK /\ SlotInv /\ [Next]_vars => SlotInv'
<1> SUFFICES ASSUME TypeOK, SlotInv, [Next]_vars PROVE SlotInv'
  OBVIOUS
<1> USE DEF SlotInv
<1>1. ASSUME NEW c \in Clients, authenticate(c) PROVE SlotInv'
  <2>1. Bounded'
    BY <1>1, FewerSlots DEF authenticate, hubVars
  <2>2. QED
    BY <1>1, <2>1 DEF authenticate, hubVars, TypeOK, Owned, ClosedOnce
<1>2. ASSUME NEW c \in Clients, subscribe(c) PROVE SlotInv'
  <2>1. Bounded'
    BY <1>2, OneMoreSlot DEF subscribe
  <2>2. QED
    BY <1>2, <2>1 DEF subscribe, TypeOK, Owned, ClosedOnce
<1>3. ASSUME NEW c \in Clients, Refuse(c) PROVE SlotInv'
  <2>1. Bounded'
    BY <1>3, FewerSlots DEF Refuse, hubVars
  <2>2. QED
    BY <1>3, <2>1 DEF Refuse, hubVars, streamVars, TypeOK, Owned, ClosedOnce
<1>4. ASSUME NEW t \in Topics, publish(t) PROVE SlotInv'
  <2> DEFINE full == {c \in subscribers : ~HasRoom(c)}
  <2>1. /\ subscribers' = subscribers \ full /\ UNCHANGED handler
        /\ closes' = [c \in Clients |-> IF c \in full THEN closes[c] + 1 ELSE closes[c]]
    BY <1>4 DEF publish
  <2>2. Bounded'
    BY <2>1, FewerSlots
  <2>3. Owned'
    BY <2>1 DEF Owned
  <2>4. \A c \in full : closes[c] = 0
    BY DEF Owned, ClosedOnce, TypeOK
  <2>5. ClosedOnce'
    <3> HIDE DEF full
    <3>1. full \subseteq subscribers
      BY DEF full
    <3>2. QED
      BY <2>1, <2>4, <3>1 DEF ClosedOnce, TypeOK
  <2>6. QED
    BY <2>2, <2>3, <2>5
<1>5. ASSUME NEW t \in Topics, publishExhausted(t) PROVE SlotInv'
  BY <1>5 DEF publishExhausted, vars, hubVars, streamVars, Owned, Bounded, ClosedOnce
<1>6. ASSUME NEW c \in Clients, ReceiveEvent(c) PROVE SlotInv'
  BY <1>6 DEF ReceiveEvent, hubVars, Owned, Bounded, ClosedOnce
<1>7. ASSUME NEW c \in Clients, ReceiveClosed(c) \/ ClientGone(c) PROVE SlotInv'
  <2>1. Bounded'
    BY <1>7, FewerSlots DEF ReceiveClosed, ClientGone, hubVars
  <2>2. QED
    BY <1>7, <2>1 DEF ReceiveClosed, ClientGone, hubVars, streamVars, TypeOK, Owned,
                      ClosedOnce
<1>8. ASSUME NEW c \in Clients, unsubscribe(c) PROVE SlotInv'
  <2>1. Bounded'
    BY <1>8, FewerSlots DEF unsubscribe
  <2>2. QED
    BY <1>8, <2>1 DEF unsubscribe, TypeOK, Owned, ClosedOnce
<1>9. CASE AdoptAuthorizer
  BY <1>9 DEF AdoptAuthorizer, hubVars, streamVars, Owned, Bounded, ClosedOnce
<1>10. CASE UNCHANGED vars
  BY <1>10 DEF vars, hubVars, streamVars, Owned, Bounded, ClosedOnce
<1>11. QED
  BY <1>1, <1>2, <1>3, <1>4, <1>5, <1>6, <1>7, <1>8, <1>9, <1>10 DEF Next

\* Before the first stream the hub is empty.
LEMMA SlotInit == Init => SlotInv
<1> SUFFICES ASSUME Init PROVE SlotInv
  OBVIOUS
<1>1. IsFiniteSet(subscribers) /\ Cardinality(subscribers) = 0
  BY FS_EmptySet DEF Init
<1>2. QED
  BY <1>1, LiveEventsAssumption DEF Init, SlotInv, Owned, Bounded, ClosedOnce

\* publish and unsubscribe never close a channel twice, and publish never sends
\* on a closed one, however eviction and the end of a request race.
THEOREM ClosedOnceHolds == Spec => []ClosedOnce
<1>1. SlotInv => ClosedOnce
  BY DEF SlotInv
<1>2. QED
  BY <1>1, SlotInit, SlotStep, TypeCorrect, PTL DEF Spec

\* The hub never has more subscribers than its limit, nor one without a handler.
THEOREM SlotsBoundedHolds == Spec => []SlotsBounded
<1>1. SlotInv => SlotsBounded
  BY DEF SlotInv, Owned, Bounded, SlotsBounded
<1>2. QED
  BY <1>1, SlotInit, SlotStep, TypeCorrect, PTL DEF Spec

-----------------------------------------------------------------------------
(***************************************************************************)
(* The events of a stream.                                                 *)
(***************************************************************************)

\* What one stream is still to be given.
StreamInv(c) ==
  handler[c] = "streaming" =>
    /\ Counts(queue[c], taken[c])
    /\ c \in subscribers => taken[c] + Len(queue[c]) = nextEventID

GapInv == \A c \in Clients : StreamInv(c)

\* NoGap is GapInv, said of whole buffers.
LEMMA NoGapIsGapInv == TypeOK /\ GapInv => NoGap
<1> SUFFICES ASSUME TypeOK, GapInv, NEW c \in Clients, handler[c] = "streaming"
             PROVE  /\ queue[c] = [i \in 1 .. Len(queue[c]) |-> taken[c] + i]
                    /\ c \in subscribers => taken[c] + Len(queue[c]) = nextEventID
  BY DEF NoGap
<1>1. Counts(queue[c], taken[c])
  BY DEF GapInv, StreamInv
<1>2. queue[c] = [i \in 1 .. Len(queue[c]) |-> queue[c][i]]
  BY LenProperties DEF TypeOK
<1>3. QED
  BY <1>1, <1>2 DEF Counts, GapInv, StreamInv

\* Every action keeps each stream's buffer consecutive.
LEMMA GapStep == TypeOK /\ TypeOK' /\ SlotInv /\ GapInv /\ [Next]_vars => GapInv'
<1> SUFFICES ASSUME TypeOK, TypeOK', SlotInv, GapInv, [Next]_vars, NEW d \in Clients
             PROVE  StreamInv(d)'
  BY DEF GapInv
<1>0. StreamInv(d)
  BY DEF GapInv
<1> USE <1>0
<1>1. ASSUME NEW c \in Clients, authenticate(c) PROVE StreamInv(d)'
  BY <1>1 DEF authenticate, hubVars, TypeOK, StreamInv, Counts
<1>2. ASSUME NEW c \in Clients, subscribe(c) PROVE StreamInv(d)'
  <2>1. CASE c = d
    <3>1. queue'[d] = <<>> /\ taken'[d] = nextEventID /\ nextEventID' = nextEventID
      BY <1>2, <2>1 DEF subscribe, TypeOK
    <3>2. QED
      BY <3>1 DEF TypeOK, StreamInv, Counts
  <2>2. CASE c # d
    BY <1>2, <2>2 DEF subscribe, TypeOK, StreamInv, Counts
  <2>3. QED
    BY <2>1, <2>2
<1>3. ASSUME NEW c \in Clients, Refuse(c) PROVE StreamInv(d)'
  BY <1>3 DEF Refuse, hubVars, streamVars, TypeOK, StreamInv, Counts
<1>4. ASSUME NEW t \in Topics, publish(t) PROVE StreamInv(d)'
  <2> SUFFICES ASSUME handler'[d] = "streaming"
               PROVE  /\ Counts(queue'[d], taken'[d])
                      /\ d \in subscribers' => taken'[d] + Len(queue'[d]) = nextEventID'
    BY DEF StreamInv
  <2>1. /\ handler[d] = "streaming" /\ taken' = taken
        /\ nextEventID' = nextEventID + 1
    BY <1>4 DEF publish
  <2>2. Counts(queue[d], taken[d])
    BY <2>1 DEF StreamInv
  <2>3. CASE d \in subscribers'
    <3>1. d \in subscribers /\ queue'[d] = Append(queue[d], nextEventID')
      BY <1>4, <2>3 DEF publish
    <3>2. taken[d] + Len(queue[d]) = nextEventID
      BY <2>1, <3>1 DEF StreamInv
    <3>3. nextEventID' \in EventIDs
      BY <2>1 DEF TypeOK, EventIDs
    <3>4. queue[d] \in Seq(EventIDs) /\ taken[d] \in Int /\ Len(queue[d]) \in Nat
      BY LenProperties DEF TypeOK
    <3>5. nextEventID' = taken[d] + Len(queue[d]) + 1
      BY <2>1, <3>2, <3>4
    <3>6. PICK n : n = nextEventID'
      OBVIOUS
    <3>7. /\ Len(Append(queue[d], n)) = Len(queue[d]) + 1
          /\ Counts(Append(queue[d], n), taken[d])
      BY <2>2, <3>3, <3>4, <3>5, <3>6, CountsAppend
    <3>8. QED
      BY <2>1, <3>1, <3>4, <3>5, <3>6, <3>7
  <2>4. CASE d \notin subscribers'
    <3>1. queue'[d] = queue[d]
      BY <1>4, <2>4 DEF publish
    <3>2. QED
      BY <2>1, <2>2, <2>4, <3>1
  <2>5. QED
    BY <2>3, <2>4
<1>5. ASSUME NEW t \in Topics, publishExhausted(t) PROVE StreamInv(d)'
  BY <1>5 DEF publishExhausted, vars, hubVars, streamVars, StreamInv, Counts
<1>6. ASSUME NEW c \in Clients, ReceiveEvent(c) PROVE StreamInv(d)'
  <2>1. CASE c = d
    <3>1. /\ handler[d] = "streaming" /\ queue[d] # <<>>
          /\ queue'[d] = Tail(queue[d]) /\ taken'[d] = Head(queue[d])
          /\ nextEventID' = nextEventID /\ subscribers' = subscribers
      BY <1>6, <2>1 DEF ReceiveEvent, TypeOK, hubVars
    <3>2. queue[d] \in Seq(EventIDs) /\ taken[d] \in Int /\ Len(queue[d]) \in Nat
      BY LenProperties DEF TypeOK
    <3>3. /\ Head(queue[d]) = taken[d] + 1 /\ Len(Tail(queue[d])) = Len(queue[d]) - 1
          /\ Counts(Tail(queue[d]), Head(queue[d]))
      BY <3>1, <3>2, CountsTail DEF StreamInv
    <3>4. d \in subscribers => taken[d] + Len(queue[d]) = nextEventID
      BY <3>1 DEF StreamInv
    <3>5. d \in subscribers => taken'[d] + Len(queue'[d]) = nextEventID
      BY <3>1, <3>2, <3>3, <3>4
    <3>6. Counts(queue'[d], taken'[d])
      BY <3>1, <3>3
    <3>7. QED
      BY <3>1, <3>5, <3>6 DEF StreamInv
  <2>2. CASE c # d
    BY <1>6, <2>2 DEF ReceiveEvent, hubVars, TypeOK, StreamInv, Counts
  <2>3. QED
    BY <2>1, <2>2
<1>7. ASSUME NEW c \in Clients, ReceiveClosed(c) \/ ClientGone(c) PROVE StreamInv(d)'
  BY <1>7 DEF ReceiveClosed, ClientGone, hubVars, streamVars, TypeOK, StreamInv, Counts
<1>8. ASSUME NEW c \in Clients, unsubscribe(c) PROVE StreamInv(d)'
  BY <1>8 DEF unsubscribe, TypeOK, StreamInv, Counts
<1>9. CASE AdoptAuthorizer
  BY <1>9 DEF AdoptAuthorizer, hubVars, streamVars, StreamInv, Counts
<1>10. CASE UNCHANGED vars
  BY <1>10 DEF vars, hubVars, streamVars, StreamInv, Counts
<1>11. QED
  BY <1>1, <1>2, <1>3, <1>4, <1>5, <1>6, <1>7, <1>8, <1>9, <1>10 DEF Next

\* A stream misses no event between two it was given: publish cuts a stream
\* whose buffer is full and never skips it.
THEOREM NoGapHolds == Spec => []NoGap
<1>1. Init => GapInv
  BY DEF Init, GapInv, StreamInv
<1>2. QED
  BY <1>1, NoGapIsGapInv, GapStep, SlotInit, SlotStep, TypeCorrect, PTL DEF Spec

-----------------------------------------------------------------------------
(***************************************************************************)
(* What was written.                                                       *)
(***************************************************************************)

\* The events taken by the stream of client c that its service may receive.
Selected(c) == {e \in first[c] + 1 .. taken[c] : topic[e] \in service[c]}

\* Sequence s lists the numbers of S in ascending order.
Lists(s, S) ==
  /\ \A i, j \in 1 .. Len(s) : i < j => s[i] < s[j]
  /\ \A i \in 1 .. Len(s) : s[i] \in S
  /\ \A e \in S : \E i \in 1 .. Len(s) : s[i] = e

\* The buffer ends at or before the newest event, also after the stream was cut.
FilterInv(c) ==
  handler[c] \in {"streaming", "returning"} =>
    /\ first[c] <= taken[c] /\ taken[c] + Len(queue[c]) <= nextEventID
    /\ Lists(written[c], Selected(c))

WrittenInv == \A c \in Clients : FilterInv(c)

\* A listing goes on with a greater number.
LEMMA ListsAppend ==
  ASSUME NEW s \in Seq(EventIDs), NEW S \in SUBSET Int, Lists(s, S),
         NEW e \in EventIDs, \A x \in S : x < e
  PROVE  Lists(Append(s, e), S \cup {e})
<1> DEFINE n == Len(s)
           t == Append(s, e)
<1>1. n \in Nat
  BY LenProperties
<1>2. /\ Len(t) = n + 1
      /\ \A i \in 1 .. n : t[i] = s[i]
      /\ t[n + 1] = e
  BY AppendProperties
<1> HIDE DEF n, t
<1>3. /\ \A i, j \in 1 .. n : i < j => s[i] < s[j]
      /\ \A i \in 1 .. n : s[i] \in S
      /\ \A x \in S : \E i \in 1 .. n : s[i] = x
  BY DEF Lists, n
<1>4. \A i \in 1 .. n + 1 : i \in 1 .. n \/ i = n + 1
  BY <1>1
<1>5. ASSUME NEW i \in 1 .. n + 1, NEW j \in 1 .. n + 1, i < j PROVE t[i] < t[j]
  <2>1. i \in 1 .. n
    BY <1>1, <1>5
  <2>2. CASE j \in 1 .. n
    BY <1>2, <1>3, <1>5, <2>1, <2>2
  <2>3. CASE j = n + 1
    BY <1>2, <1>3, <2>1, <2>3
  <2>4. QED
    BY <1>4, <2>2, <2>3
<1>6. \A i \in 1 .. n + 1 : t[i] \in S \cup {e}
  BY <1>2, <1>3, <1>4
<1>7. ASSUME NEW x \in S \cup {e} PROVE \E i \in 1 .. n + 1 : t[i] = x
  <2>1. CASE x = e
    BY <1>1, <1>2, <2>1
  <2>2. CASE x \in S
    <3>1. PICK i \in 1 .. n : s[i] = x
      BY <1>3, <2>2
    <3>2. i \in 1 .. n + 1
      BY <1>1
    <3>3. QED
      BY <1>2, <3>1, <3>2
  <2>3. QED
    BY <2>1, <2>2
<1>8. Lists(t, S \cup {e})
  BY <1>2, <1>5, <1>6, <1>7 DEF Lists
<1>9. QED
  BY <1>8 DEF t

\* Steps that leave the events of client d as they are.
LEMMA FilterFrame ==
  ASSUME NEW d \in Clients, FilterInv(d),
         handler'[d] \in {"streaming", "returning"} => handler[d] \in {"streaming", "returning"},
         first'[d] = first[d], taken'[d] = taken[d], queue'[d] = queue[d],
         written'[d] = written[d], service'[d] = service[d],
         nextEventID' = nextEventID, topic' = topic
  PROVE  FilterInv(d)'
<1>1. Selected(d)' = Selected(d)
  BY DEF Selected
<1>2. QED
  BY <1>1 DEF FilterInv, Lists

\* Every action keeps what each stream has written in step with what it took.
LEMMA WrittenStep ==
  TypeOK /\ TypeOK' /\ GapInv /\ WrittenInv /\ [Next]_vars => WrittenInv'
<1> SUFFICES ASSUME TypeOK, TypeOK', GapInv, WrittenInv, [Next]_vars, NEW d \in Clients
             PROVE  FilterInv(d)'
  BY DEF WrittenInv
<1>0. FilterInv(d)
  BY DEF WrittenInv
<1>1. ASSUME NEW c \in Clients, authenticate(c) PROVE FilterInv(d)'
  <2>1. CASE c = d
    BY <1>1, <2>1 DEF authenticate, TypeOK, FilterInv
  <2>2. CASE c # d
    BY <1>0, <1>1, <2>2, FilterFrame DEF authenticate, hubVars, TypeOK
  <2>3. QED
    BY <2>1, <2>2
<1>2. ASSUME NEW c \in Clients, subscribe(c) PROVE FilterInv(d)'
  <2>1. CASE c = d
    <3>1. /\ queue'[d] = <<>> /\ written'[d] = <<>> /\ nextEventID' = nextEventID
          /\ first'[d] = nextEventID /\ taken'[d] = nextEventID
      BY <1>2, <2>1 DEF subscribe, TypeOK
    <3>2. nextEventID \in Int
      BY DEF TypeOK
    <3>3. Selected(d)' = {}
      BY <3>1, <3>2 DEF Selected
    <3>4. Lists(written'[d], Selected(d)')
      BY <3>1, <3>3 DEF Lists
    <3>5. QED
      BY <3>1, <3>2, <3>4 DEF FilterInv
  <2>2. CASE c # d
    BY <1>0, <1>2, <2>2, FilterFrame DEF subscribe, TypeOK
  <2>3. QED
    BY <2>1, <2>2
<1>3. ASSUME NEW c \in Clients, Refuse(c) PROVE FilterInv(d)'
  BY <1>0, <1>3, FilterFrame DEF Refuse, hubVars, streamVars, TypeOK
<1>4. ASSUME NEW t \in Topics, publish(t) PROVE FilterInv(d)'
  <2> SUFFICES ASSUME handler'[d] \in {"streaming", "returning"}
               PROVE  /\ first'[d] <= taken'[d] /\ taken'[d] + Len(queue'[d]) <= nextEventID'
                      /\ Lists(written'[d], Selected(d)')
    BY DEF FilterInv
  <2>1. /\ nextEventID' = nextEventID + 1 /\ topic' = Append(topic, t)
        /\ first' = first /\ taken' = taken /\ written' = written /\ service' = service
        /\ handler' = handler
        /\ queue'[d] = queue[d] \/ queue'[d] = Append(queue[d], nextEventID')
    BY <1>4 DEF publish
  <2>2. /\ first[d] <= taken[d] /\ taken[d] + Len(queue[d]) <= nextEventID
        /\ Lists(written[d], Selected(d))
    BY <1>0, <2>1 DEF FilterInv
  <2>3. /\ queue[d] \in Seq(EventIDs) /\ nextEventID' \in EventIDs
        /\ taken[d] \in Nat /\ first[d] \in Nat /\ nextEventID \in Nat /\ Len(queue[d]) \in Nat
    BY <2>1, LenProperties DEF TypeOK, EventIDs
  <2>4. Len(queue'[d]) = Len(queue[d]) \/ Len(queue'[d]) = Len(queue[d]) + 1
    <3>1. \A x \in EventIDs : Len(Append(queue[d], x)) = Len(queue[d]) + 1
      BY <2>3, AppendProperties
    <3>2. QED
      BY <2>1, <2>3, <3>1
  <2>5. taken'[d] + Len(queue'[d]) <= nextEventID'
    BY <2>1, <2>2, <2>3, <2>4
  <2>6. ASSUME NEW e \in first[d] + 1 .. taken[d] PROVE topic'[e] = topic[e]
    <3>1. topic \in Seq(Topics) /\ Len(topic) = nextEventID
      BY SeqDef DEF TypeOK
    <3>2. e \in 1 .. Len(topic)
      BY <2>2, <2>3, <3>1
    <3>3. QED
      BY <2>1, <3>1, <3>2, AppendProperties
  <2>7. Selected(d)' = Selected(d)
    BY <2>1, <2>6 DEF Selected
  <2>8. QED
    BY <2>1, <2>2, <2>5, <2>7
<1>5. ASSUME NEW t \in Topics, publishExhausted(t) PROVE FilterInv(d)'
  BY <1>0, <1>5, FilterFrame DEF publishExhausted, vars, hubVars, streamVars
<1>6. ASSUME NEW c \in Clients, ReceiveEvent(c) PROVE FilterInv(d)'
  <2>1. CASE c = d
    <3> DEFINE e == Head(queue[d])
    <3>1. /\ handler[d] = "streaming" /\ handler' = handler /\ queue[d] # <<>>
          /\ queue'[d] = Tail(queue[d]) /\ taken'[d] = e
          /\ nextEventID' = nextEventID /\ topic' = topic
          /\ first' = first /\ service' = service
          /\ written'[d] = IF topic[e] \in service[d] THEN Append(written[d], e)
                                                      ELSE written[d]
      BY <1>6, <2>1 DEF ReceiveEvent, canReceiveEvent, TypeOK, hubVars
    <3>2. /\ first[d] <= taken[d] /\ taken[d] + Len(queue[d]) <= nextEventID
          /\ Lists(written[d], Selected(d))
      BY <1>0, <3>1 DEF FilterInv
    <3>3. /\ queue[d] \in Seq(EventIDs) /\ written[d] \in Seq(EventIDs)
          /\ taken[d] \in Nat /\ first[d] \in Nat /\ Len(queue[d]) \in Nat
          /\ nextEventID \in Nat
      BY LenProperties DEF TypeOK
    <3>4. /\ e = taken[d] + 1 /\ e \in EventIDs /\ Len(Tail(queue[d])) = Len(queue[d]) - 1
      BY <3>1, <3>3, CountsTail DEF GapInv, StreamInv
    <3> HIDE DEF e
    <3>5. taken'[d] + Len(queue'[d]) <= nextEventID' /\ first'[d] <= taken'[d]
      BY <3>1, <3>2, <3>3, <3>4
    <3>6. Selected(d)' = {x \in first[d] + 1 .. e : topic[x] \in service[d]}
      BY <3>1 DEF Selected
    <3>7. \A x : x \in first[d] + 1 .. e <=> x \in first[d] + 1 .. taken[d] \/ x = e
      BY <3>2, <3>3, <3>4
    <3>8. CASE topic[e] \in service[d]
      <4>1. Selected(d)' = Selected(d) \cup {e}
        BY <3>6, <3>7, <3>8 DEF Selected
      <4>2. Selected(d) \in SUBSET Int /\ \A x \in Selected(d) : x < e
        BY <3>3, <3>4 DEF Selected
      <4>3. PICK S : S = Selected(d)
        OBVIOUS
      <4>4. Lists(Append(written[d], e), S \cup {e})
        BY <3>2, <3>3, <3>4, <4>2, <4>3, ListsAppend
      <4>5. QED
        BY <3>1, <3>5, <3>8, <4>1, <4>3, <4>4 DEF FilterInv
    <3>9. CASE topic[e] \notin service[d]
      <4>1. Selected(d)' = Selected(d)
        BY <3>6, <3>7, <3>9 DEF Selected
      <4>2. QED
        BY <3>1, <3>2, <3>5, <3>9, <4>1 DEF FilterInv
    <3>10. QED
      BY <3>8, <3>9
  <2>2. CASE c # d
    BY <1>0, <1>6, <2>2, FilterFrame DEF ReceiveEvent, hubVars, TypeOK
  <2>3. QED
    BY <2>1, <2>2
<1>7. ASSUME NEW c \in Clients, ReceiveClosed(c) \/ ClientGone(c) PROVE FilterInv(d)'
  BY <1>0, <1>7, FilterFrame DEF ReceiveClosed, ClientGone, hubVars, streamVars, TypeOK
<1>8. ASSUME NEW c \in Clients, unsubscribe(c) PROVE FilterInv(d)'
  BY <1>0, <1>8, FilterFrame DEF unsubscribe, TypeOK
<1>9. CASE AdoptAuthorizer
  BY <1>0, <1>9, FilterFrame DEF AdoptAuthorizer, hubVars, streamVars
<1>10. CASE UNCHANGED vars
  BY <1>0, <1>10, FilterFrame DEF vars, hubVars, streamVars
<1>11. QED
  BY <1>1, <1>2, <1>3, <1>4, <1>5, <1>6, <1>7, <1>8, <1>9, <1>10 DEF Next

\* What handleEvents has written to a client is, in order and without exception,
\* what canReceiveEvent admits of the events the stream has taken.
THEOREM WrittenIsFilteredHolds == Spec => []WrittenIsFiltered
<1>1. Init => WrittenInv
  BY DEF Init, WrittenInv, FilterInv
<1>2. Init => GapInv
  BY DEF Init, GapInv, StreamInv
<1>3. ASSUME TypeOK, WrittenInv PROVE WrittenIsFiltered
  <2> SUFFICES ASSUME NEW c \in Clients, handler[c] \in {"streaming", "returning"}
               PROVE  /\ \A i, j \in DOMAIN written[c] : i < j => written[c][i] < written[c][j]
                      /\ {written[c][i] : i \in DOMAIN written[c]} = Selected(c)
    BY DEF WrittenIsFiltered, Selected
  <2>1. DOMAIN written[c] = 1 .. Len(written[c])
    BY <1>3, LenProperties DEF TypeOK
  <2>2. Lists(written[c], Selected(c))
    BY <1>3 DEF WrittenInv, FilterInv
  <2>3. QED
    BY <2>1, <2>2 DEF Lists
<1>4. QED
  BY <1>1, <1>2, <1>3, GapStep, WrittenStep, SlotInit, SlotStep, TypeCorrect, PTL DEF Spec
=============================================================================
