----------------------------- MODULE LiveEvents -----------------------------
(***************************************************************************)
(* Live SSE: managementLiveEventHub and handleEvents in                    *)
(* management_events.go, with the authorizer that reloadAuthorizer         *)
(* (management_acl_reload.go) replaces while streams are open.             *)
(*                                                                         *)
(* The PCL session goroutine publishes; every client has one handler       *)
(* goroutine. The hub's mutex makes subscribe, unsubscribe and publish one *)
(* step each. A client's scope is the set of topics canReceiveEvent admits *)
(* for it: its channels, and the health topic for the global permission.   *)
(***************************************************************************)
EXTENDS Integers, FiniteSets, Sequences

CONSTANTS
  Clients, Topics,
  SubscriberBuffer,    \* managementLiveEventSubscriberBuffer
  MaximumSubscribers,  \* managementLiveEventMaximumSubscribers
  LastEventID,         \* ^uint64(0), the ID at which publish stops
  MaxOpened,           \* bound: streams opened
  MaxReloads           \* bound: ACL reloads

ASSUME LiveEventsAssumption ==
  /\ SubscriberBuffer \in Nat \ {0} /\ MaximumSubscribers \in Nat \ {0}
  /\ LastEventID \in Nat /\ MaxOpened \in Nat /\ MaxReloads \in Nat

VARIABLES
  acl,          \* a.authorizer: the scope of every client
  nextEventID,  \* IDs 1 .. nextEventID have been published
  topic,        \* history: the topic of every published event
  subscribers,  \* clients whose channel is in h.subscribers
  handler,      \* where handleEvents of this client stands
  service,      \* the scope of the service that authenticate returned
  queue,        \* the subscriber channel's buffer
  closes,       \* how often the subscriber channel was closed
  first,        \* history: nextEventID when the stream subscribed
  taken,        \* history: the last event the handler took
  written,      \* history: events written to the client, in order
  leaked,       \* history: an event was written outside the client's scope
  opened, reloads

hubVars    == <<nextEventID, topic, subscribers>>
streamVars == <<service, queue, closes, first, taken, written, leaked>>
boundVars  == <<opened, reloads>>
vars == <<acl, hubVars, handler, streamVars, boundVars>>

\* "returning": the loop has ended, the deferred unsubscribe has not run.
HandlerStates == {"none", "authenticated", "streaming", "returning"}

EventIDs == 1 .. LastEventID

TypeOK ==
  /\ acl \in [Clients -> SUBSET Topics]
  /\ nextEventID \in 0 .. LastEventID
  /\ topic \in [1 .. nextEventID -> Topics]
  /\ subscribers \subseteq Clients
  /\ handler \in [Clients -> HandlerStates]
  /\ service \in [Clients -> SUBSET Topics]
  /\ queue \in [Clients -> Seq(EventIDs)]
  /\ closes \in [Clients -> Nat]
  /\ first \in [Clients -> 0 .. LastEventID] /\ taken \in [Clients -> 0 .. LastEventID]
  /\ written \in [Clients -> Seq(EventIDs)]
  /\ leaked \in BOOLEAN
  /\ opened \in 0 .. MaxOpened /\ reloads \in 0 .. MaxReloads

Init ==
  /\ acl \in [Clients -> SUBSET Topics]
  /\ nextEventID = 0 /\ topic = <<>>
  /\ subscribers = {}
  /\ handler = [c \in Clients |-> "none"]
  /\ service = [c \in Clients |-> {}]
  /\ queue = [c \in Clients |-> <<>>]
  /\ closes = [c \in Clients |-> 0]
  /\ first = [c \in Clients |-> 0] /\ taken = [c \in Clients |-> 0]
  /\ written = [c \in Clients |-> <<>>]
  /\ leaked = FALSE
  /\ opened = 0 /\ reloads = 0

-----------------------------------------------------------------------------
(***************************************************************************)
(* handleEvents up to its loop.                                            *)
(***************************************************************************)
authenticate(c) ==
  /\ handler[c] = "none"
  /\ opened < MaxOpened
  /\ handler' = [handler EXCEPT ![c] = "authenticated"]
  /\ service' = [service EXCEPT ![c] = acl[c]]
  /\ opened' = opened + 1
  /\ UNCHANGED <<acl, hubVars, queue, closes, first, taken, written, leaked, reloads>>

canOpenEventStream(c) == service[c] # {}

\* Mutant: the limit is tested with > for >=.
HasSlotLate == Cardinality(subscribers) <= MaximumSubscribers

HasSlot == Cardinality(subscribers) < MaximumSubscribers

subscribe(c) ==
  /\ handler[c] = "authenticated"
  /\ canOpenEventStream(c) /\ HasSlot
  /\ handler' = [handler EXCEPT ![c] = "streaming"]
  /\ subscribers' = subscribers \cup {c}
  /\ queue' = [queue EXCEPT ![c] = <<>>]
  /\ closes' = [closes EXCEPT ![c] = 0]
  /\ first' = [first EXCEPT ![c] = nextEventID]
  /\ taken' = [taken EXCEPT ![c] = nextEventID]
  /\ written' = [written EXCEPT ![c] = <<>>]
  /\ UNCHANGED <<acl, nextEventID, topic, service, leaked, boundVars>>

\* 403 without a scope, 503 without a slot.
Refuse(c) ==
  /\ handler[c] = "authenticated"
  /\ ~(canOpenEventStream(c) /\ HasSlot)
  /\ handler' = [handler EXCEPT ![c] = "none"]
  /\ UNCHANGED <<acl, hubVars, streamVars, boundVars>>

-----------------------------------------------------------------------------
(***************************************************************************)
(* publish: the new event goes to every subscriber that has room; the      *)
(* others are dropped and their channels closed. After LastEventID events  *)
(* it does nothing.                                                        *)
(***************************************************************************)
HasRoom(c) == Len(queue[c]) < SubscriberBuffer

\* Mutant: a full subscriber misses the event and stays.
publishSkippingFull(t) ==
  /\ nextEventID < LastEventID
  /\ nextEventID' = nextEventID + 1
  /\ topic' = Append(topic, t)
  /\ queue' = [c \in Clients |-> IF c \in subscribers /\ HasRoom(c)
                                 THEN Append(queue[c], nextEventID') ELSE queue[c]]
  /\ UNCHANGED <<acl, subscribers, handler, service, closes, first, taken, written,
                 leaked, boundVars>>

\* Mutant: a full subscriber is forgotten but its channel not closed.
publishWithoutClose(t) ==
  /\ nextEventID < LastEventID
  /\ nextEventID' = nextEventID + 1
  /\ topic' = Append(topic, t)
  /\ subscribers' = {c \in subscribers : HasRoom(c)}
  /\ queue' = [c \in Clients |-> IF c \in subscribers'
                                 THEN Append(queue[c], nextEventID') ELSE queue[c]]
  /\ UNCHANGED <<acl, handler, service, closes, first, taken, written, leaked,
                 boundVars>>

\* Mutant: the ID is not tested for its last value.
publishPastLast(t) ==
  /\ nextEventID' = nextEventID + 1
  /\ topic' = Append(topic, t)
  /\ UNCHANGED <<acl, subscribers, handler, streamVars, boundVars>>

publish(t) ==
  /\ nextEventID < LastEventID
  /\ nextEventID' = nextEventID + 1
  /\ topic' = Append(topic, t)
  /\ LET full == {c \in subscribers : ~HasRoom(c)} IN
       /\ subscribers' = subscribers \ full
       /\ closes' = [c \in Clients |-> IF c \in full THEN closes[c] + 1 ELSE closes[c]]
       /\ queue' = [c \in Clients |-> IF c \in subscribers \ full
                                      THEN Append(queue[c], nextEventID') ELSE queue[c]]
  /\ UNCHANGED <<acl, handler, service, first, taken, written, leaked, boundVars>>

publishExhausted(t) ==
  /\ nextEventID = LastEventID
  /\ UNCHANGED vars

-----------------------------------------------------------------------------
(***************************************************************************)
(* The loop of handleEvents. What is buffered in a closed channel is still *)
(* received. The select may also see the request's end first.              *)
(***************************************************************************)
\* Mutant: every event is delivered.
canReceiveAnyEvent(c, e) == TRUE

canReceiveEvent(c, e) == topic[e] \in service[c]

ReceiveEvent(c) ==
  /\ handler[c] = "streaming"
  /\ queue[c] # <<>>
  /\ LET e == Head(queue[c]) IN
       /\ queue' = [queue EXCEPT ![c] = Tail(@)]
       /\ taken' = [taken EXCEPT ![c] = e]
       /\ IF canReceiveEvent(c, e)
          THEN /\ written' = [written EXCEPT ![c] = Append(@, e)]
               /\ leaked' = (leaked \/ topic[e] \notin acl[c])
          ELSE UNCHANGED <<written, leaked>>
  /\ UNCHANGED <<acl, hubVars, handler, service, closes, first, boundVars>>

ReceiveClosed(c) ==
  /\ handler[c] = "streaming"
  /\ queue[c] = <<>>
  /\ closes[c] > 0
  /\ handler' = [handler EXCEPT ![c] = "returning"]
  /\ UNCHANGED <<acl, hubVars, streamVars, boundVars>>

\* The request's context is done, or a write to the client failed. The event that
\* could not be written stays in the buffer here, as one that was not taken:
\* nothing reads the buffer of a handler that returns.
ClientGone(c) ==
  /\ handler[c] = "streaming"
  /\ handler' = [handler EXCEPT ![c] = "returning"]
  /\ UNCHANGED <<acl, hubVars, streamVars, boundVars>>

\* Mutant: the channel is closed whether or not publish did so before.
unsubscribeBlindly(c) ==
  /\ handler[c] = "returning"
  /\ handler' = [handler EXCEPT ![c] = "none"]
  /\ subscribers' = subscribers \ {c}
  /\ closes' = [closes EXCEPT ![c] = @ + 1]
  /\ UNCHANGED <<acl, nextEventID, topic, service, queue, first, taken, written,
                 leaked, boundVars>>

unsubscribe(c) ==
  /\ handler[c] = "returning"
  /\ handler' = [handler EXCEPT ![c] = "none"]
  /\ subscribers' = subscribers \ {c}
  /\ closes' = [closes EXCEPT ![c] = IF c \in subscribers THEN @ + 1 ELSE @]
  /\ UNCHANGED <<acl, nextEventID, topic, service, queue, first, taken, written,
                 leaked, boundVars>>

(***************************************************************************)
(* The last step of reloadAuthorizer; handlers keep the service they       *)
(* authenticated.                                                          *)
(***************************************************************************)
AdoptAuthorizer ==
  /\ reloads < MaxReloads
  /\ acl' \in [Clients -> SUBSET Topics]
  /\ reloads' = reloads + 1
  /\ UNCHANGED <<hubVars, handler, streamVars, opened>>

-----------------------------------------------------------------------------
Next ==
  \/ \E c \in Clients : authenticate(c) \/ subscribe(c) \/ Refuse(c)
  \/ \E t \in Topics : publish(t) \/ publishExhausted(t)
  \/ \E c \in Clients : \/ ReceiveEvent(c) \/ ReceiveClosed(c)
                        \/ ClientGone(c) \/ unsubscribe(c)
  \/ AdoptAuthorizer

Spec == Init /\ [][Next]_vars

(***************************************************************************)
(* Fairness: a handler that can take a step takes it. For ReceiveEvent it  *)
(* is an assumption on the client, which reads or hangs up: the server     *)
(* sets no deadline on a write.                                            *)
(***************************************************************************)
Fairness ==
  \A c \in Clients : /\ WF_vars(subscribe(c) \/ Refuse(c))
                     /\ WF_vars(ReceiveEvent(c)) /\ WF_vars(ReceiveClosed(c))
                     /\ WF_vars(unsubscribe(c))

FairSpec == Spec /\ Fairness

-----------------------------------------------------------------------------
(***************************************************************************)
(* Properties.                                                             *)
(***************************************************************************)

\* The events a stream has not been given yet are exactly those in its buffer,
\* consecutive and in order; the buffer reaches the newest event for as long as
\* the hub keeps the subscriber. A stalled stream is cut, never thinned out.
NoGap ==
  \A c \in Clients : handler[c] = "streaming" =>
    /\ queue[c] = [i \in 1 .. Len(queue[c]) |-> taken[c] + i]
    /\ c \in subscribers => taken[c] + Len(queue[c]) = nextEventID

\* What was written is the part of the events taken that the service of the
\* stream may receive, in order: none twice, none dropped.
WrittenIsFiltered ==
  \A c \in Clients : handler[c] \in {"streaming", "returning"} =>
    /\ \A i, j \in DOMAIN written[c] : i < j => written[c][i] < written[c][j]
    /\ {written[c][i] : i \in DOMAIN written[c]}
         = {e \in first[c] + 1 .. taken[c] : topic[e] \in service[c]}

\* A subscriber channel is closed exactly when it leaves the hub: publish never
\* sends on a closed channel, and eviction racing unsubscribe never closes one
\* twice (both are panics in Go).
ClosedOnce ==
  \A c \in Clients :
    /\ closes[c] <= 1
    /\ handler[c] \in {"streaming", "returning"} =>
         (c \in subscribers <=> closes[c] = 0)

\* Slots of the hub are bounded and never outlive their handler.
SlotsBounded ==
  /\ Cardinality(subscribers) <= MaximumSubscribers
  /\ \A c \in subscribers : handler[c] \in {"streaming", "returning"}

\* A stream that was cut for being slow is told so: once its buffer is drained
\* its handler returns, instead of waiting on a channel nobody writes.
CutStreamEnds ==
  \A c \in Clients :
    handler[c] = "streaming" /\ c \notin subscribers ~> handler[c] = "none"

\* What README.md says of GET /v1/events: it "filters every event by the caller's
\* channel role or global event permission". The code filters by the role the
\* caller had when the stream was opened, whatever was reloaded since.
FilteredByRole == ~leaked
=============================================================================
