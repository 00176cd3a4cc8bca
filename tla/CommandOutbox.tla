--------------------------- MODULE CommandOutbox ---------------------------
(***************************************************************************)
(* The durable outbox of Service Admission revocations and the Private     *)
(* Control Link (PCL) session that drains it: privateControlClient in      *)
(* private_control.go, privateControlCommandStore in                       *)
(* private_control_outbox.go, and the callers that wait for an answer in   *)
(* service_admission_api.go.                                               *)
(*                                                                         *)
(* Goroutines and how they appear here:                                    *)
(*   API handlers     Revoke, TakeResult, WaitDeadline, WaitCanceled       *)
(*   ACL reload       QueueBatch                                           *)
(*   PCL session      Dial .. ReceiveOther, EndSession                     *)
(*   the Relay        RelayAck, RelayAckOther, RelayReject (external)      *)
(*   process, disk    Start, Crash and the outcomes of persist             *)
(* enqueuePendingCommands, completePendingCommand(Acknowledgement) and     *)
(* pendingCommands each hold commandMu throughout, the write of the store  *)
(* included, so each is one step.                                          *)
(***************************************************************************)
EXTENDS Integers, FiniteSets

CONSTANTS
  Ids,         \* message IDs newPrivateControlID draws; no ID is drawn twice
  MaxPending,  \* privateControlMaxPendingCommands
  DenyWindow,  \* managementServiceAdmissionMaximumDenyWindow, in ticks
  Windows,     \* runtime.GOOS == "windows"
  MaxTime,     \* bound: the clock stops here
  MaxFaults    \* bound: failed writes, lost connections and crashes

ASSUME OutboxAssumption ==
  /\ IsFiniteSet(Ids)
  /\ MaxPending \in Nat
  /\ DenyWindow \in Nat \ {0}
  /\ Windows \in BOOLEAN
  /\ MaxTime \in Nat
  /\ MaxFaults \in Nat

VARIABLES
  now,        \* time.Now().Unix()
  denyUntil,  \* DenyUntil of the command with this ID (0: ID not drawn yet)
  up,         \* the process runs
  pending,    \* c.pending: IDs of the commands in memory
  notify,     \* c.commandNotify holds its one token
  session,    \* runSession: where the session goroutine stands
  batch,      \* sendPendingCommands: commands of its list still to visit
  batchNow,   \* sendPendingCommands: the now it read
  sent,       \* sentCommands: IDs written on this connection
  wire,       \* copies of a command on this connection the Relay has not answered
  replies,    \* copies of a reply on this connection the client has not read
  caller,     \* what became of the request that drew this ID
  result,     \* command.result, a channel of capacity one
  store,      \* commands in the store file, as a reader of the file sees them
  stable,     \* commands in the store file that a power loss would leave
  applied,    \* history: commands the Relay put into force
  outcome,    \* history: the last verdict on the command that the client met
  faults      \* failures so far

clockVars   == <<now, denyUntil>>
memoryVars  == <<up, pending, notify>>
sessionVars == <<session, batch, batchNow, sent>>
linkVars    == <<wire, replies>>
callerVars  == <<caller, result>>
diskVars    == <<store, stable>>
historyVars == <<applied, outcome>>

vars == <<clockVars, memoryVars, sessionVars, linkVars, callerVars, diskVars,
          historyVars, faults>>

(***************************************************************************)
(* session = "open" with a non-empty batch is the loop of                  *)
(* sendPendingCommands; with an empty one it is the select of runSession.  *)
(***************************************************************************)
SessionStates == {"down", "hello", "loop", "open"}

(***************************************************************************)
(* "waiting": revokeServiceAdmission is in its select. "queued": the ACL   *)
(* reload queued the command and waits for nothing. "ok", "accepted" and   *)
(* "failed" are the 200, 202 and 503 of a request that was queued;         *)
(* "refused" is the 503 (or the rejected reload) of one that was not;      *)
(* "gone": the client hung up or the process died before an answer.        *)
(***************************************************************************)
CallerStates ==
  {"unused", "waiting", "queued", "ok", "accepted", "failed", "refused", "gone"}

(***************************************************************************)
(* "ack" repeats the command's deny_until, "ackOther" carries another one. *)
(***************************************************************************)
ReplyKinds == {"ack", "ackOther", "error"}
Replies    == [id : Ids, kind : ReplyKinds]
Reply(c, k) == [id |-> c, kind |-> k]

Outcomes == {"none", "acked", "rejected", "expired"}

TypeOK ==
  /\ now \in Nat
  /\ denyUntil \in [Ids -> Nat]
  /\ up \in BOOLEAN
  /\ pending \subseteq Ids
  /\ notify \in BOOLEAN
  /\ session \in SessionStates
  /\ batch \subseteq Ids
  /\ batchNow \in Nat
  /\ sent \subseteq Ids
  /\ wire \in [Ids -> Nat]
  /\ replies \in [Replies -> Nat]
  /\ caller \in [Ids -> CallerStates]
  /\ result \in [Ids -> {"none", "ack", "error"}]
  /\ store \subseteq Ids
  /\ stable \subseteq Ids
  /\ applied \subseteq Ids
  /\ outcome \in [Ids -> Outcomes]
  /\ faults \in Nat

Init ==
  /\ now = 0
  /\ denyUntil = [c \in Ids |-> 0]
  /\ up = TRUE
  /\ pending = {}
  /\ notify = FALSE
  /\ session = "down"
  /\ batch = {}
  /\ batchNow = 0
  /\ sent = {}
  /\ wire = [c \in Ids |-> 0]
  /\ replies = [r \in Replies |-> 0]
  /\ caller = [c \in Ids |-> "unused"]
  /\ result = [c \in Ids |-> "none"]
  /\ store = {}
  /\ stable = {}
  /\ applied = {}
  /\ outcome = [c \in Ids |-> "none"]
  /\ faults = 0

-----------------------------------------------------------------------------
(***************************************************************************)
(* The store: write a temporary file, rename it over the store, sync the   *)
(* directory. A failure up to the rename leaves the old contents. A        *)
(* failure after it returns an error with the new contents in place, which *)
(* a power loss may still undo. On Windows the old file is removed first,  *)
(* so a rename that then fails leaves no file, which load reads as empty.  *)
(* A crash inside persist is a failed write with the crash after it. Every *)
(* outcome but the first uses up one of MaxFaults.                         *)
(***************************************************************************)
PersistOutcomes(new) ==
  {[ok |-> TRUE, store |-> new, stable |-> new]} \cup
  (IF faults = MaxFaults
   THEN {}
   ELSE {[ok |-> FALSE, store |-> store, stable |-> stable],
         [ok |-> FALSE, store |-> new, stable |-> stable]} \cup
        (IF Windows THEN {[ok |-> FALSE, store |-> {}, stable |-> {}]} ELSE {}))

Commit(o) ==
  /\ store' = o.store
  /\ stable' = o.stable

FaultsAfter(ok) == IF ok THEN faults ELSE faults + 1

-----------------------------------------------------------------------------
(***************************************************************************)
(* Enqueueing. Revoke is one API request, with the deadline that           *)
(* validateServiceAdmissionRevocation accepts; QueueBatch is the batch of  *)
(* an ACL reload, which has one deadline for all and is queued whole or    *)
(* not at all.                                                             *)
(***************************************************************************)
Fresh == {c \in Ids : caller[c] = "unused"}

\* Mutant: the test of the limit before the batch is counted.
HasRoomForOne(S) == Cardinality(pending) <= MaxPending

HasRoom(S) == Cardinality(pending) + Cardinality(S) <= MaxPending

newPendingRevocation(S, d) ==
  /\ up
  /\ S # {}
  /\ d > now
  /\ denyUntil' = [c \in Ids |-> IF c \in S THEN d ELSE denyUntil[c]]

SetCaller(S, s) == caller' = [c \in Ids |-> IF c \in S THEN s ELSE caller[c]]

\* Mutant: the error of the write is dropped.
enqueueIgnoringWriteError(S, s) ==
  /\ HasRoom(S)
  /\ \E o \in PersistOutcomes(pending \cup S) :
       /\ Commit(o)
       /\ faults' = FaultsAfter(o.ok)
  /\ pending' = pending \cup S
  /\ notify' = TRUE
  /\ SetCaller(S, s)

\* Mutant: the session is not woken.
enqueueWithoutNotify(S, s) ==
  /\ HasRoom(S)
  /\ store' = pending \cup S
  /\ stable' = pending \cup S
  /\ pending' = pending \cup S
  /\ SetCaller(S, s)
  /\ UNCHANGED <<notify, faults>>

enqueuePendingCommands(S, s) ==
  IF HasRoom(S)
  THEN \E o \in PersistOutcomes(pending \cup S) :
         /\ Commit(o)
         /\ pending' = IF o.ok THEN pending \cup S ELSE pending
         /\ notify' = (notify \/ o.ok)
         /\ SetCaller(S, IF o.ok THEN s ELSE "refused")
         /\ faults' = FaultsAfter(o.ok)
  ELSE /\ SetCaller(S, "refused")
       /\ UNCHANGED <<pending, notify, store, stable, faults>>

Revoke(c, d) ==
  /\ newPendingRevocation({c}, d)
  /\ enqueuePendingCommands({c}, "waiting")
  /\ UNCHANGED <<now, up, sessionVars, linkVars, result, historyVars>>

QueueBatch(S) ==
  /\ newPendingRevocation(S, now + DenyWindow)
  /\ enqueuePendingCommands(S, "queued")
  /\ UNCHANGED <<now, up, sessionVars, linkVars, result, historyVars>>

-----------------------------------------------------------------------------
(***************************************************************************)
(* The select of revokeServiceAdmission. Go takes either branch when both  *)
(* are ready, so the deadline may win over a result already delivered.     *)
(***************************************************************************)
\* Mutant: any result of the channel is taken for an acknowledgement.
TakeAnyResult(c) ==
  /\ caller[c] = "waiting"
  /\ result[c] # "none"
  /\ SetCaller({c}, "ok")
  /\ UNCHANGED <<clockVars, memoryVars, sessionVars, linkVars, result, diskVars,
                 historyVars, faults>>

\* Mutant: an acknowledgement is answered with 503.
TakeResultAsError(c) ==
  /\ caller[c] = "waiting"
  /\ result[c] # "none"
  /\ SetCaller({c}, "failed")
  /\ UNCHANGED <<clockVars, memoryVars, sessionVars, linkVars, result, diskVars,
                 historyVars, faults>>

TakeResult(c) ==
  /\ caller[c] = "waiting"
  /\ result[c] # "none"
  /\ SetCaller({c}, IF result[c] = "ack" THEN "ok" ELSE "failed")
  /\ UNCHANGED <<clockVars, memoryVars, sessionVars, linkVars, result, diskVars,
                 historyVars, faults>>

StopWaiting(c, s) ==
  /\ caller[c] = "waiting"
  /\ SetCaller({c}, s)
  /\ UNCHANGED <<clockVars, memoryVars, sessionVars, linkVars, result, diskVars,
                 historyVars, faults>>

WaitDeadline(c) == StopWaiting(c, "accepted")
WaitCanceled(c) == StopWaiting(c, "gone")

-----------------------------------------------------------------------------
(***************************************************************************)
(* The session. EndSession is every error return of runSession: the        *)
(* connection is closed and its locals are dropped, but commands already   *)
(* on the wire may still be applied by the Relay without an answer.        *)
(***************************************************************************)
Dial ==
  /\ up
  /\ session = "down"
  /\ session' = "hello"
  /\ UNCHANGED <<clockVars, memoryVars, batch, batchNow, sent, linkVars,
                 callerVars, diskVars, historyVars, faults>>

HelloAck ==
  /\ session = "hello"
  /\ session' = "loop"
  /\ UNCHANGED <<clockVars, memoryVars, batch, batchNow, sent, linkVars,
                 callerVars, diskVars, historyVars, faults>>

CloseConnection ==
  /\ session' = "down"
  /\ batch' = {}
  /\ sent' = {}
  /\ wire' = [c \in Ids |-> 0]
  /\ replies' = [r \in Replies |-> 0]
  /\ \E S \in SUBSET {c \in Ids : wire[c] > 0} : applied' = applied \cup S
  /\ UNCHANGED batchNow

EndSession ==
  /\ session # "down"
  /\ faults < MaxFaults
  /\ CloseConnection
  /\ faults' = faults + 1
  /\ UNCHANGED <<clockVars, memoryVars, callerVars, diskVars, outcome>>

BeginSend ==
  /\ session = "loop"
  /\ session' = "open"
  /\ batch' = pending
  /\ batchNow' = now
  /\ UNCHANGED <<clockVars, memoryVars, sent, linkVars, callerVars, diskVars,
                 historyVars, faults>>

(***************************************************************************)
(* The tests of sendPendingCommands on one command, in their order.        *)
(***************************************************************************)
\* Mutant: the deadline is tested before sentCommands.
DispositionExpiryFirst(c) ==
  IF denyUntil[c] <= batchNow THEN "expire"
  ELSE IF c \in sent THEN "skip" ELSE "write"

\* Mutant: sentCommands is not consulted.
DispositionUnsent(c) == IF denyUntil[c] <= batchNow THEN "expire" ELSE "write"

Disposition(c) ==
  IF c \in sent THEN "skip"
  ELSE IF denyUntil[c] <= batchNow THEN "expire" ELSE "write"

SkipSent(c) ==
  /\ session = "open"
  /\ c \in batch
  /\ Disposition(c) = "skip"
  /\ batch' = batch \ {c}
  /\ UNCHANGED <<clockVars, memoryVars, session, batchNow, sent, linkVars,
                 callerVars, diskVars, historyVars, faults>>

WriteCommand(c) ==
  /\ session = "open"
  /\ c \in batch
  /\ Disposition(c) = "write"
  /\ batch' = batch \ {c}
  /\ sent' = sent \cup {c}
  /\ wire' = [wire EXCEPT ![c] = @ + 1]
  /\ UNCHANGED <<clockVars, memoryVars, session, batchNow, replies, callerVars,
                 diskVars, historyVars, faults>>

(***************************************************************************)
(* completePendingCommand and completePendingAcknowledgement: the command  *)
(* leaves memory and store, or, when the store cannot be written, stays in *)
(* memory and the error ends the session. Only then is the caller told.    *)
(* The verdict counts from the reply, or the deadline found passed, on: it *)
(* is there also when the command has to stay for another attempt.         *)
(***************************************************************************)
\* Mutant: the command is dropped and its caller told before the write.
CompletedBeforeWrite(c, o, r, why) ==
  /\ Commit(o)
  /\ outcome' = [outcome EXCEPT ![c] = why]
  /\ pending' = pending \ {c}
  /\ result' = [result EXCEPT ![c] = r]
  /\ faults' = FaultsAfter(o.ok)
  /\ UNCHANGED <<clockVars, up, notify, caller>>

\* Mutant: the reason is put in the channel in place of the result.
CompletedWithReason(c, o, r, why) ==
  /\ Commit(o)
  /\ outcome' = [outcome EXCEPT ![c] = why]
  /\ pending' = IF o.ok THEN pending \ {c} ELSE pending
  /\ result' = IF o.ok /\ result[c] = "none"
               THEN [result EXCEPT ![c] = why] ELSE result
  /\ faults' = FaultsAfter(o.ok)
  /\ UNCHANGED <<clockVars, up, notify, caller>>

Completed(c, o, r, why) ==
  /\ Commit(o)
  /\ outcome' = [outcome EXCEPT ![c] = why]
  /\ pending' = IF o.ok THEN pending \ {c} ELSE pending
  /\ result' = IF o.ok /\ result[c] = "none"
               THEN [result EXCEPT ![c] = r] ELSE result
  /\ faults' = FaultsAfter(o.ok)
  /\ UNCHANGED <<clockVars, up, notify, caller>>

ExpireCommand(c) ==
  /\ session = "open"
  /\ c \in batch
  /\ Disposition(c) = "expire"
  /\ \E o \in PersistOutcomes(pending \ {c}) :
       /\ Completed(c, o, "error", "expired")
       /\ IF o.ok
          THEN /\ batch' = batch \ {c}
               /\ UNCHANGED <<session, batchNow, sent, linkVars, applied>>
          ELSE CloseConnection

InSelect == session = "open" /\ batch = {}

ReceiveNotify ==
  /\ InSelect
  /\ notify
  /\ notify' = FALSE
  /\ session' = "loop"
  /\ UNCHANGED <<clockVars, up, pending, batch, batchNow, sent, linkVars,
                 callerVars, diskVars, historyVars, faults>>

(***************************************************************************)
(* An ack (with the deny_until of the command) or an error in reply to a   *)
(* command. One that names no pending command ends the session.            *)
(***************************************************************************)
ReceiveReply(c, k) ==
  /\ InSelect
  /\ replies[Reply(c, k)] > 0
  /\ c \in pending
  /\ \E o \in PersistOutcomes(pending \ {c}) :
       /\ IF k = "ack" THEN Completed(c, o, "ack", "acked")
                       ELSE Completed(c, o, "error", "rejected")
       /\ IF o.ok
          THEN /\ session' = "loop"
               /\ replies' = [replies EXCEPT ![Reply(c, k)] = @ - 1]
               /\ UNCHANGED <<batch, batchNow, sent, wire, applied>>
          ELSE CloseConnection

ReceiveUnexpected(c, k) ==
  /\ InSelect
  /\ replies[Reply(c, k)] > 0
  /\ c \notin pending \/ k = "ackOther"
  /\ CloseConnection
  /\ UNCHANGED <<clockVars, memoryVars, callerVars, diskVars, outcome, faults>>

(***************************************************************************)
(* A lifecycle event or snapshot chunk: module RelayProjection has what it *)
(* does; here it only makes the loop run sendPendingCommands again.        *)
(***************************************************************************)
ReceiveOther ==
  /\ InSelect
  /\ session' = "loop"
  /\ UNCHANGED <<clockVars, memoryVars, batch, batchNow, sent, linkVars,
                 callerVars, diskVars, historyVars, faults>>

-----------------------------------------------------------------------------
(***************************************************************************)
(* The Relay, as the client sees it: each command it reads gets at most    *)
(* one reply. A command whose deadline has passed is acknowledged as       *)
(* "already_expired" and changes nothing.                                  *)
(***************************************************************************)
Answer(c, k) ==
  /\ wire[c] > 0
  /\ wire' = [wire EXCEPT ![c] = @ - 1]
  /\ replies' = [replies EXCEPT ![Reply(c, k)] = @ + 1]

RelayAck(c) ==
  /\ Answer(c, "ack")
  /\ applied' = IF denyUntil[c] > now THEN applied \cup {c} ELSE applied
  /\ UNCHANGED <<clockVars, memoryVars, sessionVars, callerVars, diskVars,
                 outcome, faults>>

RelayAckOther(c) ==
  /\ faults < MaxFaults
  /\ Answer(c, "ackOther")
  /\ faults' = faults + 1
  /\ UNCHANGED <<clockVars, memoryVars, sessionVars, callerVars, diskVars,
                 historyVars>>

RelayReject(c) ==
  /\ Answer(c, "error")
  /\ UNCHANGED <<clockVars, memoryVars, sessionVars, callerVars, diskVars,
                 historyVars, faults>>

-----------------------------------------------------------------------------
(***************************************************************************)
(* The process dies, by itself (the file is as it was) or with the machine *)
(* (what was not synced is undone): memory and connection are gone.        *)
(***************************************************************************)
Crash ==
  /\ faults < MaxFaults
  /\ up' = FALSE
  /\ pending' = {}
  /\ notify' = FALSE
  /\ CloseConnection
  /\ caller' = [c \in Ids |-> IF caller[c] = "waiting" THEN "gone" ELSE caller[c]]
  /\ result' = [c \in Ids |-> "none"]
  /\ store' \in {store, stable}
  /\ faults' = faults + 1
  /\ UNCHANGED <<clockVars, stable, outcome>>

(***************************************************************************)
(* openPrivateControlCommandStore: expired commands are dropped and, if    *)
(* there were any, the store is rewritten; a failure ends the process.     *)
(***************************************************************************)
Live == {c \in store : denyUntil[c] > now}

LoadOutcomes ==
  IF Live = store
  THEN {[ok |-> TRUE, store |-> store, stable |-> stable]}
  ELSE PersistOutcomes(Live)

Start ==
  /\ ~up
  /\ Cardinality(Live) <= MaxPending
  /\ outcome' = [c \in Ids |-> IF c \in store \ Live THEN "expired" ELSE outcome[c]]
  /\ \E o \in LoadOutcomes :
       /\ Commit(o)
       /\ up' = o.ok
       /\ pending' = IF o.ok THEN Live ELSE {}
       /\ faults' = FaultsAfter(o.ok)
  /\ UNCHANGED <<clockVars, notify, sessionVars, linkVars, callerVars, applied>>

Tick ==
  /\ now < MaxTime
  /\ now' = now + 1
  /\ UNCHANGED <<denyUntil, memoryVars, sessionVars, linkVars, callerVars,
                 diskVars, historyVars, faults>>

-----------------------------------------------------------------------------
Next ==
  \/ \E c \in Fresh, d \in now + 1 .. now + DenyWindow : Revoke(c, d)
  \/ \E S \in SUBSET Fresh : QueueBatch(S)
  \/ \E c \in Ids : TakeResult(c) \/ WaitDeadline(c) \/ WaitCanceled(c)
  \/ Dial \/ HelloAck \/ EndSession \/ BeginSend
  \/ \E c \in Ids : SkipSent(c) \/ WriteCommand(c) \/ ExpireCommand(c)
  \/ ReceiveNotify \/ ReceiveOther
  \/ \E c \in Ids, k \in {"ack", "error"} : ReceiveReply(c, k)
  \/ \E c \in Ids, k \in ReplyKinds : ReceiveUnexpected(c, k)
  \/ \E c \in Ids : RelayAck(c) \/ RelayAckOther(c) \/ RelayReject(c)
  \/ Crash \/ Start \/ Tick

Spec == Init /\ [][Next]_vars

(***************************************************************************)
(* Fairness. The session goroutine and the start-up of the process keep    *)
(* running; run dials again after every lost connection (its back-off is   *)
(* bounded by 30s). Frames reach the client in order and Go's select picks *)
(* among ready branches at random, so neither a reply nor the notification *)
(* waits for ever behind other frames: strong fairness. That the Relay     *)
(* answers what it reads is an assumption on the Relay. No fairness is     *)
(* assumed of the clock or of callers, and MaxFaults bounds the failures.  *)
(***************************************************************************)
Visit(c) == SkipSent(c) \/ WriteCommand(c) \/ ExpireCommand(c)

ReceiveFrame(c) ==
  ReceiveReply(c, "ack") \/ ReceiveReply(c, "error") \/ ReceiveUnexpected(c, "ackOther")

Fairness ==
  /\ WF_vars(Start) /\ WF_vars(Dial) /\ WF_vars(HelloAck) /\ WF_vars(BeginSend)
  /\ SF_vars(ReceiveNotify)
  /\ \A c \in Ids :
       /\ WF_vars(Visit(c))
       /\ SF_vars(ReceiveFrame(c))
       /\ WF_vars(RelayAck(c) \/ RelayReject(c))

FairSpec == Spec /\ Fairness

-----------------------------------------------------------------------------
(***************************************************************************)
(* Properties.                                                             *)
(***************************************************************************)

\* The request was told, or will be told, that its command is queued.
Accepted(c) == caller[c] \notin {"unused", "refused"}

Unresolved(c) == Accepted(c) /\ outcome[c] = "none"

\* A revocation that enqueuePendingCommands accepted is in the store file, and
\* survives a power loss, until the Relay answers it or its deadline passes:
\* no failed write, lost connection, crash or restart loses it.
AcceptedIsDurable ==
  \A c \in Ids : Unresolved(c) =>
    c \in store /\ c \in stable /\ (up => c \in pending)

\* Once completePendingCommand has handed a result to the caller, the command
\* is nowhere a later session or a restart could send it from again.
CompletedIsFinal ==
  \A c \in Ids : result[c] # "none" \/ caller[c] \in {"ok", "failed"} =>
    c \notin pending /\ c \notin store /\ c \notin stable

\* While the session sleeps in its select without a token in commandNotify,
\* every queued command has been written on this connection: the non-blocking
\* send on a channel of capacity one never loses a wake-up.
NoLostWakeup == InSelect /\ ~notify => pending \subseteq sent

\* A reply to a command written on this connection always finds the command
\* pending, so a Relay that answers what it was sent never makes the client
\* drop the session as "unexpected": a command is not expired once it is sent.
RepliesMatchPending ==
  \A c \in Ids, k \in ReplyKinds : replies[Reply(c, k)] > 0 => c \in pending

\* No command is on one connection twice, in either direction.
Outstanding(c) ==
  wire[c] + replies[Reply(c, "ack")] + replies[Reply(c, "ackOther")]
          + replies[Reply(c, "error")]

WrittenOncePerConnection == \A c \in Ids : Outstanding(c) <= 1

\* 200 is only answered when the Relay put the revocation into force, unless
\* its deadline had already passed.
OkMeansApplied ==
  \A c \in Ids : caller[c] = "ok" => c \in applied \/ denyUntil[c] <= now

\* The limit of privateControlMaxPendingCommands holds for what is on disk as
\* well, failed writes included: start-up never refuses its own store.
StoreLoadable ==
  /\ Cardinality(pending) <= MaxPending
  /\ Cardinality(store) <= MaxPending
  /\ Cardinality(stable) <= MaxPending

\* However long the Relay does not read, only commands of the queue are on the
\* connection, so no more than MaxPending of them wait in its buffers: where
\* buffers hold that many, the writes of sendPendingCommands, which have no
\* deadline, do not block and the session always comes back to reading.
InFlightBounded == Cardinality({c \in Ids : Outstanding(c) > 0}) <= MaxPending

\* There is a verdict on the command, and neither this process nor one that
\* starts from the file will send it.
Resolved(c) == outcome[c] # "none" /\ c \notin pending /\ c \notin store

\* Every accepted revocation is answered, or found expired, in the end, and then
\* leaves memory and file, however connections, writes (that of its own
\* completion too) and the process fail on the way.
EventuallyResolved == \A c \in Ids : Accepted(c) ~> Resolved(c)

\* What README.md says of 202: the command "remains queued pending that ACK in
\* the durable PCL command store". The code also gives it up on an error reply.
AcceptedKeptUntilAck ==
  \A c \in Ids : caller[c] = "accepted" /\ outcome[c] # "acked" /\ denyUntil[c] > now
    => c \in store
=============================================================================
