------------------------ MODULE CommandOutboxProofs ------------------------
(***************************************************************************)
(* Proofs about CommandOutbox, for every set of IDs, every limit and every *)
(* bound on time and failures.                                             *)
(***************************************************************************)
EXTENDS CommandOutbox, FiniteSetTheorems, TLAPS

USE DEF clockVars, memoryVars, sessionVars, linkVars, callerVars, diskVars,
        historyVars

-----------------------------------------------------------------------------
(***************************************************************************)
(* What the helpers promise.                                               *)
(***************************************************************************)

\* What persist may leave behind: success means both copies are the new one, a
\* failure leaves each of them new or as it was, or, on Windows only, empty.
LEMMA PersistShape ==
  ASSUME TypeOK, NEW new \in SUBSET Ids, NEW o \in PersistOutcomes(new)
  PROVE  /\ o.ok \in BOOLEAN
         /\ o.store \in {new, store, {}} /\ o.stable \in {new, stable, {}}
         /\ o.ok => o.store = new /\ o.stable = new
         /\ ~Windows => o.store \in {new, store} /\ o.stable \in {new, stable}
         /\ FaultsAfter(o.ok) \in Nat
<1>1. \/ o = [ok |-> TRUE, store |-> new, stable |-> new]
      \/ o = [ok |-> FALSE, store |-> store, stable |-> stable]
      \/ o = [ok |-> FALSE, store |-> new, stable |-> stable]
      \/ Windows /\ o = [ok |-> FALSE, store |-> {}, stable |-> {}]
  BY DEF PersistOutcomes
<1>2. faults \in Nat /\ faults + 1 \in Nat
  BY DEF TypeOK
<1>3. CASE o = [ok |-> TRUE, store |-> new, stable |-> new]
  BY <1>2, <1>3 DEF FaultsAfter
<1>4. CASE o = [ok |-> FALSE, store |-> store, stable |-> stable]
  BY <1>2, <1>4 DEF FaultsAfter
<1>5. CASE o = [ok |-> FALSE, store |-> new, stable |-> stable]
  BY <1>2, <1>5 DEF FaultsAfter
<1>6. CASE Windows /\ o = [ok |-> FALSE, store |-> {}, stable |-> {}]
  BY <1>2, <1>6 DEF FaultsAfter
<1>7. QED
  BY <1>1, <1>3, <1>4, <1>5, <1>6

\* The same for start-up, which writes only when it dropped an expired command.
LEMMA LoadShape ==
  ASSUME TypeOK, NEW o \in LoadOutcomes
  PROVE  /\ o.ok \in BOOLEAN
         /\ o.store \in {Live, store, {}} /\ o.stable \in {Live, stable, {}}
         /\ ~Windows => o.store \in {Live, store} /\ o.stable \in {Live, stable}
         /\ FaultsAfter(o.ok) \in Nat
<1>1. CASE Live = store
  <2>1. o = [ok |-> TRUE, store |-> store, stable |-> stable]
    BY <1>1 DEF LoadOutcomes
  <2>2. FaultsAfter(TRUE) \in Nat
    BY DEF FaultsAfter, TypeOK
  <2>3. QED
    BY <2>1, <2>2
<1>2. CASE Live # store
  <2>1. Live \in SUBSET Ids
    BY DEF Live, TypeOK
  <2>2. QED
    BY <1>2, <2>1, PersistShape DEF LoadOutcomes
<1>3. QED
  BY <1>1, <1>2

\* A closed connection leaves the session's variables well typed.
LEMMA CloseConnectionType ==
  ASSUME TypeOK, CloseConnection
  PROVE  /\ session' \in SessionStates /\ batch' \subseteq Ids /\ batchNow' \in Nat
         /\ sent' \subseteq Ids /\ wire' \in [Ids -> Nat]
         /\ replies' \in [Replies -> Nat] /\ applied' \subseteq Ids
BY DEF CloseConnection, TypeOK, SessionStates

\* A reply is a key of the function replies.
LEMMA ReplyType == ASSUME NEW c \in Ids, NEW k \in ReplyKinds
                   PROVE  Reply(c, k) \in Replies
BY DEF Reply, Replies

\* completePendingCommand leaves every variable it touches well typed.
LEMMA CompletedType ==
  ASSUME TypeOK, NEW c \in Ids, NEW o \in PersistOutcomes(pending \ {c}),
         NEW r \in {"ack", "error"}, NEW why \in Outcomes, Completed(c, o, r, why)
  PROVE  /\ now' \in Nat /\ denyUntil' \in [Ids -> Nat] /\ up' \in BOOLEAN
         /\ notify' \in BOOLEAN /\ caller' \in [Ids -> CallerStates]
         /\ pending' \subseteq Ids /\ result' \in [Ids -> {"none", "ack", "error"}]
         /\ store' \subseteq Ids /\ stable' \subseteq Ids
         /\ outcome' \in [Ids -> Outcomes] /\ faults' \in Nat
<1>1. pending \ {c} \in SUBSET Ids
  BY DEF TypeOK
<1>2. QED
  BY <1>1, PersistShape DEF Completed, Commit, TypeOK

\* So does enqueuePendingCommands, for a batch of any size.
LEMMA EnqueueType ==
  ASSUME TypeOK, NEW S \in SUBSET Ids, NEW s \in CallerStates,
         enqueuePendingCommands(S, s)
  PROVE  /\ pending' \subseteq Ids /\ notify' \in BOOLEAN
         /\ caller' \in [Ids -> CallerStates]
         /\ store' \subseteq Ids /\ stable' \subseteq Ids /\ faults' \in Nat
<1>1. pending \cup S \in SUBSET Ids
  BY DEF TypeOK
<1>2. QED
  BY <1>1, PersistShape
  DEF enqueuePendingCommands, SetCaller, Commit, TypeOK, CallerStates

-----------------------------------------------------------------------------
(***************************************************************************)
(* Type correctness.                                                       *)
(***************************************************************************)

\* The state newPrivateControlClient starts from is well typed.
LEMMA TypeInit == Init => TypeOK
<1> SUFFICES ASSUME Init PROVE TypeOK
  OBVIOUS
<1>1. up \in BOOLEAN /\ notify \in BOOLEAN
  BY DEF Init
<1>2. now \in Nat /\ batchNow \in Nat /\ faults \in Nat
  BY DEF Init
<1>3. denyUntil \in [Ids -> Nat] /\ wire \in [Ids -> Nat] /\ replies \in [Replies -> Nat]
  BY DEF Init
<1>4. QED
  BY <1>1, <1>2, <1>3 DEF Init, TypeOK, SessionStates, CallerStates, Outcomes

\* No step of any goroutine, of the Relay or of the disk breaks the types.
LEMMA TypeStep == TypeOK /\ [Next]_vars => TypeOK'
<1> SUFFICES ASSUME TypeOK, [Next]_vars PROVE TypeOK'
  OBVIOUS
<1>1. CASE UNCHANGED vars
  BY <1>1 DEF TypeOK, vars
<1>2. ASSUME NEW c \in Fresh, NEW d \in now + 1 .. now + DenyWindow, Revoke(c, d)
      PROVE  TypeOK'
  <2>1. d \in Nat /\ {c} \in SUBSET Ids
    BY OutboxAssumption DEF TypeOK, Fresh
  <2>2. enqueuePendingCommands({c}, "waiting")
    BY <1>2 DEF Revoke
  <2>3. QED
    BY <1>2, <2>1, <2>2, EnqueueType
    DEF Revoke, newPendingRevocation, TypeOK, CallerStates
<1>3. ASSUME NEW S \in SUBSET Fresh, QueueBatch(S)
      PROVE  TypeOK'
  <2>1. now + DenyWindow \in Nat /\ S \in SUBSET Ids
    BY OutboxAssumption DEF TypeOK, Fresh
  <2>2. enqueuePendingCommands(S, "queued")
    BY <1>3 DEF QueueBatch
  <2>3. QED
    BY <1>3, <2>1, <2>2, EnqueueType
    DEF QueueBatch, newPendingRevocation, TypeOK, CallerStates
<1>4. ASSUME NEW c \in Ids, TakeResult(c) \/ WaitDeadline(c) \/ WaitCanceled(c)
      PROVE  TypeOK'
  BY <1>4 DEF TakeResult, WaitDeadline, WaitCanceled, StopWaiting, SetCaller,
              TypeOK, CallerStates
<1>5. CASE Dial \/ HelloAck \/ BeginSend \/ ReceiveNotify \/ ReceiveOther \/ Tick
  <2>1. up' \in BOOLEAN /\ notify' \in BOOLEAN
    BY <1>5 DEF Dial, HelloAck, BeginSend, ReceiveNotify, ReceiveOther, Tick, TypeOK
  <2>2. now' \in Nat
    BY <1>5 DEF Dial, HelloAck, BeginSend, ReceiveNotify, ReceiveOther, Tick, TypeOK
  <2>3. QED
    BY <1>5, <2>1, <2>2 DEF Dial, HelloAck, BeginSend, ReceiveNotify, ReceiveOther,
                            Tick, TypeOK, SessionStates
<1>6. CASE EndSession
  BY <1>6, CloseConnectionType DEF EndSession, TypeOK
<1>7. ASSUME NEW c \in Ids, SkipSent(c) \/ WriteCommand(c)
      PROVE  TypeOK'
  BY <1>7 DEF SkipSent, WriteCommand, TypeOK
<1>8. ASSUME NEW c \in Ids, ExpireCommand(c)
      PROVE  TypeOK'
  <2>1. PICK o \in PersistOutcomes(pending \ {c}) :
          /\ Completed(c, o, "error", "expired")
          /\ IF o.ok
             THEN /\ batch' = batch \ {c}
                  /\ UNCHANGED <<session, batchNow, sent, linkVars, applied>>
             ELSE CloseConnection
    BY <1>8 DEF ExpireCommand
  <2>2. "expired" \in Outcomes
    BY DEF Outcomes
  <2>3. QED
    BY <2>1, <2>2, CompletedType, CloseConnectionType DEF TypeOK
<1>9. ASSUME NEW c \in Ids, NEW k \in {"ack", "error"}, ReceiveReply(c, k)
      PROVE  TypeOK'
  <2>1. PICK o \in PersistOutcomes(pending \ {c}) :
          /\ IF k = "ack" THEN Completed(c, o, "ack", "acked")
                          ELSE Completed(c, o, "error", "rejected")
          /\ IF o.ok
             THEN /\ session' = "loop"
                  /\ replies' = [replies EXCEPT ![Reply(c, k)] = @ - 1]
                  /\ UNCHANGED <<batch, batchNow, sent, wire, applied>>
             ELSE CloseConnection
    BY <1>9 DEF ReceiveReply
  <2>2. "acked" \in Outcomes /\ "rejected" \in Outcomes
    BY DEF Outcomes
  <2>3. replies[Reply(c, k)] > 0 /\ Reply(c, k) \in Replies
    BY <1>9, ReplyType DEF ReceiveReply, ReplyKinds
  <2>4. replies[Reply(c, k)] - 1 \in Nat
    BY <2>3 DEF TypeOK
  <2>5. [replies EXCEPT ![Reply(c, k)] = @ - 1] \in [Replies -> Nat]
    BY <2>3, <2>4 DEF TypeOK
  <2>6. QED
    BY <2>1, <2>2, <2>5, CompletedType, CloseConnectionType
    DEF TypeOK, SessionStates
<1>10. ASSUME NEW c \in Ids, NEW k \in ReplyKinds, ReceiveUnexpected(c, k)
       PROVE  TypeOK'
  BY <1>10, CloseConnectionType DEF ReceiveUnexpected, TypeOK
<1>11. ASSUME NEW c \in Ids, RelayAck(c) \/ RelayAckOther(c) \/ RelayReject(c)
       PROVE  TypeOK'
  <2>1. \A k \in ReplyKinds : Answer(c, k) =>
          wire' \in [Ids -> Nat] /\ replies' \in [Replies -> Nat]
    BY ReplyType DEF Answer, TypeOK
  <2>2. QED
    BY <1>11, <2>1 DEF RelayAck, RelayAckOther, RelayReject, ReplyKinds, TypeOK
<1>12. CASE Crash
  <2>1. up' \in BOOLEAN /\ notify' \in BOOLEAN
    BY <1>12 DEF Crash
  <2>2. QED
    BY <1>12, <2>1, CloseConnectionType DEF Crash, TypeOK, CallerStates
<1>13. CASE Start
  <2>1. Live \in SUBSET Ids
    BY DEF Live, TypeOK
  <2>2. PICK o \in LoadOutcomes :
          /\ Commit(o)
          /\ up' = o.ok
          /\ pending' = IF o.ok THEN Live ELSE {}
          /\ faults' = FaultsAfter(o.ok)
    BY <1>13 DEF Start
  <2>3. QED
    BY <1>13, <2>1, <2>2, LoadShape DEF Start, Commit, TypeOK, Outcomes
<1>14. QED
  BY <1>1, <1>2, <1>3, <1>4, <1>5, <1>6, <1>7, <1>8, <1>9, <1>10, <1>11, <1>12,
     <1>13 DEF Next

\* Every variable keeps its type: counters of frames stay natural numbers, the
\* session only ever visits its four states, whatever fails.
THEOREM TypeCorrect == Spec => []TypeOK
BY TypeInit, TypeStep, PTL DEF Spec

-----------------------------------------------------------------------------
(***************************************************************************)
(* The inductive invariant.                                                *)
(***************************************************************************)

\* No session without a process, and sendPendingCommands only visits commands
\* that are still queued: nothing else removes one while its loop runs.
ProcessInv ==
  /\ ~up => session = "down" /\ pending = {}
  /\ batch \subseteq pending

\* At most one copy of a command is under way on the connection, and then the
\* command is both queued and noted in sentCommands.
LinkInv ==
  \A c \in Ids : /\ Outstanding(c) <= 1
                 /\ Outstanding(c) > 0 => c \in pending /\ c \in sent

\* The strengthening of NoLostWakeup for a loop that is not finished.
WakeInv == session = "open" /\ ~notify => pending \subseteq sent \cup batch

\* An ID that was not drawn yet is nowhere.
FreshInv ==
  \A c \in Ids : caller[c] = "unused" =>
    c \notin pending /\ c \notin store /\ c \notin stable /\ result[c] = "none"

\* An acknowledgement is true from the moment the Relay writes it.
AckInv ==
  \A c \in Ids :
    replies[Reply(c, "ack")] > 0 \/ result[c] = "ack" \/ caller[c] = "ok" =>
      c \in applied \/ denyUntil[c] <= now

\* FreshInv and CompletedIsFinal need each other.
FinalInv == FreshInv /\ CompletedIsFinal

IInv == /\ TypeOK /\ ProcessInv /\ LinkInv /\ WakeInv /\ FinalInv /\ AckInv
        /\ StoreLoadable

-----------------------------------------------------------------------------
(***************************************************************************)
(* What enqueueing and completing do to the queue, the store and callers.  *)
(***************************************************************************)

\* enqueuePendingCommands queues the whole batch in memory, file and stable
\* storage, or refuses it and leaves memory as it was.
LEMMA EnqueueEffect ==
  ASSUME TypeOK, NEW S \in SUBSET Ids, NEW s, enqueuePendingCommands(S, s)
  PROVE  \/ /\ HasRoom(S) /\ pending' = pending \cup S /\ notify' = TRUE
            /\ store' = pending \cup S /\ stable' = pending \cup S
            /\ SetCaller(S, s)
         \/ /\ pending' = pending /\ notify' = notify /\ SetCaller(S, "refused")
            /\ \/ store' = store /\ stable' = stable
               \/ /\ HasRoom(S)
                  /\ store' \in {pending \cup S, store, {}}
                  /\ stable' \in {pending \cup S, stable, {}}
                  /\ ~Windows => /\ store' \in {pending \cup S, store}
                                 /\ stable' \in {pending \cup S, stable}
<1>1. pending \cup S \in SUBSET Ids
  BY DEF TypeOK
<1>2. CASE ~HasRoom(S)
  BY <1>2 DEF enqueuePendingCommands
<1>3. CASE HasRoom(S)
  <2>1. PICK o \in PersistOutcomes(pending \cup S) :
          /\ Commit(o)
          /\ pending' = IF o.ok THEN pending \cup S ELSE pending
          /\ notify' = (notify \/ o.ok)
          /\ SetCaller(S, IF o.ok THEN s ELSE "refused")
    BY <1>3 DEF enqueuePendingCommands
  <2>2. CASE o.ok
    BY <1>1, <1>3, <2>1, <2>2, PersistShape DEF Commit
  <2>3. CASE ~o.ok
    <3>1. notify' = notify
      BY <2>1, <2>3 DEF TypeOK
    <3>2. pending' = pending /\ SetCaller(S, "refused")
      BY <2>1, <2>3
    <3>3. QED
      BY <1>1, <1>3, <2>1, <3>1, <3>2, PersistShape DEF Commit
  <2>4. QED
    BY <2>2, <2>3
<1>4. QED
  BY <1>2, <1>3

\* Completing a command removes it everywhere and delivers a result, or, when
\* the write fails, changes neither memory nor the caller's channel.
LEMMA CompletedEffect ==
  ASSUME TypeOK, NEW c \in Ids, NEW o \in PersistOutcomes(pending \ {c}),
         NEW r \in {"ack", "error"}, NEW why \in Outcomes, Completed(c, o, r, why)
  PROVE  /\ UNCHANGED <<now, denyUntil, up, notify, caller>>
         /\ outcome' = [outcome EXCEPT ![c] = why]
         /\ store' \in {pending \ {c}, store, {}}
         /\ stable' \in {pending \ {c}, stable, {}}
         /\ ~Windows => /\ store' \in {pending \ {c}, store}
                        /\ stable' \in {pending \ {c}, stable}
         /\ IF o.ok
            THEN /\ pending' = pending \ {c} /\ store' = pending \ {c}
                 /\ stable' = pending \ {c}
                 /\ result' \in {result, [result EXCEPT ![c] = r]}
            ELSE pending' = pending /\ result' = result
<1>1. pending \ {c} \in SUBSET Ids
  BY DEF TypeOK
<1>2. QED
  BY <1>1, PersistShape DEF Completed, Commit

\* Completing commands: the two actions that call completePendingCommand and
\* completePendingAcknowledgement.
LEMMA ExpireEffect ==
  ASSUME TypeOK, NEW c \in Ids, ExpireCommand(c)
  PROVE  /\ session = "open" /\ c \in batch /\ c \notin sent
         /\ \E o \in PersistOutcomes(pending \ {c}) :
              /\ Completed(c, o, "error", "expired")
              /\ IF o.ok
                 THEN /\ batch' = batch \ {c}
                      /\ UNCHANGED <<session, batchNow, sent, linkVars, applied>>
                 ELSE CloseConnection
BY DEF ExpireCommand, Disposition

\* The same for a reply, with the result and the outcome it stands for.
LEMMA ReceiveReplyEffect ==
  ASSUME TypeOK, NEW c \in Ids, NEW k \in {"ack", "error"}, ReceiveReply(c, k)
  PROVE  /\ session = "open" /\ batch = {} /\ c \in pending
         /\ replies[Reply(c, k)] > 0
         /\ \E o \in PersistOutcomes(pending \ {c}), why \in Outcomes :
              /\ Completed(c, o, k, why) /\ why # "none"
              /\ IF o.ok
                 THEN /\ session' = "loop"
                      /\ replies' = [replies EXCEPT ![Reply(c, k)] = @ - 1]
                      /\ UNCHANGED <<batch, batchNow, sent, wire, applied>>
                 ELSE CloseConnection
BY DEF ReceiveReply, InSelect, Outcomes

-----------------------------------------------------------------------------
\* Memory and connection exist only while the process runs, and the session's
\* list stays within the queue.
LEMMA ProcessStep == TypeOK /\ ProcessInv /\ [Next]_vars => ProcessInv'
<1> SUFFICES ASSUME TypeOK, ProcessInv, [Next]_vars PROVE ProcessInv'
  OBVIOUS
<1>1. CASE UNCHANGED vars
  BY <1>1 DEF ProcessInv, vars
<1>2. ASSUME NEW c \in Fresh, NEW d \in now + 1 .. now + DenyWindow, Revoke(c, d)
      PROVE  ProcessInv'
  <2>1. {c} \in SUBSET Ids /\ enqueuePendingCommands({c}, "waiting") /\ up
    BY <1>2 DEF Revoke, newPendingRevocation, Fresh
  <2>2. pending \subseteq pending'
    BY <2>1, EnqueueEffect
  <2>3. QED
    BY <1>2, <2>1, <2>2 DEF Revoke, ProcessInv
<1>3. ASSUME NEW S \in SUBSET Fresh, QueueBatch(S)
      PROVE  ProcessInv'
  <2>1. S \in SUBSET Ids /\ enqueuePendingCommands(S, "queued") /\ up
    BY <1>3 DEF QueueBatch, newPendingRevocation, Fresh
  <2>2. pending \subseteq pending'
    BY <2>1, EnqueueEffect
  <2>3. QED
    BY <1>3, <2>1, <2>2 DEF QueueBatch, ProcessInv
<1>4. ASSUME NEW c \in Ids, TakeResult(c) \/ WaitDeadline(c) \/ WaitCanceled(c)
      PROVE  ProcessInv'
  BY <1>4 DEF TakeResult, WaitDeadline, WaitCanceled, StopWaiting, ProcessInv
<1>5. CASE Dial \/ HelloAck \/ BeginSend \/ ReceiveNotify \/ ReceiveOther \/ Tick
  BY <1>5 DEF Dial, HelloAck, BeginSend, ReceiveNotify, ReceiveOther, InSelect, Tick,
              ProcessInv
<1>6. CASE EndSession
  BY <1>6 DEF EndSession, CloseConnection, ProcessInv
<1>7. ASSUME NEW c \in Ids, SkipSent(c) \/ WriteCommand(c)
      PROVE  ProcessInv'
  BY <1>7 DEF SkipSent, WriteCommand, ProcessInv
<1>8. ASSUME NEW c \in Ids, ExpireCommand(c)
      PROVE  ProcessInv'
  <2>1. "expired" \in Outcomes
    BY DEF Outcomes
  <2>2. PICK o \in PersistOutcomes(pending \ {c}) :
          /\ Completed(c, o, "error", "expired")
          /\ IF o.ok THEN batch' = batch \ {c} ELSE CloseConnection
    BY <1>8, ExpireEffect
  <2>3. up' = up /\ up /\ pending' \in {pending, pending \ {c}}
           /\ (o.ok => pending' = pending \ {c})
    BY <1>8, <2>1, <2>2, CompletedEffect, ExpireEffect DEF ProcessInv
  <2>4. QED
    BY <2>2, <2>3 DEF ProcessInv, CloseConnection
<1>9. ASSUME NEW c \in Ids, NEW k \in {"ack", "error"}, ReceiveReply(c, k)
      PROVE  ProcessInv'
  <2>1. PICK o \in PersistOutcomes(pending \ {c}), why \in Outcomes :
          /\ Completed(c, o, k, why)
          /\ IF o.ok THEN UNCHANGED batch ELSE CloseConnection
    BY <1>9, ReceiveReplyEffect
  <2>2. up' = up
    BY <2>1, CompletedEffect
  <2>3. up /\ batch = {}
    BY <1>9, ReceiveReplyEffect DEF ProcessInv
  <2>4. QED
    BY <2>1, <2>2, <2>3 DEF ProcessInv, CloseConnection
<1>10. ASSUME NEW c \in Ids, NEW k \in ReplyKinds, ReceiveUnexpected(c, k)
       PROVE  ProcessInv'
  BY <1>10 DEF ReceiveUnexpected, CloseConnection, ProcessInv
<1>11. ASSUME NEW c \in Ids, RelayAck(c) \/ RelayAckOther(c) \/ RelayReject(c)
       PROVE  ProcessInv'
  BY <1>11 DEF RelayAck, RelayAckOther, RelayReject, ProcessInv
<1>12. CASE Crash
  BY <1>12 DEF Crash, CloseConnection, ProcessInv
<1>13. CASE Start
  BY <1>13 DEF Start, ProcessInv
<1>14. QED
  BY <1>1, <1>2, <1>3, <1>4, <1>5, <1>6, <1>7, <1>8, <1>9, <1>10, <1>11, <1>12,
     <1>13 DEF Next

-----------------------------------------------------------------------------
(***************************************************************************)
(* One copy of a command per connection.                                   *)
(***************************************************************************)

\* Two replies are the same only if they answer the same command the same way.
LEMMA ReplyInjective ==
  ASSUME NEW c \in Ids, NEW x \in Ids, NEW k \in ReplyKinds, NEW j \in ReplyKinds,
         Reply(c, k) = Reply(x, j)
  PROVE  c = x /\ k = j
BY DEF Reply

\* The copies of a command under way are counted by natural numbers.
LEMMA OutstandingNat ==
  ASSUME TypeOK, NEW c \in Ids
  PROVE  /\ wire[c] \in Nat
         /\ \A k \in ReplyKinds : replies[Reply(c, k)] \in Nat
         /\ Outstanding(c) \in Nat
         /\ wire[c] > 0 => Outstanding(c) > 0
         /\ \A k \in ReplyKinds : replies[Reply(c, k)] > 0 => Outstanding(c) > 0
<1>1. wire[c] \in Nat
  BY DEF TypeOK
<1>2. \A k \in ReplyKinds : replies[Reply(c, k)] \in Nat
  BY ReplyType DEF TypeOK
<1>3. QED
  BY <1>1, <1>2 DEF Outstanding, ReplyKinds

\* Steps that leave the connection alone and keep the commands on it queued.
LEMMA LinkKept ==
  ASSUME LinkInv, UNCHANGED <<wire, replies>>, sent \subseteq sent',
         \A c \in Ids : Outstanding(c) > 0 /\ c \in pending => c \in pending'
  PROVE  LinkInv'
<1>1. \A c \in Ids : Outstanding(c)' = Outstanding(c)
  BY DEF Outstanding
<1>2. QED
  BY <1>1 DEF LinkInv

\* On a closed connection nothing is under way.
LEMMA LinkClosed == ASSUME CloseConnection PROVE LinkInv'
<1>1. \A c \in Ids : wire'[c] = 0
  BY DEF CloseConnection
<1>2. \A c \in Ids, k \in ReplyKinds : replies'[Reply(c, k)] = 0
  BY ReplyType DEF CloseConnection
<1>3. \A c \in Ids : Outstanding(c)' = 0
  BY <1>1, <1>2 DEF Outstanding, ReplyKinds
<1>4. QED
  BY <1>3 DEF LinkInv

\* An answer takes the place of the command it answers.
LEMMA LinkAnswered ==
  ASSUME TypeOK, LinkInv, NEW c \in Ids, NEW k \in ReplyKinds, Answer(c, k),
         UNCHANGED <<pending, sent>>
  PROVE  LinkInv'
<1>1. wire[c] > 0 /\ wire[c] \in Nat /\ wire'[c] = wire[c] - 1
        /\ \A x \in Ids : x # c => wire'[x] = wire[x]
  BY DEF Answer, TypeOK
<1>2. replies' = [replies EXCEPT ![Reply(c, k)] = @ + 1]
  BY DEF Answer
<1>3. replies'[Reply(c, k)] = replies[Reply(c, k)] + 1
  BY <1>2, ReplyType DEF TypeOK
<1>4. \A x \in Ids, j \in ReplyKinds :
        x # c \/ j # k => replies'[Reply(x, j)] = replies[Reply(x, j)]
  BY <1>2, ReplyType, ReplyInjective DEF TypeOK
<1>5. \A x \in Ids : x # c => Outstanding(x)' = Outstanding(x)
  BY <1>1, <1>4 DEF Outstanding, ReplyKinds
<1>6. Outstanding(c)' = Outstanding(c)
  <2>1. \A j \in ReplyKinds : replies[Reply(c, j)] \in Nat
    BY OutstandingNat
  <2>2. QED
    BY <1>1, <1>3, <1>4, <2>1 DEF Outstanding, ReplyKinds
<1>7. QED
  BY <1>5, <1>6 DEF LinkInv

\* sendPendingCommands, the replies and every failure keep one copy at most.
LEMMA LinkStep == TypeOK /\ ProcessInv /\ LinkInv /\ [Next]_vars => LinkInv'
<1> SUFFICES ASSUME TypeOK, ProcessInv, LinkInv, [Next]_vars PROVE LinkInv'
  OBVIOUS
<1>1. CASE UNCHANGED vars
  BY <1>1, LinkKept DEF vars
<1>2. ASSUME NEW c \in Fresh, NEW d \in now + 1 .. now + DenyWindow, Revoke(c, d)
      PROVE  LinkInv'
  <2>1. {c} \in SUBSET Ids /\ enqueuePendingCommands({c}, "waiting")
    BY <1>2 DEF Revoke, Fresh
  <2>2. pending \subseteq pending'
    BY <2>1, EnqueueEffect
  <2>3. QED
    BY <1>2, <2>2, LinkKept DEF Revoke
<1>3. ASSUME NEW S \in SUBSET Fresh, QueueBatch(S)
      PROVE  LinkInv'
  <2>1. S \in SUBSET Ids /\ enqueuePendingCommands(S, "queued")
    BY <1>3 DEF QueueBatch, Fresh
  <2>2. pending \subseteq pending'
    BY <2>1, EnqueueEffect
  <2>3. QED
    BY <1>3, <2>2, LinkKept DEF QueueBatch
<1>4. ASSUME NEW c \in Ids, TakeResult(c) \/ WaitDeadline(c) \/ WaitCanceled(c)
      PROVE  LinkInv'
  BY <1>4, LinkKept DEF TakeResult, WaitDeadline, WaitCanceled, StopWaiting
<1>5. CASE Dial \/ HelloAck \/ BeginSend \/ ReceiveNotify \/ ReceiveOther \/ Tick
  BY <1>5, LinkKept DEF Dial, HelloAck, BeginSend, ReceiveNotify, ReceiveOther, Tick
<1>6. CASE EndSession \/ Crash
  BY <1>6, LinkClosed DEF EndSession, Crash
<1>7. ASSUME NEW c \in Ids, SkipSent(c)
      PROVE  LinkInv'
  BY <1>7, LinkKept DEF SkipSent
<1>8. ASSUME NEW c \in Ids, WriteCommand(c)
      PROVE  LinkInv'
  <2>1. c \notin sent /\ c \in pending
    BY <1>8 DEF WriteCommand, Disposition, ProcessInv
  <2>2. Outstanding(c) = 0 /\ Outstanding(c) \in Nat
    BY <2>1, OutstandingNat DEF LinkInv
  <2>3. wire'[c] = wire[c] + 1 /\ wire[c] \in Nat
          /\ \A x \in Ids : x # c => wire'[x] = wire[x]
    BY <1>8 DEF WriteCommand, TypeOK
  <2>4. Outstanding(c)' = Outstanding(c) + 1
    <3>1. \A j \in ReplyKinds : replies[Reply(c, j)] \in Nat
      BY OutstandingNat
    <3>2. QED
      BY <1>8, <2>3, <3>1 DEF WriteCommand, Outstanding, ReplyKinds
  <2>5. \A x \in Ids : x # c => Outstanding(x)' = Outstanding(x)
    BY <1>8, <2>3 DEF WriteCommand, Outstanding
  <2>6. QED
    BY <1>8, <2>1, <2>2, <2>4, <2>5 DEF WriteCommand, LinkInv
<1>9. ASSUME NEW c \in Ids, ExpireCommand(c)
      PROVE  LinkInv'
  <2>1. "expired" \in Outcomes
    BY DEF Outcomes
  <2>2. PICK o \in PersistOutcomes(pending \ {c}) :
          /\ Completed(c, o, "error", "expired")
          /\ IF o.ok THEN UNCHANGED <<sent, wire, replies>> ELSE CloseConnection
    BY <1>9, ExpireEffect
  <2>3. c \notin sent
    BY <1>9, ExpireEffect
  <2>4. CASE o.ok
    <3>1. pending' = pending \ {c}
      BY <2>1, <2>2, <2>4, CompletedEffect
    <3>2. ~(Outstanding(c) > 0)
      BY <2>3 DEF LinkInv
    <3>3. QED
      BY <2>2, <2>4, <3>1, <3>2, LinkKept
  <2>5. QED
    BY <2>2, <2>4, LinkClosed
<1>10. ASSUME NEW c \in Ids, NEW k \in {"ack", "error"}, ReceiveReply(c, k)
       PROVE  LinkInv'
  <2>1. PICK o \in PersistOutcomes(pending \ {c}), why \in Outcomes :
          /\ Completed(c, o, k, why)
          /\ IF o.ok
             THEN /\ replies' = [replies EXCEPT ![Reply(c, k)] = @ - 1]
                  /\ UNCHANGED <<sent, wire>>
             ELSE CloseConnection
    BY <1>10, ReceiveReplyEffect
  <2>2. CASE o.ok
    <3>1. replies[Reply(c, k)] > 0 /\ k \in ReplyKinds
      BY <1>10, ReceiveReplyEffect DEF ReplyKinds
    <3>2. pending' = pending \ {c}
      BY <2>1, <2>2, CompletedEffect
    <3>3. replies'[Reply(c, k)] = replies[Reply(c, k)] - 1
      BY <2>1, <2>2, <3>1, ReplyType DEF TypeOK
    <3>4. \A x \in Ids, j \in ReplyKinds :
            x # c \/ j # k => replies'[Reply(x, j)] = replies[Reply(x, j)]
      BY <2>1, <2>2, <3>1, ReplyType, ReplyInjective DEF TypeOK
    <3>5. \A x \in Ids : x # c => Outstanding(x)' = Outstanding(x)
      BY <2>1, <2>2, <3>4 DEF Outstanding, ReplyKinds
    <3>6. Outstanding(c)' = 0
      <4>1. wire[c] \in Nat /\ \A j \in ReplyKinds : replies[Reply(c, j)] \in Nat
        BY OutstandingNat
      <4>2. Outstanding(c) <= 1
        BY DEF LinkInv
      <4>3. QED
        BY <2>1, <2>2, <3>1, <3>3, <3>4, <4>1, <4>2 DEF Outstanding, ReplyKinds
    <3>7. QED
      BY <2>1, <2>2, <3>2, <3>5, <3>6 DEF LinkInv
  <2>3. QED
    BY <2>1, <2>2, LinkClosed
<1>11. ASSUME NEW c \in Ids, NEW k \in ReplyKinds, ReceiveUnexpected(c, k)
       PROVE  LinkInv'
  BY <1>11, LinkClosed DEF ReceiveUnexpected
<1>12. ASSUME NEW c \in Ids, RelayAck(c) \/ RelayAckOther(c) \/ RelayReject(c)
       PROVE  LinkInv'
  BY <1>12, LinkAnswered DEF RelayAck, RelayAckOther, RelayReject, ReplyKinds
<1>13. CASE Start
  <2>1. \A c \in Ids : ~(Outstanding(c) > 0)
    BY <1>13 DEF Start, ProcessInv, LinkInv
  <2>2. QED
    BY <1>13, <2>1, LinkKept DEF Start
<1>14. QED
  BY <1>1, <1>2, <1>3, <1>4, <1>5, <1>6, <1>7, <1>8, <1>9, <1>10, <1>11, <1>12,
     <1>13 DEF Next

-----------------------------------------------------------------------------
(***************************************************************************)
(* Wake-ups.                                                               *)
(***************************************************************************)

\* The loop misses no command: what it has not written it still has to visit, or
\* the token in commandNotify makes it look again.
LEMMA WakeStep == TypeOK /\ ProcessInv /\ WakeInv /\ [Next]_vars => WakeInv'
<1> SUFFICES ASSUME TypeOK, ProcessInv, WakeInv, [Next]_vars PROVE WakeInv'
  OBVIOUS
<1>1. CASE UNCHANGED vars
  BY <1>1 DEF WakeInv, vars
<1>2. ASSUME NEW c \in Fresh, NEW d \in now + 1 .. now + DenyWindow, Revoke(c, d)
      PROVE  WakeInv'
  <2>1. {c} \in SUBSET Ids /\ enqueuePendingCommands({c}, "waiting")
    BY <1>2 DEF Revoke, Fresh
  <2>2. notify' = TRUE \/ (pending' = pending /\ notify' = notify)
    BY <2>1, EnqueueEffect
  <2>3. QED
    BY <1>2, <2>2 DEF Revoke, WakeInv
<1>3. ASSUME NEW S \in SUBSET Fresh, QueueBatch(S)
      PROVE  WakeInv'
  <2>1. S \in SUBSET Ids /\ enqueuePendingCommands(S, "queued")
    BY <1>3 DEF QueueBatch, Fresh
  <2>2. notify' = TRUE \/ (pending' = pending /\ notify' = notify)
    BY <2>1, EnqueueEffect
  <2>3. QED
    BY <1>3, <2>2 DEF QueueBatch, WakeInv
<1>4. ASSUME NEW c \in Ids, TakeResult(c) \/ WaitDeadline(c) \/ WaitCanceled(c)
      PROVE  WakeInv'
  BY <1>4 DEF TakeResult, WaitDeadline, WaitCanceled, StopWaiting, WakeInv
<1>5. CASE Dial \/ HelloAck \/ BeginSend \/ ReceiveNotify \/ ReceiveOther \/ Tick
  BY <1>5 DEF Dial, HelloAck, BeginSend, ReceiveNotify, ReceiveOther, Tick, WakeInv
<1>6. CASE EndSession \/ Crash
  BY <1>6 DEF EndSession, Crash, CloseConnection, WakeInv
<1>7. ASSUME NEW c \in Ids, SkipSent(c) \/ WriteCommand(c)
      PROVE  WakeInv'
  BY <1>7 DEF SkipSent, WriteCommand, Disposition, WakeInv
<1>8. ASSUME NEW c \in Ids, ExpireCommand(c)
      PROVE  WakeInv'
  <2>1. "expired" \in Outcomes
    BY DEF Outcomes
  <2>2. PICK o \in PersistOutcomes(pending \ {c}) :
          /\ Completed(c, o, "error", "expired")
          /\ IF o.ok THEN batch' = batch \ {c} /\ UNCHANGED <<session, sent>>
                     ELSE CloseConnection
    BY <1>8, ExpireEffect
  <2>3. notify' = notify /\ (o.ok => pending' = pending \ {c})
    BY <2>1, <2>2, CompletedEffect
  <2>4. QED
    BY <2>2, <2>3 DEF CloseConnection, WakeInv
<1>9. ASSUME NEW c \in Ids, NEW k \in {"ack", "error"}, ReceiveReply(c, k)
      PROVE  WakeInv'
  BY <1>9, ReceiveReplyEffect DEF CloseConnection, WakeInv
<1>10. ASSUME NEW c \in Ids, NEW k \in ReplyKinds, ReceiveUnexpected(c, k)
       PROVE  WakeInv'
  BY <1>10 DEF ReceiveUnexpected, CloseConnection, WakeInv
<1>11. ASSUME NEW c \in Ids, RelayAck(c) \/ RelayAckOther(c) \/ RelayReject(c)
       PROVE  WakeInv'
  BY <1>11 DEF RelayAck, RelayAckOther, RelayReject, WakeInv
<1>12. CASE Start
  BY <1>12 DEF Start, ProcessInv, WakeInv
<1>13. QED
  BY <1>1, <1>2, <1>3, <1>4, <1>5, <1>6, <1>7, <1>8, <1>9, <1>10, <1>11, <1>12
  DEF Next

-----------------------------------------------------------------------------
(***************************************************************************)
(* What has been completed is gone for good.                               *)
(***************************************************************************)

\* Steps that neither queue, complete nor answer anything.
LEMMA FinalKept ==
  ASSUME FinalInv, UNCHANGED <<pending, store, stable, caller, result>>
  PROVE  FinalInv'
BY DEF FinalInv, FreshInv, CompletedIsFinal

\* Queueing fresh IDs brings back no completed command.
LEMMA FinalEnqueue ==
  ASSUME TypeOK, FinalInv, NEW S \in SUBSET Fresh, NEW s \in {"waiting", "queued"},
         enqueuePendingCommands(S, s), UNCHANGED result
  PROVE  FinalInv'
<1>1. S \in SUBSET Ids /\ \A c \in S : caller[c] = "unused"
  BY DEF Fresh
<1>2. /\ pending' \subseteq pending \cup S
      /\ store' \subseteq store \cup pending \cup S
      /\ stable' \subseteq stable \cup pending \cup S
  BY <1>1, EnqueueEffect
<1>3. SetCaller(S, s) \/ SetCaller(S, "refused")
  BY <1>1, EnqueueEffect
<1>4. /\ \A c \in Ids : c \notin S => caller'[c] = caller[c]
      /\ \A c \in S : caller'[c] \in {"waiting", "queued", "refused"}
  BY <1>1, <1>3 DEF SetCaller
<1>5. FreshInv'
  BY <1>2, <1>4 DEF FinalInv, FreshInv
<1>6. CompletedIsFinal'
  BY <1>1, <1>2, <1>4 DEF FinalInv, FreshInv, CompletedIsFinal
<1>7. QED
  BY <1>5, <1>6 DEF FinalInv

\* A completed command is removed before its caller is told.
LEMMA FinalCompleted ==
  ASSUME TypeOK, FinalInv, NEW c \in pending, NEW o \in PersistOutcomes(pending \ {c}),
         NEW r \in {"ack", "error"}, NEW why \in Outcomes, Completed(c, o, r, why)
  PROVE  FinalInv'
<1>1. c \in Ids
  BY DEF TypeOK
<1>2. caller' = caller /\ caller[c] \notin {"unused", "ok", "failed"}
        /\ result[c] = "none"
  BY <1>1, CompletedEffect DEF FinalInv, FreshInv, CompletedIsFinal
<1>3. /\ pending' \subseteq pending
      /\ store' \subseteq store \cup pending
      /\ stable' \subseteq stable \cup pending
  BY <1>1, CompletedEffect
<1>4. \A x \in Ids : x # c => result'[x] = result[x]
  BY <1>1, CompletedEffect DEF TypeOK
<1>5. result'[c] = "none" \/ (c \notin pending' /\ c \notin store' /\ c \notin stable')
  BY <1>1, <1>2, CompletedEffect
<1>6. QED
  BY <1>2, <1>3, <1>4, <1>5 DEF FinalInv, FreshInv, CompletedIsFinal

\* No step, a failed write or a restart included, brings back a completed command.
LEMMA FinalStep == TypeOK /\ ProcessInv /\ FinalInv /\ [Next]_vars => FinalInv'
<1> SUFFICES ASSUME TypeOK, ProcessInv, FinalInv, [Next]_vars PROVE FinalInv'
  OBVIOUS
<1>1. CASE UNCHANGED vars
  BY <1>1, FinalKept DEF vars
<1>2. ASSUME NEW c \in Fresh, NEW d \in now + 1 .. now + DenyWindow, Revoke(c, d)
      PROVE  FinalInv'
  <2>1. {c} \in SUBSET Fresh
    OBVIOUS
  <2>2. QED
    BY <1>2, <2>1, FinalEnqueue DEF Revoke
<1>3. ASSUME NEW S \in SUBSET Fresh, QueueBatch(S)
      PROVE  FinalInv'
  BY <1>3, FinalEnqueue DEF QueueBatch
<1>4. ASSUME NEW c \in Ids, TakeResult(c) \/ WaitDeadline(c) \/ WaitCanceled(c)
      PROVE  FinalInv'
  <2>1. /\ \A x \in Ids : x # c => caller'[x] = caller[x]
        /\ caller'[c] \in {"ok", "failed", "accepted", "gone"}
        /\ caller'[c] \in {"ok", "failed"} => result[c] # "none"
        /\ UNCHANGED <<pending, store, stable, result>>
    BY <1>4 DEF TakeResult, WaitDeadline, WaitCanceled, StopWaiting, SetCaller
  <2>2. QED
    BY <2>1 DEF FinalInv, FreshInv, CompletedIsFinal
<1>5. CASE Dial \/ HelloAck \/ BeginSend \/ ReceiveNotify \/ ReceiveOther \/ Tick
  BY <1>5, FinalKept DEF Dial, HelloAck, BeginSend, ReceiveNotify, ReceiveOther, Tick
<1>6. CASE EndSession
  BY <1>6, FinalKept DEF EndSession
<1>7. ASSUME NEW c \in Ids, SkipSent(c) \/ WriteCommand(c)
      PROVE  FinalInv'
  BY <1>7, FinalKept DEF SkipSent, WriteCommand
<1>8. ASSUME NEW c \in Ids, ExpireCommand(c)
      PROVE  FinalInv'
  <2>1. c \in pending /\ "expired" \in Outcomes
    BY <1>8, ExpireEffect DEF ProcessInv, Outcomes
  <2>2. QED
    BY <1>8, <2>1, ExpireEffect, FinalCompleted
<1>9. ASSUME NEW c \in Ids, NEW k \in {"ack", "error"}, ReceiveReply(c, k)
      PROVE  FinalInv'
  BY <1>9, ReceiveReplyEffect, FinalCompleted
<1>10. ASSUME NEW c \in Ids, NEW k \in ReplyKinds, ReceiveUnexpected(c, k)
       PROVE  FinalInv'
  BY <1>10, FinalKept DEF ReceiveUnexpected
<1>11. ASSUME NEW c \in Ids, RelayAck(c) \/ RelayAckOther(c) \/ RelayReject(c)
       PROVE  FinalInv'
  BY <1>11, FinalKept DEF RelayAck, RelayAckOther, RelayReject
<1>12. CASE Crash
  <2>1. /\ pending' = {} /\ store' \in {store, stable} /\ stable' = stable
        /\ \A c \in Ids : result'[c] = "none"
        /\ \A c \in Ids : caller'[c] = caller[c] \/ caller'[c] = "gone"
    BY <1>12 DEF Crash
  <2>2. FreshInv'
    BY <2>1 DEF FinalInv, FreshInv
  <2>3. CompletedIsFinal'
    BY <2>1 DEF FinalInv, CompletedIsFinal
  <2>4. QED
    BY <2>2, <2>3 DEF FinalInv
<1>13. CASE Start
  <2>1. PICK o \in LoadOutcomes : Commit(o) /\ pending' = IF o.ok THEN Live ELSE {}
    BY <1>13 DEF Start
  <2>2. /\ pending' \subseteq store /\ store' \subseteq store
        /\ stable' \subseteq store \cup stable
    BY <2>1, LoadShape DEF Commit, Live
  <2>3. UNCHANGED <<caller, result>>
    BY <1>13 DEF Start
  <2>4. QED
    BY <2>2, <2>3 DEF FinalInv, FreshInv, CompletedIsFinal
<1>14. QED
  BY <1>1, <1>2, <1>3, <1>4, <1>5, <1>6, <1>7, <1>8, <1>9, <1>10, <1>11, <1>12,
     <1>13 DEF Next

-----------------------------------------------------------------------------
(***************************************************************************)
(* Acknowledgements are true.                                              *)
(***************************************************************************)

\* Steps that move acknowledgements on but make none.
LEMMA AckKept ==
  ASSUME TypeOK, TypeOK', AckInv, now <= now', applied \subseteq applied',
         \A c \in Ids :
            /\ denyUntil'[c] = denyUntil[c]
            /\ replies'[Reply(c, "ack")] > 0 => replies[Reply(c, "ack")] > 0
            /\ result'[c] = "ack" => result[c] = "ack" \/ replies[Reply(c, "ack")] > 0
            /\ caller'[c] = "ok" => caller[c] = "ok" \/ result[c] = "ack"
  PROVE  AckInv'
<1>1. now \in Nat /\ now' \in Nat /\ \A c \in Ids : denyUntil[c] \in Nat
  BY DEF TypeOK
<1>2. QED
  BY <1>1 DEF AckInv

\* A fresh command has no acknowledgement to be false.
LEMMA AckEnqueue ==
  ASSUME TypeOK, TypeOK', LinkInv, FinalInv, AckInv, NEW S \in SUBSET Fresh,
         NEW s \in {"waiting", "queued"}, NEW d, newPendingRevocation(S, d),
         enqueuePendingCommands(S, s), UNCHANGED <<now, replies, result, applied>>
  PROVE  AckInv'
<1>1. S \in SUBSET Ids /\ \A c \in S : caller[c] = "unused"
  BY DEF Fresh
<1>2. SetCaller(S, s) \/ SetCaller(S, "refused")
  BY <1>1, EnqueueEffect
<1>3. /\ \A c \in Ids : c \notin S => caller'[c] = caller[c]
      /\ \A c \in S : caller'[c] # "ok"
  BY <1>1, <1>2 DEF SetCaller
<1>4. \A c \in S : c \notin pending /\ result[c] = "none"
  BY <1>1 DEF FinalInv, FreshInv
<1>5. \A c \in S : ~(replies[Reply(c, "ack")] > 0)
  BY <1>1, <1>4, OutstandingNat DEF LinkInv, ReplyKinds
<1>6. \A c \in Ids : c \notin S => denyUntil'[c] = denyUntil[c]
  BY DEF newPendingRevocation
<1>7. QED
  BY <1>1, <1>3, <1>4, <1>5, <1>6 DEF AckInv

\* Closing the connection only loses acknowledgements.
LEMMA AckClosed ==
  ASSUME CloseConnection
  PROVE  /\ applied \subseteq applied'
         /\ \A c \in Ids : ~(replies'[Reply(c, "ack")] > 0)
<1>1. \A c \in Ids : replies'[Reply(c, "ack")] = 0
  BY ReplyType DEF CloseConnection, ReplyKinds
<1>2. QED
  BY <1>1 DEF CloseConnection

\* Acknowledgements stay true on their way from the Relay to the caller.
LEMMA AckStep ==
  TypeOK /\ TypeOK' /\ LinkInv /\ FinalInv /\ AckInv /\ [Next]_vars => AckInv'
<1> SUFFICES ASSUME TypeOK, TypeOK', LinkInv, FinalInv, AckInv, [Next]_vars PROVE AckInv'
  OBVIOUS
<1>n. now \in Nat /\ now <= now
  BY DEF TypeOK
<1>1. CASE UNCHANGED vars
  BY <1>1 DEF vars, AckInv
<1>2. ASSUME NEW c \in Fresh, NEW d \in now + 1 .. now + DenyWindow, Revoke(c, d)
      PROVE  AckInv'
  <2>1. {c} \in SUBSET Fresh
    OBVIOUS
  <2>2. QED
    BY <1>2, <2>1, AckEnqueue DEF Revoke
<1>3. ASSUME NEW S \in SUBSET Fresh, QueueBatch(S)
      PROVE  AckInv'
  BY <1>3, AckEnqueue DEF QueueBatch
<1>4. ASSUME NEW c \in Ids, TakeResult(c) \/ WaitDeadline(c) \/ WaitCanceled(c)
      PROVE  AckInv'
  <2>1. /\ \A x \in Ids : caller'[x] = "ok" => caller[x] = "ok" \/ result[x] = "ack"
        /\ UNCHANGED <<now, denyUntil, replies, result, applied>>
    BY <1>4 DEF TakeResult, WaitDeadline, WaitCanceled, StopWaiting, SetCaller
  <2>2. QED
    BY <2>1 DEF AckInv
<1>5. CASE Dial \/ HelloAck \/ BeginSend \/ ReceiveNotify \/ ReceiveOther
  BY <1>5 DEF Dial, HelloAck, BeginSend, ReceiveNotify, ReceiveOther, AckInv
<1>6. CASE Tick
  <2>1. now <= now' /\ UNCHANGED <<denyUntil, replies, result, caller, applied>>
    BY <1>6 DEF Tick, TypeOK
  <2>2. QED
    BY <2>1, AckKept
<1>7. CASE EndSession
  <2>1. CloseConnection /\ UNCHANGED <<now, denyUntil, result, caller>>
    BY <1>7 DEF EndSession
  <2>2. QED
    BY <1>n, <2>1, AckClosed, AckKept
<1>8. ASSUME NEW c \in Ids, SkipSent(c) \/ WriteCommand(c)
      PROVE  AckInv'
  BY <1>8 DEF SkipSent, WriteCommand, AckInv
<1>9. ASSUME NEW c \in Ids, ExpireCommand(c)
      PROVE  AckInv'
  <2>1. PICK o \in PersistOutcomes(pending \ {c}) :
          /\ Completed(c, o, "error", "expired")
          /\ IF o.ok THEN UNCHANGED <<replies, applied>> ELSE CloseConnection
    BY <1>9, ExpireEffect
  <2>2. "expired" \in Outcomes
    BY DEF Outcomes
  <2>3. UNCHANGED <<now, denyUntil, caller>>
          /\ result' \in {result, [result EXCEPT ![c] = "error"]}
    BY <2>1, <2>2, CompletedEffect
  <2>4. \A x \in Ids : result'[x] = "ack" => result[x] = "ack"
    BY <2>3 DEF TypeOK
  <2>5. QED
    BY <1>n, <2>1, <2>3, <2>4, AckClosed, AckKept
<1>10. ASSUME NEW c \in Ids, NEW k \in {"ack", "error"}, ReceiveReply(c, k)
       PROVE  AckInv'
  <2>1. PICK o \in PersistOutcomes(pending \ {c}), why \in Outcomes :
          /\ Completed(c, o, k, why)
          /\ IF o.ok
             THEN /\ replies' = [replies EXCEPT ![Reply(c, k)] = @ - 1]
                  /\ UNCHANGED applied
             ELSE CloseConnection
    BY <1>10, ReceiveReplyEffect
  <2>2. UNCHANGED <<now, denyUntil, caller>>
          /\ result' \in {result, [result EXCEPT ![c] = k]}
    BY <2>1, CompletedEffect
  <2>3. replies[Reply(c, k)] > 0 /\ k \in ReplyKinds
    BY <1>10, ReceiveReplyEffect DEF ReplyKinds
  <2>4. \A x \in Ids : result'[x] = "ack" =>
                         result[x] = "ack" \/ replies[Reply(x, "ack")] > 0
    BY <2>2, <2>3 DEF TypeOK
  <2>5. applied \subseteq applied'
    BY <2>1, AckClosed
  <2>6. \A x \in Ids : replies'[Reply(x, "ack")] > 0 => replies[Reply(x, "ack")] > 0
    <3>1. CASE o.ok
      <4>1. \A x \in Ids : Reply(x, "ack") \in Replies /\ replies[Reply(x, "ack")] \in Nat
        BY OutstandingNat, ReplyType DEF ReplyKinds
      <4>2. QED
        BY <2>1, <3>1, <4>1 DEF TypeOK
    <3>2. QED
      BY <2>1, <3>1, AckClosed
  <2>7. QED
    BY <1>n, <2>2, <2>4, <2>5, <2>6, AckKept
<1>11. ASSUME NEW c \in Ids, NEW k \in ReplyKinds, ReceiveUnexpected(c, k)
       PROVE  AckInv'
  <2>1. CloseConnection /\ UNCHANGED <<now, denyUntil, result, caller>>
    BY <1>11 DEF ReceiveUnexpected
  <2>2. QED
    BY <1>n, <2>1, AckClosed, AckKept
<1>12. ASSUME NEW c \in Ids, RelayAck(c)
       PROVE  AckInv'
  <2>1. UNCHANGED <<now, denyUntil, result, caller>> /\ applied \subseteq applied'
          /\ replies' = [replies EXCEPT ![Reply(c, "ack")] = @ + 1]
    BY <1>12 DEF RelayAck, Answer
  <2>2. c \in applied' \/ denyUntil[c] <= now
    BY <1>12 DEF RelayAck, TypeOK
  <2>3. \A x \in Ids : x # c => replies'[Reply(x, "ack")] = replies[Reply(x, "ack")]
    BY <2>1, ReplyType, ReplyInjective DEF ReplyKinds, TypeOK
  <2>4. QED
    BY <2>1, <2>2, <2>3 DEF AckInv
<1>13. ASSUME NEW c \in Ids, RelayAckOther(c) \/ RelayReject(c)
       PROVE  AckInv'
  <2>1. UNCHANGED <<now, denyUntil, result, caller, applied>>
          /\ \E k \in {"ackOther", "error"} :
               replies' = [replies EXCEPT ![Reply(c, k)] = @ + 1]
    BY <1>13 DEF RelayAckOther, RelayReject, Answer
  <2>2. \A x \in Ids : replies'[Reply(x, "ack")] = replies[Reply(x, "ack")]
    BY <2>1, ReplyType, ReplyInjective DEF ReplyKinds, TypeOK
  <2>3. QED
    BY <2>1, <2>2 DEF AckInv
<1>14. CASE Crash
  <2>1. /\ CloseConnection /\ UNCHANGED <<now, denyUntil>>
        /\ \A c \in Ids : result'[c] # "ack" /\ (caller'[c] = "ok" => caller[c] = "ok")
    BY <1>14 DEF Crash
  <2>2. QED
    BY <1>n, <2>1, AckClosed, AckKept
<1>15. CASE Start
  BY <1>15 DEF Start, AckInv
<1>16. QED
  BY <1>1, <1>2, <1>3, <1>4, <1>5, <1>6, <1>7, <1>8, <1>9, <1>10, <1>11, <1>12,
     <1>13, <1>14, <1>15 DEF Next

-----------------------------------------------------------------------------
(***************************************************************************)
(* The limit on queued commands, in memory and on disk.                    *)
(***************************************************************************)
Small(S) == Cardinality(S) <= MaxPending

\* A part of what fits the limit fits it.
LEMMA SmallSubset ==
  ASSUME NEW S \in SUBSET Ids, NEW T \in SUBSET S, Small(S)
  PROVE  Small(T)
<1>1. IsFiniteSet(S)
  BY OutboxAssumption, FS_Subset
<1>2. Cardinality(T) <= Cardinality(S) /\ IsFiniteSet(T)
  BY <1>1, FS_Subset
<1>3. Cardinality(T) \in Nat /\ Cardinality(S) \in Nat
  BY <1>1, <1>2, FS_CardinalityType
<1>4. QED
  BY <1>2, <1>3, OutboxAssumption DEF Small

\* The test of enqueuePendingCommands is enough for the union.
LEMMA SmallUnion ==
  ASSUME TypeOK, NEW S \in SUBSET Ids, HasRoom(S)
  PROVE  Small(pending \cup S)
<1>1. IsFiniteSet(S) /\ IsFiniteSet(pending)
  BY OutboxAssumption, FS_Subset DEF TypeOK
<1>2. IsFiniteSet(pending \cup S) /\ IsFiniteSet(pending \cap S)
        /\ Cardinality(pending \cup S) =
             Cardinality(pending) + Cardinality(S) - Cardinality(pending \cap S)
  <2>1. IsFiniteSet(pending \cap S)
    BY <1>1, FS_Subset
  <2>2. QED
    BY <1>1, <2>1, FS_Union
<1>3. Cardinality(pending \cap S) \in Nat /\ Cardinality(pending) \in Nat
        /\ Cardinality(S) \in Nat
  BY <1>1, <1>2, FS_CardinalityType
<1>4. QED
  BY <1>2, <1>3, OutboxAssumption DEF Small, HasRoom

\* Queueing keeps the limit, in the copies a failed write leaves behind too.
LEMMA CapacityEnqueue ==
  ASSUME TypeOK, StoreLoadable, NEW S \in SUBSET Ids, NEW s, enqueuePendingCommands(S, s)
  PROVE  StoreLoadable'
<1>1. Small(pending) /\ Small(store) /\ Small(stable)
  BY DEF StoreLoadable, Small
<1>2. Small({})
  BY <1>1, SmallSubset DEF TypeOK
<1>3. \/ HasRoom(S)
      \/ pending' = pending /\ store' = store /\ stable' = stable
  BY EnqueueEffect
<1>4. CASE HasRoom(S)
  <2>1. Small(pending \cup S)
    BY <1>4, SmallUnion
  <2>2. /\ pending' \in {pending, pending \cup S}
        /\ store' \in {pending \cup S, store, {}}
        /\ stable' \in {pending \cup S, stable, {}}
    BY EnqueueEffect
  <2>3. Small(pending') /\ Small(store') /\ Small(stable')
    BY <1>1, <1>2, <2>1, <2>2
  <2>4. QED
    BY <2>3 DEF StoreLoadable, Small
<1>5. QED
  BY <1>3, <1>4 DEF StoreLoadable

\* Completing a command keeps the limit.
LEMMA CapacityCompleted ==
  ASSUME TypeOK, StoreLoadable, NEW c \in Ids, NEW o \in PersistOutcomes(pending \ {c}),
         NEW r \in {"ack", "error"}, NEW why \in Outcomes, Completed(c, o, r, why)
  PROVE  StoreLoadable'
<1>1. Small(pending) /\ Small(store) /\ Small(stable)
  BY DEF StoreLoadable, Small
<1>2. Small({}) /\ Small(pending \ {c})
  BY <1>1, SmallSubset DEF TypeOK
<1>3. /\ pending' \in {pending, pending \ {c}}
      /\ store' \in {pending \ {c}, store, {}}
      /\ stable' \in {pending \ {c}, stable, {}}
  BY CompletedEffect
<1>4. Small(pending') /\ Small(store') /\ Small(stable')
  BY <1>1, <1>2, <1>3
<1>5. QED
  BY <1>4 DEF StoreLoadable, Small

\* Every step keeps the limit in memory, in the file and in stable storage.
LEMMA CapacityStep == TypeOK /\ StoreLoadable /\ [Next]_vars => StoreLoadable'
<1> SUFFICES ASSUME TypeOK, StoreLoadable, [Next]_vars PROVE StoreLoadable'
  OBVIOUS
<1>1. CASE UNCHANGED vars
  BY <1>1 DEF vars, StoreLoadable
<1>2. ASSUME NEW c \in Fresh, NEW d \in now + 1 .. now + DenyWindow, Revoke(c, d)
      PROVE  StoreLoadable'
  <2>1. {c} \in SUBSET Ids
    BY DEF Fresh
  <2>2. QED
    BY <1>2, <2>1, CapacityEnqueue DEF Revoke
<1>3. ASSUME NEW S \in SUBSET Fresh, QueueBatch(S)
      PROVE  StoreLoadable'
  <2>1. S \in SUBSET Ids
    BY DEF Fresh
  <2>2. QED
    BY <1>3, <2>1, CapacityEnqueue DEF QueueBatch
<1>4. ASSUME NEW c \in Ids, ExpireCommand(c)
      PROVE  StoreLoadable'
  <2>1. "expired" \in Outcomes
    BY DEF Outcomes
  <2>2. QED
    BY <1>4, <2>1, ExpireEffect, CapacityCompleted
<1>5. ASSUME NEW c \in Ids, NEW k \in {"ack", "error"}, ReceiveReply(c, k)
      PROVE  StoreLoadable'
  BY <1>5, ReceiveReplyEffect, CapacityCompleted
<1>6. CASE Crash
  <2>1. Small({})
    BY SmallSubset DEF StoreLoadable, Small, TypeOK
  <2>2. QED
    BY <1>6, <2>1 DEF Crash, StoreLoadable, Small
<1>7. CASE Start
  <2>1. PICK o \in LoadOutcomes : Commit(o) /\ pending' = IF o.ok THEN Live ELSE {}
    BY <1>7 DEF Start
  <2>2. Small(store) /\ Small(stable) /\ Live \in SUBSET store
    BY DEF StoreLoadable, Small, Live
  <2>3. Small(Live) /\ Small({})
    BY <2>2, SmallSubset DEF TypeOK
  <2>4. /\ pending' \in {Live, {}} /\ store' \in {Live, store, {}}
        /\ stable' \in {Live, stable, {}}
    BY <2>1, LoadShape DEF Commit
  <2>5. Small(pending') /\ Small(store') /\ Small(stable')
    BY <2>2, <2>3, <2>4
  <2>6. QED
    BY <2>5 DEF StoreLoadable, Small
<1>8. ASSUME UNCHANGED <<pending, store, stable>> PROVE StoreLoadable'
  BY <1>8 DEF StoreLoadable
<1>9. ASSUME NEW c \in Ids,
             \/ TakeResult(c) \/ WaitDeadline(c) \/ WaitCanceled(c)
             \/ SkipSent(c) \/ WriteCommand(c)
             \/ RelayAck(c) \/ RelayAckOther(c) \/ RelayReject(c)
             \/ \E k \in ReplyKinds : ReceiveUnexpected(c, k)
      PROVE  StoreLoadable'
  BY <1>8, <1>9 DEF TakeResult, WaitDeadline, WaitCanceled, StopWaiting, SkipSent,
     WriteCommand, RelayAck, RelayAckOther, RelayReject, ReceiveUnexpected
<1>10. CASE Dial \/ HelloAck \/ EndSession \/ BeginSend \/ ReceiveNotify
            \/ ReceiveOther \/ Tick
  BY <1>8, <1>10 DEF Dial, HelloAck, EndSession, BeginSend, ReceiveNotify,
     ReceiveOther, Tick
<1>11. QED
  BY <1>1, <1>2, <1>3, <1>4, <1>5, <1>6, <1>7, <1>9, <1>10 DEF Next

-----------------------------------------------------------------------------
(***************************************************************************)
(* Durability, for every build but Windows.                                *)
(***************************************************************************)

\* Queueing a batch loses no command accepted before it, failed or not.
LEMMA DurableEnqueue ==
  ASSUME ~Windows, TypeOK, AcceptedIsDurable, up, NEW S \in SUBSET Fresh, NEW s,
         enqueuePendingCommands(S, s), UNCHANGED <<up, outcome>>
  PROVE  AcceptedIsDurable'
<1>1. S \in SUBSET Ids
  BY DEF Fresh
<1>2. CASE /\ pending' = pending \cup S
           /\ store' = pending \cup S /\ stable' = pending \cup S
           /\ SetCaller(S, s)
  BY <1>1, <1>2 DEF AcceptedIsDurable, Unresolved, Accepted, SetCaller
<1>3. CASE /\ pending' = pending /\ SetCaller(S, "refused")
           /\ store' \in {pending \cup S, store}
           /\ stable' \in {pending \cup S, stable}
  BY <1>1, <1>3 DEF AcceptedIsDurable, Unresolved, Accepted, SetCaller
<1>4. QED
  BY <1>1, <1>2, <1>3, EnqueueEffect

\* Completing one command loses no other.
LEMMA DurableCompleted ==
  ASSUME ~Windows, TypeOK, AcceptedIsDurable, NEW c \in Ids,
         \A x \in Ids : Unresolved(x) => x \in pending,
         NEW o \in PersistOutcomes(pending \ {c}), NEW r \in {"ack", "error"},
         NEW why \in Outcomes, why # "none", Completed(c, o, r, why)
  PROVE  AcceptedIsDurable'
<1>1. /\ pending \ {c} \subseteq pending'
      /\ store' \in {pending \ {c}, store} /\ stable' \in {pending \ {c}, stable}
      /\ caller' = caller
  BY CompletedEffect
<1>2. outcome'[c] # "none" /\ \A x \in Ids : x # c => outcome'[x] = outcome[x]
  BY CompletedEffect DEF TypeOK
<1>3. QED
  BY <1>1, <1>2 DEF AcceptedIsDurable, Unresolved, Accepted

\* Every step keeps accepted commands durable, if persist never removes the file.
LEMMA DurableStep ==
  ASSUME ~Windows
  PROVE  TypeOK /\ ProcessInv /\ AcceptedIsDurable /\ [Next]_vars => AcceptedIsDurable'
<1> SUFFICES ASSUME TypeOK, ProcessInv, AcceptedIsDurable, [Next]_vars
             PROVE  AcceptedIsDurable'
  OBVIOUS
<1>0. ASSUME UNCHANGED <<up, pending, store, stable, outcome, caller>>
      PROVE  AcceptedIsDurable'
  BY <1>0 DEF AcceptedIsDurable, Unresolved, Accepted
<1>1. CASE UNCHANGED vars
  BY <1>0, <1>1 DEF vars
<1>2. ASSUME NEW c \in Fresh, NEW d \in now + 1 .. now + DenyWindow, Revoke(c, d)
      PROVE  AcceptedIsDurable'
  <2>1. {c} \in SUBSET Fresh
    OBVIOUS
  <2>2. QED
    BY <1>2, <2>1, DurableEnqueue DEF Revoke, newPendingRevocation
<1>3. ASSUME NEW S \in SUBSET Fresh, QueueBatch(S)
      PROVE  AcceptedIsDurable'
  BY <1>3, DurableEnqueue DEF QueueBatch, newPendingRevocation
<1>4. ASSUME NEW c \in Ids, TakeResult(c) \/ WaitDeadline(c) \/ WaitCanceled(c)
      PROVE  AcceptedIsDurable'
  <2>1. caller[c] = "waiting" /\ UNCHANGED <<up, pending, store, stable, outcome>>
          /\ \A x \in Ids : x # c => caller'[x] = caller[x]
    BY <1>4 DEF TakeResult, WaitDeadline, WaitCanceled, StopWaiting, SetCaller
  <2>2. QED
    BY <2>1 DEF AcceptedIsDurable, Unresolved, Accepted
<1>5. CASE Dial \/ HelloAck \/ EndSession \/ BeginSend \/ ReceiveNotify
           \/ ReceiveOther \/ Tick
  BY <1>0, <1>5 DEF Dial, HelloAck, EndSession, BeginSend, ReceiveNotify,
     ReceiveOther, Tick
<1>6. ASSUME NEW c \in Ids,
             \/ SkipSent(c) \/ WriteCommand(c)
             \/ RelayAck(c) \/ RelayAckOther(c) \/ RelayReject(c)
             \/ \E k \in ReplyKinds : ReceiveUnexpected(c, k)
      PROVE  AcceptedIsDurable'
  BY <1>0, <1>6 DEF SkipSent, WriteCommand, RelayAck, RelayAckOther, RelayReject,
     ReceiveUnexpected
<1>7. ASSUME NEW c \in Ids, ExpireCommand(c)
      PROVE  AcceptedIsDurable'
  <2>1. up /\ "expired" \in Outcomes
    BY <1>7, ExpireEffect DEF ProcessInv, Outcomes
  <2>2. \A x \in Ids : Unresolved(x) => x \in pending
    BY <2>1 DEF AcceptedIsDurable
  <2>3. QED
    BY <1>7, <2>1, <2>2, ExpireEffect, DurableCompleted
<1>8. ASSUME NEW c \in Ids, NEW k \in {"ack", "error"}, ReceiveReply(c, k)
      PROVE  AcceptedIsDurable'
  <2>1. up
    BY <1>8, ReceiveReplyEffect DEF ProcessInv
  <2>2. \A x \in Ids : Unresolved(x) => x \in pending
    BY <2>1 DEF AcceptedIsDurable
  <2>3. QED
    BY <1>8, <2>2, ReceiveReplyEffect, DurableCompleted
<1>9. CASE Crash
  <2>1. ~up' /\ store' \in {store, stable} /\ UNCHANGED <<stable, outcome>>
          /\ \A c \in Ids : caller'[c] = caller[c] \/ caller[c] = "waiting"
    BY <1>9 DEF Crash
  <2>2. QED
    BY <2>1 DEF AcceptedIsDurable, Unresolved, Accepted
<1>10. CASE Start
  <2>1. PICK o \in LoadOutcomes : /\ Commit(o) /\ up' = o.ok
                                  /\ pending' = IF o.ok THEN Live ELSE {}
    BY <1>10 DEF Start
  <2>2. /\ store' \in {Live, store} /\ stable' \in {Live, stable}
        /\ up' => pending' = Live
    BY <2>1, LoadShape DEF Commit
  <2>3. /\ caller' = caller
        /\ \A c \in Ids : outcome'[c] = IF c \in store \ Live THEN "expired"
                                        ELSE outcome[c]
    BY <1>10 DEF Start
  <2>4. QED
    BY <2>2, <2>3 DEF AcceptedIsDurable, Unresolved, Accepted
<1>11. QED
  BY <1>1, <1>2, <1>3, <1>4, <1>5, <1>6, <1>7, <1>8, <1>9, <1>10 DEF Next

-----------------------------------------------------------------------------
(***************************************************************************)
(* The theorems.                                                           *)
(***************************************************************************)

\* The initial state satisfies the inductive invariant.
LEMMA IInvInit == Init => IInv
<1> SUFFICES ASSUME Init PROVE IInv
  OBVIOUS
<1>1. TypeOK
  BY TypeInit
<1>2. ProcessInv /\ WakeInv
  BY DEF Init, ProcessInv, WakeInv
<1>3. \A c \in Ids : Outstanding(c) = 0
  <2>1. \A c \in Ids : wire[c] = 0
    BY DEF Init
  <2>2. \A c \in Ids, k \in ReplyKinds : replies[Reply(c, k)] = 0
    BY ReplyType DEF Init
  <2>3. QED
    BY <2>1, <2>2 DEF Outstanding, ReplyKinds
<1>4. LinkInv
  BY <1>3 DEF LinkInv
<1>5. FinalInv
  BY DEF Init, FinalInv, FreshInv, CompletedIsFinal
<1>6. AckInv
  <2>1. \A c \in Ids : replies[Reply(c, "ack")] = 0
    BY ReplyType DEF Init, ReplyKinds
  <2>2. QED
    BY <2>1 DEF Init, AckInv
<1>7. StoreLoadable
  BY FS_EmptySet, OutboxAssumption DEF Init, StoreLoadable
<1>8. QED
  BY <1>1, <1>2, <1>4, <1>5, <1>6, <1>7 DEF IInv

\* Every step preserves the inductive invariant.
LEMMA IInvStep == IInv /\ [Next]_vars => IInv'
BY TypeStep, ProcessStep, LinkStep, WakeStep, FinalStep, AckStep, CapacityStep DEF IInv

\* The inductive invariant holds in every reachable state.
THEOREM Invariance == Spec => []IInv
BY IInvInit, IInvStep, PTL DEF Spec

\* A command whose caller has its result can be sent by no later session and no
\* restart: completePendingCommand tells the caller only after the store is
\* rewritten, and a failed rewrite tells nobody.
THEOREM CompletedIsFinalHolds == Spec => []CompletedIsFinal
<1>1. IInv => CompletedIsFinal
  BY DEF IInv, FinalInv
<1>2. QED
  BY Invariance, <1>1, PTL

\* The one-token commandNotify channel never loses a wake-up of the session.
THEOREM NoLostWakeupHolds == Spec => []NoLostWakeup
<1>1. IInv => NoLostWakeup
  BY DEF IInv, WakeInv, NoLostWakeup, InSelect
<1>2. QED
  BY Invariance, <1>1, PTL

\* Replies of a Relay that answers what it was sent find their command pending,
\* so handleSessionMessage does not end the session over them.
THEOREM RepliesMatchPendingHolds == Spec => []RepliesMatchPending
<1>1. IInv => RepliesMatchPending
  BY OutstandingNat DEF IInv, LinkInv, RepliesMatchPending
<1>2. QED
  BY Invariance, <1>1, PTL

\* sentCommands keeps sendPendingCommands from writing a command twice on one
\* connection, however often the loop runs.
THEOREM WrittenOnceHolds == Spec => []WrittenOncePerConnection
<1>1. IInv => WrittenOncePerConnection
  BY DEF IInv, LinkInv, WrittenOncePerConnection
<1>2. QED
  BY Invariance, <1>1, PTL

\* A 200 of handleServiceAdmissionRevocation means that the Relay applied the
\* revocation or that its deadline has passed.
THEOREM OkMeansAppliedHolds == Spec => []OkMeansApplied
<1>1. IInv => OkMeansApplied
  BY DEF IInv, AckInv, OkMeansApplied
<1>2. QED
  BY Invariance, <1>1, PTL

\* The limit checked by enqueuePendingCommands bounds the store file too, so
\* openPrivateControlCommandStore never refuses what the process itself wrote.
THEOREM StoreLoadableHolds == Spec => []StoreLoadable
<1>1. IInv => StoreLoadable
  BY DEF IInv
<1>2. QED
  BY Invariance, <1>1, PTL

\* What is under way on a connection is queued, so it fits the limit of the
\* queue: sendPendingCommands never has more written than MaxPending.
THEOREM InFlightBoundedHolds == Spec => []InFlightBounded
<1>1. IInv => InFlightBounded
  <2>1. SUFFICES ASSUME IInv PROVE InFlightBounded
    OBVIOUS
  <2>2. {c \in Ids : Outstanding(c) > 0} \in SUBSET pending
    BY <2>1 DEF IInv, LinkInv
  <2>3. pending \in SUBSET Ids /\ Small(pending)
    BY <2>1 DEF IInv, TypeOK, StoreLoadable, Small
  <2>4. QED
    BY <2>2, <2>3, SmallSubset DEF Small, InFlightBounded
<1>2. QED
  BY Invariance, <1>1, PTL

\* Except on Windows, an accepted revocation stays in the store file, power loss
\* included, until the Relay answers it or its deadline passes.
THEOREM AcceptedIsDurableHolds ==
  ASSUME ~Windows
  PROVE  Spec => []AcceptedIsDurable
<1>1. Init => AcceptedIsDurable
  BY DEF Init, AcceptedIsDurable, Unresolved, Accepted
<1>2. IInv /\ AcceptedIsDurable /\ [Next]_vars => AcceptedIsDurable'
  BY DurableStep DEF IInv
<1>3. QED
  BY Invariance, <1>1, <1>2, PTL DEF Spec
=============================================================================
