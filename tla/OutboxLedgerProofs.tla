------------------------- MODULE OutboxLedgerProofs -------------------------
(***************************************************************************)
(* The proof that CommandOutbox implements RevocationLedger, except on     *)
(* Windows, for every set of IDs, every limit and every bound.             *)
(***************************************************************************)
EXTENDS OutboxLedger, CommandOutboxProofs

USE DEF clockVars, memoryVars, sessionVars, linkVars, callerVars, diskVars,
        historyVars

Open == pending \cup store \cup stable

-----------------------------------------------------------------------------
(***************************************************************************)
(* What a caller will read from its result channel is how the command was  *)
(* given up.                                                               *)
(***************************************************************************)
ResultInv ==
  \A c \in Ids : /\ result[c] = "ack" => outcome[c] = "acked"
                 /\ result[c] = "error" => outcome[c] \in {"rejected", "expired"}

\* completePendingCommand delivers the result it also gives the command up with;
\* a command that has a result already is not queued any more.
LEMMA ResultCompleted ==
  ASSUME TypeOK, FinalInv, ResultInv, NEW c \in pending,
         NEW o \in PersistOutcomes(pending \ {c}),
         NEW r \in {"ack", "error"}, NEW why \in Outcomes, Completed(c, o, r, why),
         r = "ack" => why = "acked", r = "error" => why \in {"rejected", "expired"}
  PROVE  ResultInv'
<1>1. c \in Ids
  BY DEF TypeOK
<1>2. result[c] = "none"
  BY <1>1 DEF FinalInv, CompletedIsFinal
<1>3. /\ outcome' = [outcome EXCEPT ![c] = why]
      /\ result' \in {result, [result EXCEPT ![c] = r]}
  BY <1>1, CompletedEffect
<1>4. QED
  BY <1>1, <1>2, <1>3 DEF ResultInv, TypeOK

\* Every step keeps results and outcomes together.
LEMMA ResultStep ==
  TypeOK /\ ProcessInv /\ FinalInv /\ ResultInv /\ [Next]_vars => ResultInv'
<1> SUFFICES ASSUME TypeOK, ProcessInv, FinalInv, ResultInv, [Next]_vars
             PROVE  ResultInv'
  OBVIOUS
<1>1. CASE UNCHANGED <<result, outcome>>
  BY <1>1 DEF ResultInv
<1>2. CASE \E c \in Ids : ExpireCommand(c)
  <2>1. PICK c \in Ids : ExpireCommand(c)
    BY <1>2
  <2>2. c \in pending
    BY <2>1 DEF ExpireCommand, ProcessInv
  <2>3. QED
    BY <2>1, <2>2, ResultCompleted DEF ExpireCommand, Outcomes
<1>3. CASE \E c \in Ids, k \in {"ack", "error"} : ReceiveReply(c, k)
  <2>1. PICK c \in Ids, k \in {"ack", "error"} : ReceiveReply(c, k)
    BY <1>3
  <2>2. c \in pending
    BY <2>1 DEF ReceiveReply
  <2>3. PICK o \in PersistOutcomes(pending \ {c}) :
          IF k = "ack" THEN Completed(c, o, "ack", "acked")
                       ELSE Completed(c, o, "error", "rejected")
    BY <2>1 DEF ReceiveReply
  <2>4. CASE k = "ack"
    BY <2>2, <2>3, <2>4, ResultCompleted DEF Outcomes
  <2>5. CASE k = "error"
    BY <2>2, <2>3, <2>5, ResultCompleted DEF Outcomes
  <2>6. QED
    BY <2>4, <2>5
<1>4. CASE Crash
  BY <1>4 DEF Crash, ResultInv
<1>5. CASE Start
  <2>1. /\ result' = result
        /\ \A c \in Ids : outcome'[c] = IF c \in store \ Live THEN "expired"
                                        ELSE outcome[c]
    BY <1>5 DEF Start
  <2>2. QED
    BY <2>1 DEF ResultInv, FinalInv, CompletedIsFinal
<1>6. CASE \E c \in Fresh, d \in now + 1 .. now + DenyWindow : Revoke(c, d)
  BY <1>1, <1>6 DEF Revoke
<1>7. CASE \E S \in SUBSET Fresh : QueueBatch(S)
  BY <1>1, <1>7 DEF QueueBatch
<1>8. CASE \E c \in Ids : TakeResult(c) \/ WaitDeadline(c) \/ WaitCanceled(c)
  BY <1>1, <1>8 DEF TakeResult, WaitDeadline, WaitCanceled, StopWaiting
<1>9. CASE Dial \/ HelloAck \/ EndSession \/ BeginSend
  BY <1>1, <1>9 DEF Dial, HelloAck, EndSession, BeginSend
<1>10. CASE \E c \in Ids : SkipSent(c) \/ WriteCommand(c)
  BY <1>1, <1>10 DEF SkipSent, WriteCommand
<1>11. CASE ReceiveNotify \/ ReceiveOther
  BY <1>1, <1>11 DEF ReceiveNotify, ReceiveOther
<1>12. CASE \E c \in Ids, k \in ReplyKinds : ReceiveUnexpected(c, k)
  BY <1>1, <1>12 DEF ReceiveUnexpected
<1>13. CASE \E c \in Ids : RelayAck(c) \/ RelayAckOther(c) \/ RelayReject(c)
  BY <1>1, <1>13 DEF RelayAck, RelayAckOther, RelayReject
<1>14. CASE Tick \/ UNCHANGED vars
  BY <1>1, <1>14 DEF Tick, vars
<1>15. QED
  BY <1>2, <1>3, <1>4, <1>5, <1>6, <1>7, <1>8, <1>9, <1>10, <1>11, <1>12, <1>13,
     <1>14 DEF Next
-----------------------------------------------------------------------------
(***************************************************************************)
(* The simulation.                                                         *)
(***************************************************************************)

\* A command that a running process has on disk only was refused or given up:
\* dropping it from the disk takes nothing from anyone.
LEMMA OnDiskOnly ==
  ASSUME TypeOK, FinalInv, AcceptedIsDurable, up, NEW c \in Ids,
         c \in Open, c \notin pending
  PROVE  caller[c] = "refused" \/ outcome[c] # "none"
BY DEF FinalInv, FreshInv, AcceptedIsDurable, Unresolved, Accepted, Open

\* Queueing is a submission, accepted or refused.
LEMMA EnqueueSubmits ==
  ASSUME ~Windows, TypeOK, FinalInv, AcceptedIsDurable, up,
         NEW S \in SUBSET Fresh, S # {}, NEW s \in {"waiting", "queued"},
         enqueuePendingCommands(S, s), outcome' = outcome
  PROVE  Ledger!Submit(S, s) \/ Ledger!Submit(S, "refused")
<1>1. S \in SUBSET Ids /\ \A c \in S : caller[c] = "unused"
  BY DEF Fresh
<1>2. CASE /\ pending' = pending \cup S /\ store' = pending \cup S
           /\ stable' = pending \cup S /\ SetCaller(S, s)
  <2>1. Ledger!Told(S, s)
    BY <1>2 DEF Ledger!Told, SetCaller
  <2>2. Ledger!Releases(Open')
    BY <1>2, OnDiskOnly DEF Ledger!Releases, Open
  <2>3. Open' \subseteq Open \cup S /\ S \subseteq Open'
    BY <1>2 DEF Open
  <2>4. QED
    BY <1>1, <2>1, <2>2, <2>3 DEF Ledger!Submit, Open
<1>3. CASE /\ pending' = pending /\ SetCaller(S, "refused")
           /\ store' \in {pending \cup S, store}
           /\ stable' \in {pending \cup S, stable}
  <2>1. Ledger!Told(S, "refused")
    BY <1>3 DEF Ledger!Told, SetCaller
  <2>2. Ledger!Releases(Open')
    BY <1>3, OnDiskOnly DEF Ledger!Releases, Open
  <2>3. Open' \subseteq Open \cup S
    BY <1>3 DEF Open
  <2>4. QED
    BY <1>1, <2>1, <2>2, <2>3 DEF Ledger!Submit, Open
<1>4. QED
  BY <1>1, <1>2, <1>3, EnqueueEffect

\* Completing a command, whether the write succeeds or not, is work on an open
\* command.
LEMMA CompletedWorks ==
  ASSUME ~Windows, TypeOK, FinalInv, AcceptedIsDurable, up, NEW c \in pending,
         NEW o \in PersistOutcomes(pending \ {c}), NEW r \in {"ack", "error"},
         NEW why \in Outcomes \ {"none"}, Completed(c, o, r, why)
  PROVE  Ledger!Work
<1>1. c \in Ids
  BY DEF TypeOK
<1>2. /\ caller' = caller
      /\ outcome' = [outcome EXCEPT ![c] = why]
      /\ pending' \in {pending, pending \ {c}}
      /\ store' \in {pending \ {c}, store}
      /\ stable' \in {pending \ {c}, stable}
  <2>1. pending \ {c} \in SUBSET Ids
    BY DEF TypeOK
  <2>2. /\ store' \in {pending \ {c}, store}
        /\ stable' \in {pending \ {c}, stable}
    BY <2>1, PersistShape DEF Completed, Commit
  <2>3. /\ caller' = caller
        /\ outcome' = [outcome EXCEPT ![c] = why]
        /\ pending' \in {pending, pending \ {c}}
    BY DEF Completed
  <2>4. QED
    BY <2>2, <2>3
<1>3. Open' \subseteq Open
  BY <1>2 DEF Open
<1>4. Ledger!Releases(Open')
  BY <1>1, <1>2, OnDiskOnly DEF Ledger!Releases, Open, TypeOK
<1>5. \A d \in Ids : outcome'[d] # outcome[d] => d \in Open /\ outcome'[d] # "none"
  BY <1>1, <1>2 DEF TypeOK, Open
<1>6. QED
  BY <1>2, <1>3, <1>4, <1>5 DEF Ledger!Work, Open

\* A crash leaves what the disk has; every command that was accepted and has no
\* verdict is there, power loss or not.
LEMMA CrashWorks ==
  ASSUME TypeOK, FinalInv, AcceptedIsDurable, Crash
  PROVE  Ledger!Work
<1>1. /\ pending' = {} /\ store' \in {store, stable} /\ stable' = stable
      /\ caller' = [c \in Ids |-> IF caller[c] = "waiting" THEN "gone" ELSE caller[c]]
      /\ outcome' = outcome
  BY DEF Crash
<1>2. Open' \subseteq Open
  BY <1>1 DEF Open
<1>3. Ledger!Releases(Open')
  BY <1>1 DEF Ledger!Releases, Open, FinalInv, FreshInv, AcceptedIsDurable,
              Unresolved, Accepted
<1>4. QED
  BY <1>1, <1>2, <1>3 DEF Ledger!Work, Open

\* A start drops expired commands only.
LEMMA StartWorks ==
  ASSUME ~Windows, TypeOK, ProcessInv, FinalInv, AcceptedIsDurable, Start
  PROVE  Ledger!Work
<1>1. pending = {}
  BY DEF Start, ProcessInv
<1>2. PICK o \in LoadOutcomes : Commit(o) /\ pending' = IF o.ok THEN Live ELSE {}
  BY DEF Start
<1>3. store' \in {Live, store} /\ stable' \in {Live, stable} /\ pending' \subseteq Live
  BY <1>2, LoadShape DEF Commit
<1>4. /\ caller' = caller
      /\ \A c \in Ids : outcome'[c] = IF c \in store \ Live THEN "expired"
                                      ELSE outcome[c]
  BY DEF Start
<1>5. Live \subseteq store
  BY DEF Live
<1>6. Open' \subseteq Open
  BY <1>3, <1>5 DEF Open
<1>7. Ledger!Releases(Open')
  BY <1>3, <1>4, <1>5 DEF Ledger!Releases, Open, FinalInv, FreshInv,
     AcceptedIsDurable, Unresolved, Accepted
<1>8. QED
  BY <1>4, <1>6, <1>7 DEF Ledger!Work, Open

\* Every step of the outbox is a step of the ledger, or changes nothing in it.
LEMMA LedgerStep ==
  ASSUME ~Windows, IInv, ResultInv, AcceptedIsDurable, [Next]_vars
  PROVE  [Ledger!Next]_(Ledger!vars)
<1> USE DEF IInv
<1>1. CASE UNCHANGED <<pending, store, stable, caller, outcome>>
  BY <1>1 DEF Ledger!vars
<1>2. CASE \E c \in Fresh, d \in now + 1 .. now + DenyWindow : Revoke(c, d)
  <2>1. PICK c \in Fresh : /\ up /\ enqueuePendingCommands({c}, "waiting")
                           /\ outcome' = outcome
    BY <1>2 DEF Revoke, newPendingRevocation
  <2>2. Ledger!Submit({c}, "waiting") \/ Ledger!Submit({c}, "refused")
    BY <2>1, EnqueueSubmits
  <2>3. {c} \in SUBSET Ids
    BY DEF Fresh
  <2>4. QED
    BY <2>2, <2>3 DEF Ledger!Next
<1>3. CASE \E S \in SUBSET Fresh : QueueBatch(S)
  <2>1. PICK S \in SUBSET Fresh : /\ up /\ S # {}
                                  /\ enqueuePendingCommands(S, "queued")
                                  /\ outcome' = outcome
    BY <1>3 DEF QueueBatch, newPendingRevocation
  <2>2. Ledger!Submit(S, "queued") \/ Ledger!Submit(S, "refused")
    BY <2>1, EnqueueSubmits
  <2>3. S \in SUBSET Ids
    BY DEF Fresh
  <2>4. QED
    BY <2>2, <2>3 DEF Ledger!Next
<1>4. CASE \E c \in Ids : TakeResult(c)
  <2>1. PICK c \in Ids : TakeResult(c)
    BY <1>4
  <2>2. c \notin Open
    BY <2>1 DEF TakeResult, FinalInv, CompletedIsFinal, Open
  <2>3. CASE result[c] = "ack"
    BY <2>1, <2>2, <2>3
    DEF TakeResult, SetCaller, ResultInv, Ledger!Next, Ledger!Answer, Ledger!Told, Open
  <2>4. CASE result[c] = "error"
    BY <2>1, <2>2, <2>4
    DEF TakeResult, SetCaller, ResultInv, Ledger!Next, Ledger!Answer, Ledger!Told, Open
  <2>5. QED
    BY <2>1, <2>3, <2>4 DEF TakeResult, TypeOK
<1>5. CASE \E c \in Ids : WaitDeadline(c) \/ WaitCanceled(c)
  <2>1. PICK c \in Ids, s \in {"accepted", "gone"} : StopWaiting(c, s)
    BY <1>5 DEF WaitDeadline, WaitCanceled
  <2>2. Ledger!Answer(c, s)
    BY <2>1 DEF StopWaiting, SetCaller, Ledger!Answer, Ledger!Told
  <2>3. QED
    BY <2>2 DEF Ledger!Next
<1>6. CASE \E c \in Ids : ExpireCommand(c)
  <2>1. PICK c \in Ids : ExpireCommand(c)
    BY <1>6
  <2>2. c \in pending /\ up
    BY <2>1 DEF ExpireCommand, ProcessInv
  <2>3. Ledger!Work
    BY <2>1, <2>2, CompletedWorks DEF ExpireCommand, Outcomes
  <2>4. QED
    BY <2>3 DEF Ledger!Next
<1>7. CASE \E c \in Ids, k \in {"ack", "error"} : ReceiveReply(c, k)
  <2>1. PICK c \in Ids, k \in {"ack", "error"} : ReceiveReply(c, k)
    BY <1>7
  <2>2. c \in pending /\ up
    BY <2>1 DEF ReceiveReply, ProcessInv
  <2>3. PICK o \in PersistOutcomes(pending \ {c}) :
          IF k = "ack" THEN Completed(c, o, "ack", "acked")
                       ELSE Completed(c, o, "error", "rejected")
    BY <2>1 DEF ReceiveReply
  <2>4. Ledger!Work
    BY <2>2, <2>3, CompletedWorks DEF Outcomes
  <2>5. QED
    BY <2>4 DEF Ledger!Next
<1>8. CASE Crash
  BY <1>8, CrashWorks DEF Ledger!Next
<1>9. CASE Start
  BY <1>9, StartWorks DEF Ledger!Next
<1>10. CASE Dial \/ HelloAck \/ EndSession \/ BeginSend
  BY <1>1, <1>10 DEF Dial, HelloAck, EndSession, BeginSend
<1>11. CASE \E c \in Ids : SkipSent(c) \/ WriteCommand(c)
  BY <1>1, <1>11 DEF SkipSent, WriteCommand
<1>12. CASE ReceiveNotify \/ ReceiveOther
  BY <1>1, <1>12 DEF ReceiveNotify, ReceiveOther
<1>13. CASE \E c \in Ids, k \in ReplyKinds : ReceiveUnexpected(c, k)
  BY <1>1, <1>13 DEF ReceiveUnexpected
<1>14. CASE \E c \in Ids : RelayAck(c) \/ RelayAckOther(c) \/ RelayReject(c)
  BY <1>1, <1>14 DEF RelayAck, RelayAckOther, RelayReject
<1>15. CASE Tick \/ UNCHANGED vars
  BY <1>1, <1>15 DEF Tick, vars
<1>16. QED
  BY <1>2, <1>3, <1>4, <1>5, <1>6, <1>7, <1>8, <1>9, <1>10, <1>11, <1>12, <1>13,
     <1>14, <1>15 DEF Next

\* Except on Windows, what enqueuePendingCommands, completePendingCommand, the
\* handler's wait, crashes and restarts do to a command and its caller is what
\* the ledger allows: accepted commands stay open until a verdict, answers are
\* final, nobody is answered twice.
THEOREM ImplementsLedgerHolds ==
  ASSUME ~Windows
  PROVE  Spec => ImplementsLedger
<1>1. Init => Ledger!Init
  BY DEF Init, Ledger!Init
<1>2. Init => ResultInv
  BY DEF Init, ResultInv
<1>3. IInv /\ ResultInv /\ [Next]_vars => ResultInv'
  BY ResultStep DEF IInv
<1>4. IInv /\ ResultInv /\ AcceptedIsDurable /\ [Next]_vars
        => [Ledger!Next]_(Ledger!vars)
  BY LedgerStep
<1>5. Spec => []AcceptedIsDurable
  BY AcceptedIsDurableHolds
<1>6. QED
  BY <1>1, <1>2, <1>3, <1>4, <1>5, Invariance, PTL
  DEF Spec, ImplementsLedger, Ledger!Spec
=============================================================================
