------------------------ MODULE RecordingJobsProofs ------------------------
(***************************************************************************)
(* Proofs about RecordingJobs, for any jobs, channels, limit and number of *)
(* faults.                                                                 *)
(***************************************************************************)
EXTENDS RecordingJobs, FiniteSetTheorems, TLAPS

Table == [Jobs -> [channel : Channels, state : JobStates \cup {"none"}]]

Listed == {j \in Jobs : Known(j)}

-----------------------------------------------------------------------------
(***************************************************************************)
(* Type correctness.                                                       *)
(***************************************************************************)

\* The parts of TypeOK that are not about the limit.
Types ==
  /\ jobs \in Table
  /\ stops \subseteq Jobs
  /\ connected \in BOOLEAN
  /\ wire \in Seq(JobEvents)
  /\ worker \in [Jobs -> JobStates \cup {"none"}]
  /\ missed \subseteq Jobs
  /\ faults \in Nat

Limit == Cardinality(Listed) <= MaxJobs

\* TypeOK is its two parts.
LEMMA TypeOKParts == TypeOK <=> Types /\ Limit
BY DEF TypeOK, Types, Limit, Listed, Known, Table

\* The record of a job that was never created has a channel.
LEMMA NoJobType == NoJob \in [channel : Channels, state : JobStates \cup {"none"}]
<1>1. (CHOOSE c \in Channels : TRUE) \in Channels
  BY JobsAssumption
<1>2. QED
  BY <1>1 DEF NoJob

\* A new state leaves the table well typed.
LEMMA SetStateType ==
  ASSUME Types, NEW j \in Jobs, NEW s \in JobStates, SetState(j, s)
  PROVE  /\ jobs' \in Table
         /\ jobs'[j].state = s /\ jobs'[j].channel = jobs[j].channel
         /\ \A k \in Jobs \ {j} : jobs'[k] = jobs[k]
BY DEF Types, Table, SetState

\* A stop leaves a state of a job, if the job was known.
LEMMA StopType ==
  ASSUME Types, NEW j \in Jobs, Known(j)
  PROVE  StateAfterStop(j) \in JobStates
BY DEF Types, Table, StateAfterStop, Known, JobStates, Final

\* The first event and the rest of the wire.
LEMMA WireType ==
  ASSUME Types, wire # <<>>
  PROVE  /\ Head(wire) \in JobEvents /\ Tail(wire) \in Seq(JobEvents)
         /\ 1 \in DOMAIN wire /\ wire[1] = Head(wire)
         /\ \A i \in DOMAIN Tail(wire) : /\ i + 1 \in DOMAIN wire
                                         /\ Tail(wire)[i] = wire[i + 1]
         /\ DOMAIN Tail(wire) \subseteq Nat \ {0}
BY DEF Types

\* Events name jobs.
LEMMA WireJob ==
  ASSUME Types, NEW i \in DOMAIN wire
  PROVE  wire[i] \in JobEvents /\ wire[i].job \in Jobs
<1>1. wire[i] \in JobEvents
  BY DEF Types
<1>2. QED
  BY <1>1 DEF JobEvents

\* A report is written, or the job has missed one.
LEMMA ReportType ==
  ASSUME Types, NEW e \in JobEvents, Report(e)
  PROVE  wire' \in Seq(JobEvents) /\ missed' \subseteq Jobs
<1>1. e.job \in Jobs
  BY DEF JobEvents
<1>2. CASE connected
  <2>1. wire' = Append(wire, e) /\ missed' = missed
    BY <1>2 DEF Report
  <2>2. Append(wire, e) \in Seq(JobEvents)
    BY DEF Types
  <2>3. QED
    BY <2>1, <2>2 DEF Types
<1>3. CASE ~connected
  BY <1>1, <1>3 DEF Report, Types
<1>4. QED
  BY <1>2, <1>3

\* An event that is applied sets the state and nothing else.
LEMMA AppliedEffect ==
  ASSUME Types, Receive, Matches(Head(wire))
  PROVE  LET e == Head(wire) IN
         e.job \in Jobs /\ e.state \in JobStates /\ SetState(e.job, e.state)
<1>1. Head(wire) \in JobEvents
  BY WireType DEF Receive
<1>2. QED
  BY <1>1 DEF Receive, applyLifecycleEvent, JobEvents
-----------------------------------------------------------------------------
(***************************************************************************)
(* The inductive invariant.                                                *)
(***************************************************************************)

\* Only jobs in the table are being stopped, and a job in the table has a worker.
TableInv ==
  /\ stops \subseteq Listed
  /\ \A j \in Listed : worker[j] # "none"

\* An event that applyLifecycleEvent will take for job j.
Genuine(i, j) == wire[i].job = j /\ wire[i].channel = jobs[j].channel

\* Events are about jobs whose ID was drawn; the event of a job's end is true,
\* and the last one of that job.
WireInv ==
  \A i \in DOMAIN wire :
    /\ Drawn(wire[i].job)
    /\ \A j \in Listed : Genuine(i, j) /\ wire[i].state \in Final =>
         /\ worker[j] = wire[i].state
         /\ \A k \in DOMAIN wire : k > i => ~Genuine(k, j)

\* The property, with the abbreviations of this module.
EndedInv ==
  \A j \in Listed : jobs[j].state \in Final =>
    /\ worker[j] = jobs[j].state
    /\ \A i \in DOMAIN wire : ~Genuine(i, j)

IInv == Types /\ TableInv /\ Limit /\ WireInv /\ EndedInv

\* A job keeps its place in the table, its channel and its worker.
LEMMA StopEffect ==
  ASSUME Types, TableInv, NEW j \in Jobs, stop(j)
  PROVE  /\ j \in Listed /\ StateAfterStop(j) \in JobStates
         /\ jobs' \in Table /\ Listed' = Listed
         /\ jobs'[j].state = StateAfterStop(j)
         /\ \A k \in Jobs : jobs'[k].channel = jobs[k].channel
         /\ \A k \in Jobs \ {j} : jobs'[k] = jobs[k]
<1>1. j \in Listed
  BY DEF stop, TableInv
<1>2. StateAfterStop(j) \in JobStates
  BY <1>1, StopType DEF Listed
<1>3. /\ jobs' \in Table
      /\ jobs'[j].state = StateAfterStop(j) /\ jobs'[j].channel = jobs[j].channel
      /\ \A k \in Jobs \ {j} : jobs'[k] = jobs[k]
  BY <1>2, SetStateType DEF stop
<1>4. "none" \notin JobStates
  BY DEF JobStates, Final
<1>5. Listed' = Listed
  BY <1>1, <1>2, <1>3, <1>4 DEF Listed, Known
<1>6. QED
  BY <1>1, <1>2, <1>3, <1>5

\* So it does when an event is received, applied or not.
LEMMA ReceiveEffect ==
  ASSUME Types, Receive
  PROVE  /\ jobs' \in Table /\ Listed' = Listed
         /\ \A k \in Jobs : jobs'[k].channel = jobs[k].channel
         /\ \A k \in Jobs :
              \/ jobs'[k] = jobs[k]
              \/ /\ k = Head(wire).job /\ Matches(Head(wire))
                 /\ jobs'[k].state = Head(wire).state
<1>1. CASE Matches(Head(wire))
  <2> DEFINE e == Head(wire)
  <2>1. e.job \in Jobs /\ e.state \in JobStates /\ SetState(e.job, e.state)
    BY <1>1, AppliedEffect
  <2>2. /\ jobs' \in Table
        /\ jobs'[e.job].state = e.state /\ jobs'[e.job].channel = jobs[e.job].channel
        /\ \A k \in Jobs \ {e.job} : jobs'[k] = jobs[k]
    BY <2>1, SetStateType
  <2>3. Listed' = Listed
    BY <1>1, <2>1, <2>2 DEF Listed, Known, Matches, JobStates, Final
  <2>4. QED
    BY <1>1, <2>1, <2>2, <2>3
<1>2. CASE ~Matches(Head(wire))
  BY <1>2 DEF Receive, applyLifecycleEvent, Types, Listed, Known
<1>3. QED
  BY <1>1, <1>2

\* A new job is in the table in its first state.
LEMMA CreateEffect ==
  ASSUME Types, NEW j \in Jobs, NEW c \in Channels, create(j, c)
  PROVE  /\ jobs' \in Table /\ Listed' = Listed \cup {j} /\ j \notin Listed
         /\ jobs'[j] = [channel |-> c, state |-> "starting"]
         /\ \A k \in Jobs \ {j} : jobs'[k] = jobs[k]
<1>1. /\ jobs' \in Table
      /\ jobs'[j] = [channel |-> c, state |-> "starting"]
      /\ \A k \in Jobs \ {j} : jobs'[k] = jobs[k]
  BY DEF create, Types, Table, JobStates
<1>2. j \notin Listed
  BY DEF create, Drawn, Listed
<1>3. QED
  BY <1>1, <1>2 DEF Listed, Known
-----------------------------------------------------------------------------
(***************************************************************************)
(* The steps.                                                              *)
(***************************************************************************)

\* A restart empties the table.
LEMMA RestartEffect ==
  ASSUME Restart
  PROVE  jobs' \in Table /\ Listed' = {} /\ wire' = <<>>
<1>1. jobs' = [j \in Jobs |-> NoJob] /\ wire' = <<>>
  BY DEF Restart
<1>2. NoJob.state = "none"
  BY DEF NoJob
<1>3. QED
  BY <1>1, <1>2, NoJobType DEF Table, Listed, Known

\* Types and the table.
LEMMA TypesStep == Types /\ TableInv /\ [Next]_vars => Types' /\ TableInv'
<1> SUFFICES ASSUME Types, TableInv, [Next]_vars PROVE Types' /\ TableInv'
  OBVIOUS
<1>1. ASSUME NEW j \in Jobs, NEW c \in Channels, handleRecordingJobStart(j, c)
      PROVE  Types' /\ TableInv'
  <2>1. create(j, c)
    BY <1>1 DEF handleRecordingJobStart
  <2>2. /\ worker' = [worker EXCEPT ![j] = "starting"]
        /\ UNCHANGED <<stops, connected, wire, missed, faults>>
    BY <2>1 DEF create
  <2>3. Types'
    BY <2>1, <2>2, CreateEffect DEF Types, JobStates
  <2>4. TableInv'
    BY <2>1, <2>2, CreateEffect DEF Types, TableInv, Listed
  <2>5. QED
    BY <2>3, <2>4
<1>2. ASSUME NEW j \in Jobs, CheckStop(j) PROVE Types' /\ TableInv'
  BY <1>2 DEF CheckStop, Types, TableInv, Listed, Known
<1>3. ASSUME NEW j \in Jobs, stop(j) PROVE Types' /\ TableInv'
  <2>1. /\ stops' = stops \ {j}
        /\ UNCHANGED <<connected, wire, worker, missed, faults>>
    BY <1>3 DEF stop
  <2>2. QED
    BY <1>3, <2>1, StopEffect DEF Types, TableInv
<1>4. ASSUME Receive PROVE Types' /\ TableInv'
  <2>1. wire # <<>> /\ wire' = Tail(wire) /\ UNCHANGED <<stops, connected, worker, missed, faults>>
    BY <1>4 DEF Receive
  <2>2. wire' \in Seq(JobEvents)
    BY <2>1, WireType
  <2>3. QED
    BY <1>4, <2>1, <2>2, ReceiveEffect DEF Types, TableInv
<1>5. ASSUME NEW j \in Jobs, NEW s \in JobStates, WorkerStep(j, s)
      PROVE  Types' /\ TableInv'
  <2>1. [job |-> j, channel |-> jobs[j].channel, state |-> s] \in JobEvents
    BY DEF Types, Table, JobEvents
  <2>2. /\ worker' = [worker EXCEPT ![j] = s]
        /\ UNCHANGED <<jobs, stops, connected, faults>>
    BY <1>5 DEF WorkerStep
  <2>3. wire' \in Seq(JobEvents) /\ missed' \subseteq Jobs
    BY <1>5, <2>1, ReportType DEF WorkerStep
  <2>4. "none" \notin JobStates
    BY DEF JobStates, Final
  <2>5. QED
    BY <2>2, <2>3, <2>4 DEF Types, TableInv, Listed, Known
<1>6. ASSUME NEW j \in Jobs, NEW c \in Channels, NEW s \in JobStates, Misdirect(j, c, s)
      PROVE  Types' /\ TableInv'
  <2>1. [job |-> j, channel |-> c, state |-> s] \in JobEvents
    BY DEF JobEvents
  <2>2. QED
    BY <1>6, <2>1 DEF Misdirect, Types, TableInv, Listed, Known
<1>7. ASSUME LoseConnection PROVE Types' /\ TableInv'
  <2>1. missed' \subseteq Jobs
    <3>1. \A i \in DOMAIN wire : wire[i].job \in Jobs
      BY WireJob
    <3>2. QED
      BY <1>7, <3>1 DEF LoseConnection, Types
  <2>2. wire' \in Seq(JobEvents)
    BY <1>7 DEF LoseConnection
  <2>3. connected' \in BOOLEAN
    BY <1>7 DEF LoseConnection
  <2>4. faults' \in Nat
    BY <1>7 DEF LoseConnection, Types
  <2>5. UNCHANGED <<jobs, stops, worker>>
    BY <1>7 DEF LoseConnection
  <2>6. QED
    BY <2>1, <2>2, <2>3, <2>4, <2>5 DEF Types, TableInv, Listed, Known
<1>8. ASSUME Connect PROVE Types' /\ TableInv'
  BY <1>8 DEF Connect, Types, TableInv, Listed, Known
<1>9. ASSUME Restart PROVE Types' /\ TableInv'
  <2>1. jobs' \in Table /\ Listed' = {} /\ wire' = <<>>
    BY <1>9, RestartEffect
  <2>2. /\ stops' = {} /\ connected' = FALSE /\ missed' = {} /\ faults' = faults + 1
        /\ worker' = worker
    BY <1>9 DEF Restart
  <2>3. wire' \in Seq(JobEvents)
    BY <2>1
  <2>4. connected' \in BOOLEAN
    BY <2>2
  <2>5. faults' \in Nat
    BY <2>2 DEF Types
  <2>6. stops' \subseteq Jobs /\ missed' \subseteq Jobs
    BY <2>2
  <2>7. QED
    BY <2>1, <2>2, <2>3, <2>4, <2>5, <2>6 DEF Types, TableInv
<1>10. ASSUME UNCHANGED vars PROVE Types' /\ TableInv'
  BY <1>10 DEF vars, Types, TableInv, Listed, Known
<1>11. QED
  BY <1>1, <1>2, <1>3, <1>4, <1>5, <1>6, <1>7, <1>8, <1>9, <1>10 DEF Next

\* The limit: create tests it in the critical section that adds the job.
LEMMA LimitStep == Types /\ TableInv /\ Limit /\ [Next]_vars => Limit'
<1> SUFFICES ASSUME Types, TableInv, Limit, [Next]_vars PROVE Limit'
  OBVIOUS
<1>1. CASE Listed' = Listed
  BY <1>1 DEF Limit
<1>2. ASSUME NEW j \in Jobs, NEW c \in Channels, handleRecordingJobStart(j, c)
      PROVE  Limit'
  <2>1. Listed' = Listed \cup {j} /\ j \notin Listed /\ HasRoom
    BY <1>2, CreateEffect DEF handleRecordingJobStart, create
  <2>2. IsFiniteSet(Listed)
    BY JobsAssumption, FS_Subset DEF Listed
  <2>3. Cardinality(Listed) \in Nat /\ Cardinality(Listed') = Cardinality(Listed) + 1
    BY <2>1, <2>2, FS_AddElement, FS_CardinalityType
  <2>4. QED
    BY <2>1, <2>3, JobsAssumption DEF HasRoom, Listed, Limit
<1>3. ASSUME Restart PROVE Limit'
  <2>1. Listed' = {}
    BY <1>3, RestartEffect
  <2>2. Cardinality(Listed') = 0
    BY <2>1, FS_EmptySet
  <2>3. QED
    BY <2>2, JobsAssumption DEF Limit
<1>4. ASSUME NEW j \in Jobs, stop(j) PROVE Limit'
  BY <1>1, <1>4, StopEffect
<1>5. ASSUME Receive PROVE Limit'
  BY <1>1, <1>5, ReceiveEffect
<1>6. CASE UNCHANGED jobs
  BY <1>1, <1>6 DEF Listed, Known
<1>7. QED
  BY <1>2, <1>3, <1>4, <1>5, <1>6
  DEF Next, CheckStop, WorkerStep, Misdirect, LoseConnection, Connect, vars

-----------------------------------------------------------------------------
(***************************************************************************)
(* Ends are true.                                                          *)
(***************************************************************************)

\* Nothing comes after the end of a worker.
LEMMA NoneAfterFinal == ASSUME NEW s \in Final PROVE After(s) = {}
BY DEF After, Final

\* The wire with one more event, at its new end n.
LEMMA WireAppended ==
  ASSUME Types, NEW e, wire' = Append(wire, e), NEW n, n = Len(wire) + 1
  PROVE  /\ \A i \in DOMAIN wire' : i \in DOMAIN wire \/ i = n
         /\ \A i \in DOMAIN wire : i \in DOMAIN wire' /\ wire'[i] = wire[i]
         /\ wire'[n] = e
         /\ \A i \in DOMAIN wire' : ~(i > n)
BY DEF Types

\* Events written by the Relay keep what is known of the wire: a worker that has
\* ended reports nothing more, and a misdirected event is not taken.
LEMMA EndedReport ==
  ASSUME Types, TableInv, WireInv, EndedInv, jobs' = jobs,
         NEW e \in JobEvents, wire' = Append(wire, e), Drawn(e.job)',
         \A j \in Jobs : Drawn(j) => Drawn(j)',
         \A j \in Jobs : worker[j] \in Final => worker'[j] = worker[j],
         e.channel = jobs[e.job].channel =>
           worker[e.job] \notin Final /\ worker'[e.job] = e.state
  PROVE  WireInv' /\ EndedInv'
<1> PICK n : n = Len(wire) + 1
  OBVIOUS
<1>1. Listed' = Listed /\ e.job \in Jobs
  BY DEF Listed, Known, JobEvents
<1>2. /\ \A i \in DOMAIN wire' : i \in DOMAIN wire \/ i = n
      /\ \A i \in DOMAIN wire : i \in DOMAIN wire' /\ wire'[i] = wire[i]
      /\ wire'[n] = e
      /\ \A i \in DOMAIN wire' : ~(i > n)
  BY WireAppended
<1>3. \A i \in DOMAIN wire, j \in Jobs : Genuine(i, j)' <=> Genuine(i, j)
  BY <1>2 DEF Genuine
<1>4. \A j \in Jobs : Genuine(n, j)' => worker[j] \notin Final /\ worker'[j] = e.state
  BY <1>2 DEF Genuine
<1>5. EndedInv'
  <2>1. SUFFICES ASSUME NEW j \in Listed, jobs[j].state \in Final
                 PROVE  /\ worker'[j] = jobs[j].state
                        /\ \A i \in DOMAIN wire' : ~Genuine(i, j)'
    BY <1>1 DEF EndedInv
  <2>2. worker[j] \in Final /\ worker[j] = jobs[j].state /\ j \in Jobs
        /\ \A i \in DOMAIN wire : ~Genuine(i, j)
    BY <2>1 DEF EndedInv, Listed
  <2>3. QED
    BY <1>2, <1>3, <1>4, <2>2
<1>6. WireInv'
  <2>1. \A i \in DOMAIN wire', j \in Jobs : wire'[i].job = j => Drawn(j)'
    <3>1. \A i \in DOMAIN wire, j \in Jobs : wire[i].job = j => Drawn(j)
      BY DEF WireInv
    <3>2. QED
      BY <1>2, <3>1
  <2>2. ASSUME NEW i \in DOMAIN wire', NEW j \in Listed, Genuine(i, j)',
               wire'[i].state \in Final
        PROVE  /\ worker'[j] = wire'[i].state
               /\ \A k \in DOMAIN wire' : k > i => ~Genuine(k, j)'
    <3>1. j \in Jobs
      BY DEF Listed
    <3>2. CASE i \in DOMAIN wire
      <4>1. Genuine(i, j) /\ wire'[i] = wire[i]
        BY <1>2, <1>3, <2>2, <3>1, <3>2
      <4>2. /\ worker[j] = wire[i].state /\ worker[j] \in Final
            /\ \A k \in DOMAIN wire : k > i => ~Genuine(k, j)
        BY <2>2, <3>2, <4>1 DEF WireInv
      <4>3. QED
        BY <1>2, <1>3, <1>4, <3>1, <4>1, <4>2
    <3>3. CASE i = n
      BY <1>2, <1>4, <2>2, <3>1, <3>3
    <3>4. QED
      BY <1>2, <2>2, <3>2, <3>3
  <2>3. \A i \in DOMAIN wire' : wire'[i].job \in Jobs
    BY <1>1, <1>2, WireJob
  <2>4. QED
    BY <1>1, <2>1, <2>2, <2>3 DEF WireInv
<1>7. QED
  BY <1>5, <1>6
\* A step that leaves the wire and the jobs' channels alone, puts no job in the
\* table that the wire mentions and takes no job to its end keeps the invariant.
LEMMA EndedKept ==
  ASSUME Types, WireInv, EndedInv, wire' = wire,
         \A j \in Jobs : Drawn(j) => Drawn(j)',
         \A j \in Jobs : worker[j] \in Final => worker'[j] = worker[j],
         \A j \in Listed' : \/ j \in Listed /\ jobs'[j].channel = jobs[j].channel
                           \/ ~Drawn(j),
         \A j \in Listed' : jobs'[j].state \in Final =>
           j \in Listed /\ jobs'[j] = jobs[j]
  PROVE  WireInv' /\ EndedInv'
<1>1. \A i \in DOMAIN wire : wire[i].job \in Jobs /\ Drawn(wire[i].job)
  BY WireJob DEF WireInv
<1>2. \A i \in DOMAIN wire, j \in Listed' : Genuine(i, j)' => j \in Listed /\ Genuine(i, j)
  BY <1>1 DEF Genuine
<1>3. \A j \in Listed : j \in Jobs
  BY DEF Listed
<1>4. \A i \in DOMAIN wire, j \in Jobs : wire[i].job = j => Drawn(j)'
  BY <1>1
<1>5. WireInv'
  <2>1. ASSUME NEW i \in DOMAIN wire, NEW j \in Listed', Genuine(i, j)',
               wire[i].state \in Final
        PROVE  /\ worker'[j] = wire[i].state
               /\ \A k \in DOMAIN wire : k > i => ~Genuine(k, j)'
    <3>1. j \in Listed /\ Genuine(i, j)
      BY <1>2, <2>1
    <3>2. /\ worker[j] = wire[i].state
          /\ \A k \in DOMAIN wire : k > i => ~Genuine(k, j)
      BY <2>1, <3>1 DEF WireInv
    <3>3. QED
      BY <1>2, <1>3, <2>1, <3>1, <3>2
  <2>2. QED
    BY <1>1, <1>4, <2>1 DEF WireInv
<1>6. EndedInv'
  <2>1. ASSUME NEW j \in Listed', jobs'[j].state \in Final
        PROVE  /\ worker'[j] = jobs'[j].state
               /\ \A i \in DOMAIN wire : ~Genuine(i, j)'
    <3>1. j \in Listed /\ jobs'[j] = jobs[j]
      BY <2>1
    <3>2. worker[j] = jobs[j].state /\ \A i \in DOMAIN wire : ~Genuine(i, j)
      BY <2>1, <3>1 DEF EndedInv
    <3>3. QED
      BY <1>2, <1>3, <2>1, <3>1, <3>2
  <2>2. QED
    BY <2>1 DEF EndedInv
<1>7. QED
  BY <1>5, <1>6

\* Reading the first event.
LEMMA EndedReceive ==
  ASSUME Types, WireInv, EndedInv, Receive
  PROVE  WireInv' /\ EndedInv'
<1>1. /\ wire # <<>> /\ wire' = Tail(wire) /\ worker' = worker
  BY DEF Receive
<1>2. /\ Head(wire) \in JobEvents /\ 1 \in DOMAIN wire /\ wire[1] = Head(wire)
      /\ \A i \in DOMAIN wire' : i + 1 \in DOMAIN wire /\ wire'[i] = wire[i + 1]
      /\ DOMAIN wire' \subseteq Nat \ {0}
  BY <1>1, WireType
<1>3. Listed' = Listed /\ \A j \in Jobs : jobs'[j].channel = jobs[j].channel
  BY ReceiveEffect
<1>4. \A j \in Listed : j \in Jobs
  BY DEF Listed
<1>5. \A i \in DOMAIN wire', j \in Listed :
        Genuine(i, j)' <=> wire[i + 1].job = j /\ wire[i + 1].channel = jobs[j].channel
  BY <1>2, <1>3, <1>4 DEF Genuine
<1>6. WireInv'
  <2>1. \A i \in DOMAIN wire', j \in Jobs : wire'[i].job = j => Drawn(j)'
    <3>1. \A j \in Jobs : Drawn(j) => Drawn(j)'
      BY <1>1, <1>3 DEF Drawn, Listed
    <3>2. QED
      BY <1>2, <3>1 DEF WireInv
  <2>2. \A i \in DOMAIN wire' : wire'[i].job \in Jobs
    BY <1>2, WireJob
  <2>3. ASSUME NEW i \in DOMAIN wire', NEW j \in Listed, Genuine(i, j)',
               wire'[i].state \in Final
        PROVE  /\ worker[j] = wire'[i].state
               /\ \A k \in DOMAIN wire' : k > i => ~Genuine(k, j)'
    <3> PICK n : n = i + 1
      OBVIOUS
    <3>1. n \in DOMAIN wire /\ Genuine(n, j) /\ wire[n].state \in Final
          /\ wire'[i] = wire[n]
      BY <1>2, <1>5, <2>3 DEF Genuine
    <3>2. /\ worker[j] = wire[n].state
          /\ \A k \in DOMAIN wire : k > n => ~Genuine(k, j)
      BY <3>1 DEF WireInv
    <3>3. \A k \in DOMAIN wire' : k > i => k + 1 \in DOMAIN wire /\ k + 1 > n
      BY <1>2
    <3>4. \A k \in DOMAIN wire' : k > i => ~Genuine(k + 1, j)
      BY <3>2, <3>3
    <3>5. QED
      BY <1>5, <3>1, <3>2, <3>4 DEF Genuine
  <2>4. QED
    BY <1>1, <1>3, <2>1, <2>2, <2>3 DEF WireInv
<1>7. EndedInv'
  <2>1. ASSUME NEW j \in Listed, jobs'[j].state \in Final
        PROVE  /\ worker[j] = jobs'[j].state
               /\ \A i \in DOMAIN wire' : ~Genuine(i, j)'
    <3>1. CASE jobs'[j] = jobs[j]
      <4>1. worker[j] = jobs[j].state /\ \A i \in DOMAIN wire : ~Genuine(i, j)
        BY <2>1, <3>1 DEF EndedInv
      <4>2. QED
        BY <1>2, <1>5, <3>1, <4>1 DEF Genuine
    <3>2. CASE j = wire[1].job /\ Matches(wire[1]) /\ jobs'[j].state = wire[1].state
      <4>1. Genuine(1, j) /\ wire[1].state \in Final
        BY <2>1, <3>2 DEF Genuine, Matches
      <4>2. /\ worker[j] = wire[1].state
            /\ \A k \in DOMAIN wire : k > 1 => ~Genuine(k, j)
        BY <1>2, <4>1 DEF WireInv
      <4>3. \A i \in DOMAIN wire' : i + 1 \in DOMAIN wire /\ i + 1 > 1
        BY <1>2
      <4>4. \A i \in DOMAIN wire' : ~Genuine(i + 1, j)
        BY <4>2, <4>3
      <4>5. QED
        BY <1>5, <3>2, <4>2, <4>4 DEF Genuine
    <3>3. QED
      BY <1>2, <1>4, <2>1, <3>1, <3>2, ReceiveEffect
  <2>2. QED
    BY <1>1, <1>3, <2>1 DEF EndedInv
<1>8. QED
  BY <1>6, <1>7

\* The wire and the ends, over every step.
LEMMA EndedStep ==
  Types /\ TableInv /\ WireInv /\ EndedInv /\ [Next]_vars => WireInv' /\ EndedInv'
<1> SUFFICES ASSUME Types, TableInv, WireInv, EndedInv, [Next]_vars
             PROVE  WireInv' /\ EndedInv'
  OBVIOUS
<1>1. ASSUME NEW j \in Jobs, NEW c \in Channels, handleRecordingJobStart(j, c)
      PROVE  WireInv' /\ EndedInv'
  <2>1. create(j, c)
    BY <1>1 DEF handleRecordingJobStart
  <2>2. ~Drawn(j) /\ worker' = [worker EXCEPT ![j] = "starting"] /\ wire' = wire
    BY <2>1 DEF create
  <2>3. /\ Listed' = Listed \cup {j} /\ j \notin Listed
        /\ jobs'[j] = [channel |-> c, state |-> "starting"]
        /\ \A k \in Jobs \ {j} : jobs'[k] = jobs[k]
    BY <2>1, CreateEffect
  <2>4. jobs'[j].state \notin Final
    BY <2>3 DEF Final
  <2>5. \A k \in Jobs : worker'[k] = IF k = j THEN "starting" ELSE worker[k]
    BY <2>2 DEF Types
  <2>6. \A k \in Jobs : Drawn(k) => Drawn(k)'
    BY <2>3, <2>5 DEF Drawn, Listed
  <2>7. worker[j] \notin Final
    BY <2>2 DEF Drawn, Final
  <2>8. \A k \in Listed' : k \in Jobs
    BY DEF Listed
  <2>9. \A k \in Listed' : k = j \/ (k \in Listed /\ jobs'[k] = jobs[k])
    BY <2>3, <2>8
  <2>10. QED
    BY <2>2, <2>4, <2>5, <2>6, <2>7, <2>9, EndedKept
<1>2. ASSUME NEW j \in Jobs, stop(j) PROVE WireInv' /\ EndedInv'
  <2>1. wire' = wire /\ worker' = worker
    BY <1>2 DEF stop
  <2>2. /\ Listed' = Listed /\ jobs'[j].state = StateAfterStop(j)
        /\ \A k \in Jobs : jobs'[k].channel = jobs[k].channel
        /\ \A k \in Jobs \ {j} : jobs'[k] = jobs[k]
        /\ jobs' \in Table
    BY <1>2, StopEffect
  <2>3. jobs'[j].state \in Final => jobs'[j] = jobs[j]
    <3>1. jobs'[j].state \in Final => jobs'[j].state = jobs[j].state
      BY <2>2 DEF StateAfterStop, Final
    <3>2. QED
      BY <2>2, <3>1 DEF Types, Table
  <2>4. \A k \in Jobs : Drawn(k) => Drawn(k)'
    BY <2>1, <2>2 DEF Drawn, Listed
  <2>5. \A k \in Listed : k \in Jobs
    BY DEF Listed
  <2>6. QED
    BY <2>1, <2>2, <2>3, <2>4, <2>5, EndedKept
<1>3. ASSUME Receive PROVE WireInv' /\ EndedInv'
  BY <1>3, EndedReceive
<1>4. ASSUME NEW j \in Jobs, NEW s \in JobStates, WorkerStep(j, s)
      PROVE  WireInv' /\ EndedInv'
  <2> DEFINE e == [job |-> j, channel |-> jobs[j].channel, state |-> s]
  <2>1. jobs' = jobs /\ worker' = [worker EXCEPT ![j] = s] /\ Report(e)
    BY <1>4 DEF WorkerStep
  <2>2. worker[j] \notin Final
    BY <1>4, NoneAfterFinal DEF WorkerStep
  <2>3. \A k \in Jobs : worker'[k] = IF k = j THEN s ELSE worker[k]
    BY <2>1 DEF Types
  <2>4. "none" \notin JobStates
    BY DEF JobStates, Final
  <2>5. \A k \in Jobs : Drawn(k) => Drawn(k)'
    BY <2>1, <2>3, <2>4 DEF Drawn, Known
  <2>6. Drawn(j)'
    BY <2>3, <2>4 DEF Drawn
  <2>7. Listed' = Listed
    BY <2>1 DEF Listed, Known
  <2>8. CASE connected
    <3>1. PICK f \in JobEvents : f = e
      BY DEF Types, Table, JobEvents
    <3>2. f.job = j /\ f.state = s /\ wire' = Append(wire, f)
      BY <2>1, <2>8, <3>1 DEF Report
    <3>3. QED
      BY <2>1, <2>2, <2>3, <2>5, <2>6, <3>2, EndedReport
  <2>9. CASE ~connected
    <3>1. wire' = wire
      BY <2>1, <2>9 DEF Report
    <3>2. QED
      BY <2>1, <2>2, <2>3, <2>5, <2>7, <3>1, EndedKept
  <2>10. QED
    BY <2>8, <2>9
<1>5. ASSUME NEW j \in Jobs, NEW c \in Channels, NEW s \in JobStates, Misdirect(j, c, s)
      PROVE  WireInv' /\ EndedInv'
  <2>1. PICK f \in JobEvents : f = [job |-> j, channel |-> c, state |-> s]
    BY DEF JobEvents
  <2>2. f.job = j /\ f.channel # jobs[j].channel /\ wire' = Append(wire, f)
    BY <1>5, <2>1 DEF Misdirect
  <2>3. jobs' = jobs /\ worker' = worker /\ Known(j)
    BY <1>5 DEF Misdirect
  <2>4. \A k \in Jobs : Drawn(k) <=> Drawn(k)'
    BY <2>3 DEF Drawn, Known
  <2>5. Drawn(j)
    BY <2>3 DEF Drawn
  <2>6. QED
    BY <2>2, <2>3, <2>4, <2>5, EndedReport
<1>6. ASSUME LoseConnection PROVE WireInv' /\ EndedInv'
  <2>1. wire' = <<>> /\ jobs' = jobs /\ worker' = worker
    BY <1>6 DEF LoseConnection
  <2>2. QED
    BY <2>1 DEF WireInv, EndedInv, Listed, Known
<1>7. ASSUME Restart PROVE WireInv' /\ EndedInv'
  BY <1>7, RestartEffect DEF WireInv, EndedInv
<1>8. CASE UNCHANGED <<jobs, wire, worker>>
  BY <1>8 DEF WireInv, EndedInv, Listed, Known, Genuine, Drawn
<1>9. QED
  BY <1>1, <1>2, <1>3, <1>4, <1>5, <1>6, <1>7, <1>8 DEF Next, CheckStop, Connect, vars

-----------------------------------------------------------------------------
(***************************************************************************)
(* The theorems.                                                           *)
(***************************************************************************)

\* The empty table satisfies the inductive invariant.
LEMMA IInvInit == Init => IInv
<1> SUFFICES ASSUME Init PROVE IInv
  OBVIOUS
<1>1. jobs = [j \in Jobs |-> NoJob] /\ wire = <<>> /\ NoJob.state = "none"
  BY DEF Init, NoJob
<1>2. Listed = {} /\ jobs \in Table
  BY <1>1, NoJobType DEF Listed, Known, Table
<1>3. connected \in BOOLEAN
  BY DEF Init
<1>4. wire \in Seq(JobEvents)
  BY <1>1
<1>5. Types
  BY <1>2, <1>3, <1>4 DEF Init, Types
<1>6. Limit
  BY <1>2, FS_EmptySet, JobsAssumption DEF Limit
<1>7. TableInv /\ WireInv /\ EndedInv
  BY <1>1, <1>2 DEF Init, TableInv, WireInv, EndedInv
<1>8. QED
  BY <1>5, <1>6, <1>7 DEF IInv

\* The inductive invariant holds in every reachable state.
THEOREM Invariance == Spec => []IInv
<1>1. IInv /\ [Next]_vars => IInv'
  BY TypesStep, LimitStep, EndedStep DEF IInv
<1>2. QED
  BY IInvInit, <1>1, PTL DEF Spec

\* Type correctness of the table, its limit included, which create tests in the
\* critical section that adds the job.
THEOREM TypeCorrect == Spec => []TypeOK
<1>1. IInv => TypeOK
  BY TypeOKParts DEF IInv
<1>2. QED
  BY Invariance, <1>1, PTL

\* A final state in the table is the worker's, and no event on the connection
\* will bring the job back: applyLifecycleEvent overwrites final states, so this
\* rests on the order of the connection and on the test of the channel.
THEOREM EndedIsTrueHolds == Spec => []EndedIsTrue
<1>1. IInv => EndedIsTrue
  BY DEF IInv, EndedInv, EndedIsTrue, Listed, Genuine
<1>2. QED
  BY Invariance, <1>1, PTL

\* A step leaves a final state alone: the stop tests for it, and by EndedInv no
\* event under way is about the job.
LEMMA EndedStaysStep ==
  ASSUME IInv, [Next]_vars, NEW j \in Jobs, jobs[j].state \in Final
  PROVE  jobs'[j].state \in {jobs[j].state, "none"}
<1>1. j \in Listed /\ j \in Jobs
  BY DEF Listed, Known, Final
<1>2. ASSUME NEW k \in Jobs, NEW c \in Channels, handleRecordingJobStart(k, c)
      PROVE  jobs'[j].state = jobs[j].state
  BY <1>1, <1>2, CreateEffect DEF IInv, handleRecordingJobStart
<1>3. ASSUME NEW k \in Jobs, stop(k) PROVE jobs'[j].state = jobs[j].state
  <2>1. /\ jobs'[k].state = StateAfterStop(k)
        /\ \A l \in Jobs \ {k} : jobs'[l] = jobs[l]
    BY <1>3, StopEffect DEF IInv
  <2>2. QED
    BY <2>1 DEF StateAfterStop
<1>4. ASSUME Receive PROVE jobs'[j].state = jobs[j].state
  <2>1. 1 \in DOMAIN wire /\ wire[1] = Head(wire)
    BY <1>4, WireType DEF IInv, Receive
  <2>2. ~Genuine(1, j)
    BY <1>1, <2>1 DEF IInv, EndedInv
  <2>3. ~(j = Head(wire).job /\ Matches(Head(wire)))
    BY <2>1, <2>2 DEF Genuine, Matches
  <2>4. QED
    BY <1>4, <2>3, ReceiveEffect DEF IInv
<1>5. ASSUME Restart PROVE jobs'[j].state = "none"
  BY <1>5 DEF Restart, NoJob
<1>6. CASE UNCHANGED jobs
  BY <1>6
<1>7. QED
  BY <1>2, <1>3, <1>4, <1>5, <1>6
  DEF Next, CheckStop, WorkerStep, Misdirect, LoseConnection, Connect, vars

\* A job that has ended is not set back, however stops and events cross, until a
\* restart empties the table.
THEOREM EndedStaysHolds == Spec => EndedStays
<1>1. IInv /\ [Next]_vars =>
        [\A j \in Jobs : jobs[j].state \in Final =>
           jobs'[j].state \in {jobs[j].state, "none"}]_vars
  BY EndedStaysStep
<1>2. QED
  BY Invariance, <1>1, PTL DEF Spec, EndedStays
=============================================================================
