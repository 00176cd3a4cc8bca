--------------------------- MODULE RecordingJobs ---------------------------
(***************************************************************************)
(* The table of recording jobs (recording_jobs.go): started and stopped by *)
(* API requests, and brought up to date by recording_state_changed events  *)
(* of the Relay, which handleSessionMessage passes on one by one. Nothing  *)
(* of it is on disk, and no snapshot carries the state of a job.           *)
(*                                                                         *)
(* handleRecordingJobStop reads the job, checks the caller's scope and     *)
(* only then stops it, in a second critical section: events and other      *)
(* stops come in between. The Recorder Worker and the Relay are external.  *)
(***************************************************************************)
EXTENDS Integers, Sequences, FiniteSets

CONSTANTS
  Jobs,      \* job IDs newPrivateControlID draws, none twice
  Channels,  \* channel IDs
  Scope,     \* channels of the callers' ACL, with a role that may record
  MaxJobs,   \* managementRecordingJobLimit
  MaxFaults  \* bound: lost connections, restarts and misdirected events

ASSUME JobsAssumption ==
  /\ IsFiniteSet(Jobs)
  /\ Channels # {}
  /\ Scope \subseteq Channels
  /\ MaxJobs \in Nat
  /\ MaxFaults \in Nat

VARIABLES
  jobs,       \* j.jobs: the job with this ID
  stops,      \* stop requests between get and stop
  connected,  \* a PCL session is up
  wire,       \* recording events on this connection, in the Relay's order
  worker,     \* what the Recorder Worker of the job does
  missed,     \* history: jobs of which an event was lost
  faults      \* faults so far

vars == <<jobs, stops, connected, wire, worker, missed, faults>>

Final     == {"stopped", "failed"}
JobStates == {"starting", "recording", "stopping"} \cup Final

NoJob == [channel |-> CHOOSE c \in Channels : TRUE, state |-> "none"]

JobEvents == [job : Jobs, channel : Channels, state : JobStates]

TypeOK ==
  /\ jobs \in [Jobs -> [channel : Channels, state : JobStates \cup {"none"}]]
  /\ stops \subseteq Jobs
  /\ connected \in BOOLEAN
  /\ wire \in Seq(JobEvents)
  /\ worker \in [Jobs -> JobStates \cup {"none"}]
  /\ missed \subseteq Jobs
  /\ faults \in Nat
  /\ Cardinality({j \in Jobs : jobs[j].state # "none"}) <= MaxJobs

Init ==
  /\ jobs = [j \in Jobs |-> NoJob]
  /\ stops = {}
  /\ connected = TRUE
  /\ wire = <<>>
  /\ worker = [j \in Jobs |-> "none"]
  /\ missed = {}
  /\ faults = 0

-----------------------------------------------------------------------------
Known(j) == jobs[j].state # "none"

Drawn(j) == Known(j) \/ worker[j] # "none"

\* Mutant: off by one.
HasRoomAtLimit == Cardinality({j \in Jobs : Known(j)}) <= MaxJobs

HasRoom == Cardinality({j \in Jobs : Known(j)}) < MaxJobs

SetState(j, s) == jobs' = [jobs EXCEPT ![j].state = s]

canManageRecordingChannel(c) == c \in Scope

(***************************************************************************)
(* handleRecordingJobStart, for a channel of the caller's scope. The 201   *)
(* tells the job ID, with which a worker is started.                       *)
(***************************************************************************)
create(j, c) ==
  /\ ~Drawn(j)
  /\ HasRoom
  /\ jobs' = [jobs EXCEPT ![j] = [channel |-> c, state |-> "starting"]]
  /\ worker' = [worker EXCEPT ![j] = "starting"]
  /\ UNCHANGED <<stops, connected, wire, missed, faults>>

handleRecordingJobStart(j, c) == canManageRecordingChannel(c) /\ create(j, c)

(***************************************************************************)
(* handleRecordingJobStop: get and the test of the scope, then stop.       *)
(***************************************************************************)
CheckStop(j) ==
  /\ Known(j)
  /\ canManageRecordingChannel(jobs[j].channel)
  /\ stops' = stops \cup {j}
  /\ UNCHANGED <<jobs, connected, wire, worker, missed, faults>>

\* Mutant: a job that has ended is set to stopping as well.
StateAfterAnyStop(j) == "stopping"

StateAfterStop(j) == IF jobs[j].state \in Final THEN jobs[j].state ELSE "stopping"

stop(j) ==
  /\ j \in stops
  /\ SetState(j, StateAfterStop(j))
  /\ stops' = stops \ {j}
  /\ UNCHANGED <<connected, wire, worker, missed, faults>>

-----------------------------------------------------------------------------
(***************************************************************************)
(* applyLifecycleEvent: an event for a job that is not in the table, or    *)
(* for another channel than the job's, changes nothing.                    *)
(***************************************************************************)
\* Mutant: the channel of the event is not compared.
MatchesId(e) == Known(e.job)

Matches(e) == Known(e.job) /\ jobs[e.job].channel = e.channel

\* Mutant: a job that is to stop takes no more events.
applyUnlessStopping(e) ==
  IF Matches(e) /\ jobs[e.job].state # "stopping"
  THEN SetState(e.job, e.state)
  ELSE UNCHANGED jobs

applyLifecycleEvent(e) ==
  IF Matches(e)
  THEN SetState(e.job, e.state)
  ELSE UNCHANGED jobs

Receive ==
  /\ wire # <<>>
  /\ applyLifecycleEvent(Head(wire))
  /\ wire' = Tail(wire)
  /\ UNCHANGED <<stops, connected, worker, missed, faults>>

-----------------------------------------------------------------------------
(***************************************************************************)
(* The Recorder Worker goes through its states and the Relay reports each; *)
(* with no connection, or one that is lost, nobody hears of it. A          *)
(* misdirected event names a job with a channel that is not the job's.     *)
(***************************************************************************)
After(s) ==
  CASE s = "starting"  -> {"recording", "failed"}
    [] s = "recording" -> {"stopping", "failed"}
    [] s = "stopping"  -> Final
    [] OTHER           -> {}

Report(e) ==
  IF connected
  THEN wire' = Append(wire, e) /\ missed' = missed
  ELSE wire' = wire /\ missed' = missed \cup {e.job}

WorkerStep(j, s) ==
  /\ s \in After(worker[j])
  /\ worker' = [worker EXCEPT ![j] = s]
  /\ Report([job |-> j, channel |-> jobs[j].channel, state |-> s])
  /\ UNCHANGED <<jobs, stops, connected, faults>>

Misdirect(j, c, s) ==
  /\ faults < MaxFaults
  /\ connected
  /\ Known(j)
  /\ c # jobs[j].channel
  /\ wire' = Append(wire, [job |-> j, channel |-> c, state |-> s])
  /\ faults' = faults + 1
  /\ UNCHANGED <<jobs, stops, connected, worker, missed>>

LoseConnection ==
  /\ connected
  /\ faults < MaxFaults
  /\ connected' = FALSE
  /\ wire' = <<>>
  /\ missed' = missed \cup {wire[i].job : i \in DOMAIN wire}
  /\ faults' = faults + 1
  /\ UNCHANGED <<jobs, stops, worker>>

Connect ==
  /\ ~connected
  /\ connected' = TRUE
  /\ UNCHANGED <<jobs, stops, wire, worker, missed, faults>>

(***************************************************************************)
(* The process restarts with an empty table, and new connections.          *)
(***************************************************************************)
Restart ==
  /\ faults < MaxFaults
  /\ jobs' = [j \in Jobs |-> NoJob]
  /\ stops' = {}
  /\ connected' = FALSE
  /\ wire' = <<>>
  /\ missed' = {}
  /\ faults' = faults + 1
  /\ UNCHANGED worker

-----------------------------------------------------------------------------
Next ==
  \/ \E j \in Jobs, c \in Channels : handleRecordingJobStart(j, c)
  \/ \E j \in Jobs : CheckStop(j) \/ stop(j)
  \/ Receive
  \/ \E j \in Jobs, s \in JobStates : WorkerStep(j, s)
  \/ \E j \in Jobs, c \in Channels, s \in JobStates : Misdirect(j, c, s)
  \/ LoseConnection \/ Connect \/ Restart

Spec == Init /\ [][Next]_vars

(***************************************************************************)
(* Fairness: the session goroutine reads and applies what has arrived.     *)
(* None is assumed of callers, of the worker or of the network.            *)
(***************************************************************************)
FairSpec == Spec /\ WF_vars(Receive)

-----------------------------------------------------------------------------
(***************************************************************************)
(* Properties.                                                             *)
(***************************************************************************)

\* A job that the table has as ended has ended, in that state, and no event on
\* its way can bring it back.
EndedIsTrue ==
  \A j \in Jobs : Known(j) /\ jobs[j].state \in Final =>
    /\ worker[j] = jobs[j].state
    /\ \A i \in DOMAIN wire : wire[i].job = j => wire[i].channel # jobs[j].channel

\* What the table has as ended stays so until a restart: neither a stop that was
\* checked before the end arrived nor an event that comes after it sets the job
\* back. (From "stopping" a late event does set it back: line 98 of
\* recording_jobs.go assigns whatever the event says.)
EndedStays ==
  [][\A j \in Jobs : jobs[j].state \in Final =>
       jobs'[j].state \in {jobs[j].state, "none"}]_vars

\* The end of a job reaches the table, however stops and events cross, unless a
\* connection was lost with an event of it or the process forgot the job.
EndIsRecorded ==
  \A j \in Jobs :
    worker[j] \in Final /\ Known(j) ~>
      jobs[j].state = worker[j] \/ j \in missed \/ ~Known(j)
=============================================================================
