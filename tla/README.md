# TLA+ models of the IncomUdon Management Service

The Management Service keeps one Private Control Link (PCL) to a Relay. Over it
the service learns who is on which channel and sends Service Admission
revocations; over an mTLS API it serves that state, live events, grants,
revocations and recording jobs. These modules model the parts where goroutines,
connections, the disk and restarts meet, check them with TLC on small instances,
and prove the safety properties for every instance with TLAPS.

## The system

| Part | State | Operations | Talks to |
|---|---|---|---|
| Command outbox (`private_control.go`, `private_control_outbox.go`) | `pending` map, `commandNotify` (capacity 1), one result channel per command, the store file | enqueue (one or a batch), list, complete by ack / error / expiry, load at start | API handlers and ACL reload put in; the session takes out |
| PCL session (`private_control.go`) | connection, `sentCommands`, snapshot reassembly | dial, hello, snapshot request, send, handle frame, redial | Relay, outbox, projection |
| Relay state projection (`main.go`) | `channels`, `connected`, `snapshotAt` | markConnected, markDisconnected, recordLifecycleEvent, applyRelayStateSnapshot | written by the session, read by API handlers; calls the hub and the recording jobs |
| Live event hub (`management_events.go`) | subscribers, `nextEventID`, one buffered channel per stream | subscribe, publish, unsubscribe, the SSE loop | published to by the session; one handler goroutine per stream |
| Revocation API (`service_admission_api.go`) | the request waiting up to 5 s | validate, queue, wait, answer 200/202/503 | outbox, grants |
| ACL reload (`management_acl_reload.go`) | the authorizer | load, compare, queue revocations, adopt | outbox, every handler |
| Grants (`service_admission_grants.go`) | issued grants until they expire | issue, look up, clean up | revocation API |
| Recording jobs (`recording_jobs.go`) | job table | start, stop, apply event | session, API |
| Authorizer (`management_api.go`) | the services of the three CSV files, replaced as a whole | load, authenticate, tests of roles and permissions | every handler, ACL reload |
| HTTP routing, framing and validation, configuration | none that changes | | |

What is hard here:

- **Failure between memory and disk.** `persist` can fail before the rename or,
  in the directory sync, after it; the process or the machine can die at any
  point; the session must not tell a caller what the disk does not hold.
- **Interleavings.** Handlers enqueue while the session is between listing the
  queue and sleeping; `publish` evicts a stream whose handler is returning.
- **Timeouts.** A request's wait ends while its result is delivered; a deadline
  passes between the write of a command and its reply.
- **Reconnects.** Commands are sent again, the roster is rebuilt, half a
  snapshot is thrown away.
- **Staleness.** Open streams and slow requests keep the service they
  authenticated; the roster of the last connection is in memory when the next one
  starts; the three ACL files are read one after the other.
- **Crossing messages.** A stop request and the events of a recording job pass
  each other; a grant may be issued after its own revocation was queued.

`PROJECT.json` lists these hazards at their lines, with the properties that
would catch them.

## Modules

### CommandOutbox

Models the outbox, the session that drains it and the callers that wait.

- A command is its message ID. `pending`, `store` and `stable` are the IDs in
  memory, in the store file, and in what a power loss would leave of that file.
  `PersistOutcomes` gives what one call of `persist` can do: succeed; fail with
  the old file; fail in the directory sync with the new file in place but not
  stable; on Windows, fail with the file removed. A crash inside `persist` is a
  failed write followed by `Crash`: no caller has been promised anything in
  either case. On Windows the code does not sync the directory; the model is
  lenient there and takes a completed rename as stable.
- Each function that holds `commandMu` is one action, its write included.
- `session` is the program point of `runSession`. The loop of
  `sendPendingCommands` is one action per command (`SkipSent`, `ExpireCommand`,
  `WriteCommand`), because callers enqueue and the clock runs between them;
  `batch` is what the loop has left and `batchNow` the time it read at its start.
  Go iterates a map, so the order is open.
- `caller` is the answer to the request: 200 `ok`, 202 `accepted`, 503 `failed`
  or `refused`. The select of `revokeServiceAdmission` may take the deadline
  although the result is there.
- The Relay is external: it answers each command it reads at most once, with an
  ack, an ack that names another deadline, or an error. Commands on a connection
  that is lost may have been applied.
- `applied` and `outcome` are history variables.

### RelayProjection

Models the roster from the frames of the Relay to what the API serves.

- `channels` gives every (channel, sender) a state; `listed` is the set of keys of
  the Go map, which differs from the occupied channels because every event that
  names a channel and a sender creates the key.
- `got` is the reassembly. Consistency, duplicate and listed-twice tests are the
  guards of `ReceiveChunk`; their negations are `RejectChunk`, which ends the
  session.
- `Close` is the end of `runSession`; `markDisconnected` comes later, from `run`,
  so the API can read between the two.
- The Relay is external: it has the true roster, writes events for its changes,
  and may produce the defective snapshots the client guards against. A snapshot
  may list channels without participants, which stay listed. One assumption: the
  Relay writes no event between the chunks of one snapshot
  (`EventsBetweenChunks = FALSE`). It matters: `applyRelayStateSnapshot` replaces
  the roster as a whole, so an event handled between two chunks would be undone;
  with `TRUE`, TLC refutes `ServedMatchesRelay`. Nothing in the client enforces it.
- Left out: timestamps, relay_id, and the calls to the hub (LiveEvents) and the
  recording jobs.

### LiveEvents

Models the hub, one handler per client, and the adoption of a new authorizer.

- A topic stands for a channel, or for the health events that need the global
  permission; a client's scope is the set of topics `canReceiveEvent` admits.
- A full buffer evicts: `publish` removes the subscriber and closes the channel;
  what is buffered is still received. `closes` counts closes of the current
  channel; two would be a panic.
- `service` is the scope the handler authenticated with, `acl` the current one.
- A write that fails ends the handler as a client that hangs up does (`ClientGone`),
  and leaves the event in the buffer, which nobody reads again.

### Authorizer

Pure operators: `Load` builds an authorizer from three tables of rows, the
`Valid...` operators are the tests of each file, and
`managementAutomaticRevocations` compares two authorizers. `Admitted` and `Listed`
say what an authorizer admits and what an ACL file asks it to. A file is `readable` when
`readManagementCSV` and the field parsers accept all of it; its rows are a
sequence, because a row may be there twice. `byService` and `byFingerprint` map to
the same records, so an authorizer is one set of them.

### ServiceAdmission

Composes grants, revocation requests and the ACL reload over Authorizer.

- A pass of `reloadAuthorizer` is five steps: the three files, the queueing of the
  revocations, the adoption. An operator (`Edit`) may replace all files at once
  between any two of them, which is the most the repository's README asks for.
- A handler holds the service record it was authenticated with (`held`) until it
  issues, revokes or does anything else. Reading the body lies in between, for
  which the server has no time limit.
- `tracked` is the issuer's table, `grants` everything handed out. The outbox is
  only the length of its queue here; CommandOutbox has the rest. In particular a
  revocation that is queued is not thereby in force: an error reply gives it up
  (`outbox_ack`).
- A process that starts loads the files in the same steps and has no authorizer
  to compare with. `unnoticed` records the grants it thereby lets pass, `revoked`
  the revocations reloads have queued, `lag` the longest time from the deadline's
  computation to the adoption, `seen` the files in place since the pass began:
  these are history variables.

### RecordingJobs

The table of jobs, with `handleRecordingJobStop` in its two critical sections, and
the events of an external Recorder Worker, in order per connection, lost with it,
or naming a wrong channel. `applyLifecycleEvent` stores the state of any event that
names a job and its channel, so a `recording` event that crosses a stop sets the job
back from `stopping` until the worker's next event. The history variable `missed`
has the jobs an event of which was lost.

### RevocationLedger and OutboxLedger

`RevocationLedger` is the abstract specification of what callers are promised,
without queue, store, connections or crashes: a batch is accepted or refused as a
whole; an accepted command stays open until there is a verdict; a verdict on a
closed command never changes; a caller is answered at most once and by the final
verdict. `OutboxLedger` has the refinement mapping: a command is open while it is
in memory, in the store file, or in what a power loss would leave of it.

### DelayedRoster and ServedRoster

`DelayedRoster` is the abstract specification of what readers of the roster are
promised, without frames, chunks or sessions: a roster is published only when what
follows it ends with the Relay's; it then goes through what follows in order, one
at a time, and is never replaced or set back while the connection lives; after a
lost connection it stays as it is until it is withdrawn, and only then is another
one published. `ServedRoster` has the refinement mapping: the rosters that follow
the served one are what the frames in flight make of it, one after another
(`Ahead`). A talker who leaves is announced by two events, so the roster between
them is one of those a reader may see.

### Proof modules

`CommandOutboxProofs`, `OutboxLedgerProofs`, `RelayProjectionProofs`,
`ServedRosterProofs`, `DelayedRosterProofs`, `LiveEventsProofs`,
`ServiceAdmissionProofs`, `RecordingJobsProofs`; see below.

## Runs

| Run | Checks | Instance |
|---|---|---|
| `outbox` | `TypeOK`, `AcceptedIsDurable`, `CompletedIsFinal`, `NoLostWakeup`, `RepliesMatchPending`, `WrittenOncePerConnection`, `OkMeansApplied`, `ImplementsLedger` | 2 commands, limit 2, 1 tick, 2 failures |
| `outbox_live` | `StoreLoadable`, `InFlightBounded`, `EventuallyResolved` | 2 commands, limit 1, 1 failure, fair |
| `outbox_ack` | `AcceptedKeptUntilAck` is violated | 1 command |
| `outbox_windows` | `AcceptedIsDurable` is violated with `Windows = TRUE` | 2 commands, 1 failure |
| `projection` | `TypeOK`, `ServedIsOfThisConnection`, `ServedMatchesRelay`, `SnapshotWhole`, `ImplementsDelayedRoster` | 2 senders, 1 or 2 chunks, 3 changes, 4 frames in flight, 2 faults |
| `projection_live` | `EventuallyInSync` | 2 senders, 2 chunks, 2 changes, 2 faults, fair |
| `events` | `TypeOK`, `NoGap`, `WrittenIsFiltered`, `ClosedOnce` | 2 clients, 2 topics, buffer 2, 3 events, 1 reload |
| `events_live` | `SlotsBounded`, `CutStreamEnds` | 2 clients, 1 slot, buffer 1, 4 events, fair |
| `events_role` | `FilteredByRole` is violated | 1 client, 2 topics, 1 reload |
| `admission` | `TypeOK`, `WithdrawnIsRevoked`, `LiveGrantRevocable`, `GrantsHonourRoles`, `ReloadFollowsOneACL`, `EventuallyAdopted` | 2 requests, table of 1 grant, 4 file sets, 1 replacement, 1 fault, outbox of 1, deny window 3, lifetime 2, 2 ticks, fair |
| `admission_torn` | `AdoptsCompleteReplacement` is violated | the same file sets, 1 replacement |
| `recording` | `TypeOK`, `EndedIsTrue`, `EndedStays`, `EndIsRecorded` | 2 jobs, 2 channels, table of 1, 2 faults, fair |

Why the bounds are enough for what can go wrong:

- Two commands let one be sent, acknowledged or expired while the other is
  queued, refused, or in the loop; the limit is reached (2) or passed by a batch
  (1). Two failures allow a failed write and then a crash, or two lost
  connections; one tick lets deadlines pass between any two steps, and deadlines
  of one and two ticks let one command expire while the other lives. The proofs
  lift all of these bounds for the safety properties.
- Two senders and two chunks suffice to list one twice, to mix two snapshots and
  to let events of one overtake those of the other; four frames hold a snapshot
  with events before and after it. The Relay uses a snapshot ID once; the faults
  bound how many there are.
- A buffer of two, three events and two streams: one stream can be full while the
  other is not, be cut with events still buffered, and be reopened. `LastEventID`
  stands for the largest uint64, so exhaustion is part of every run.
- The file sets of `admission` give an operator service two scopes, none (the
  service disabled), a changed entry with another role, and an entry that does not
  validate. A replacement between two reads makes a mix: some mixes validate and
  are adopted, others do not, among them an ACL with a service that the services
  read before do not have. An outbox of one is filled by one revocation and
  exceeded by two, so a reload is turned back, tried again, or never fits. More
  replacements, which let a grant's basis go and come back, are left to the proofs.
- A window of three and a lifetime of two leave a slack of one tick: the request or
  the reload may take it, not both. Two requests meet a table of one grant: the
  second is refused while the first grant lives, through a tick, and finds room
  when it has expired and is cleaned up; or it is the administrator's and revokes.
- A table of one job is full at once; the second job exists because a restart
  empties the table. Two faults allow a misdirected event and a lost connection,
  or a restart, in one behaviour.

`Permutations` of commands, senders, and of clients and topics are used as
symmetry in the safety runs only. The deadlock check is on in every run but
`recording`: once the workers have ended and no fault is left, nothing happens.

### Fairness

- The goroutines of the service keep running: weak fairness of start, dial,
  hello, the steps of the send loop, `markDisconnected`, and the handlers' steps.
  `run` redials for ever with a back-off of at most 30 s.
- `ReceiveNotify` and the receipt of a reply are strongly fair: frames come in
  order and Go's select chooses among ready branches at random, so neither waits
  for ever behind lifecycle events.
- The reload goroutine runs at every interval and a supervisor starts the process
  again (`Reload`); commands leave the outbox (`Drain`), which CommandOutbox shows
  as `EventuallyResolved`. `EventuallyAdopted` also rests on the bounded number of
  requests: callers who keep the outbox full could hold a reload off.
- `Receive` of RecordingJobs: the session goroutine reads what has arrived.
  Nothing is assumed of callers, worker or network.
- Assumptions on others: the Relay answers what it reads; a client of a stream
  reads or hangs up (the server sets no write deadline, so a client that does
  neither keeps its handler).
- Nothing is assumed of the clock or of the callers. Failures are bounded by
  `MaxFaults`: liveness is claimed for the time after they stop.

## Findings

- `outbox_ack`: an error reply removes a command that was answered with 202. The
  repository's README says it remains queued pending the ACK.
- `outbox_windows`: on Windows `persist` removes the store before it renames the
  new file; if the rename fails, accepted commands are gone from the disk, until a
  later write succeeds.
- `events_role`: an open stream is filtered by the role of the moment it was
  opened, also after an ACL reload has taken the channel away.
- `admission_torn`: all three files replaced at once, between two of the reads of
  one pass: a mix of the old and the new files validates and is adopted. The
  repository's README says a complete replacement is adopted atomically. What the
  mix admits is nevertheless what one of the ACL files lists, and it revokes
  nothing that file does not withdraw: `ReloadFollowsOneACL`. The reason is that
  the services are read first and the ACL is validated against them. Certificates,
  roles and permissions may be of another version, until the next pass.

## What is proved

Every theorem is `Spec => []P` (or `Spec => P` for the refinement) and holds for
every value of the constants that the named assumption of the module admits;
`Spec` has no fairness. The bounds on time, faults, edits and the like are
constants too, so the theorems hold without any bound.

**CommandOutboxProofs**, from `OutboxAssumption`: `TypeCorrect`,
`CompletedIsFinalHolds`, `NoLostWakeupHolds`, `RepliesMatchPendingHolds`,
`WrittenOnceHolds`, `OkMeansAppliedHolds`, `StoreLoadableHolds`,
`InFlightBoundedHolds`, and `AcceptedIsDurableHolds` assuming `~Windows` (with
Windows it is false, as `outbox_windows` shows). Few of the properties are
inductive by themselves. `IInv` adds:

- `ProcessInv`: a process that is down has no queue and no session, and what the
  loop has left to visit is part of the queue (only the session removes commands);
- `LinkInv`: a command under way on the connection, in either direction, is there
  once, is still queued, and is in `sentCommands`. This is why a reply always
  finds its command, why expiry must not touch what was sent, and why what is in
  flight is bounded by the limit of the queue;
- `WakeInv`: in the middle of the loop without a token, every queued command has
  been sent or is still to be visited. At the end of the loop this is
  `NoLostWakeup`;
- `FreshInv`: an ID not drawn yet is nowhere, so queueing it cannot collide with
  a completed one;
- `AckInv`: an acknowledgement is true from the moment the Relay writes it,
  through the result channel, to the answer 200;
- `StoreLoadable`, by the cardinality theorems for finite sets.

Each part has its own step lemma with one case per action; `EnqueueEffect`,
`CompletedEffect`, `PersistShape` and `LoadShape` say once what the disk can do.

**OutboxLedgerProofs**: `ImplementsLedgerHolds`, CommandOutbox implements
RevocationLedger, assuming `~Windows`. `LedgerStep` maps each action to `Submit`,
`Work`, `Answer` or a stutter, with the invariants above and `ResultInv`: the
result waiting in a caller's channel is the verdict on its command.

**RelayProjectionProofs**, from `ProjectionAssumption`, with or without events
between chunks:

- `TypeCorrect`;
- `ServedIsOfThisConnectionHolds`, which needs that from `markDisconnected` to the
  next hello_ack the state is not connected;
- `SnapshotWholeHolds`: `OneSnapshot` (the chunks kept agree in snapshot_id and
  count and differ in index) is what the tests of `add` maintain; as many chunks
  as the count then have every index, by counting (`AllIndices`), and no chunk is
  taken after that (`NoChunkAfter`).

**ServedRosterProofs**: `ServedMatchesRelayHolds`, assuming
`EventsBetweenChunks = FALSE` (with `TRUE` it is false).

- `Replay`, a recursive function over the frames in flight, is unfolded at both
  ends (`ReplayAppend`, `ReplayTail`). The library's induction principles cannot be
  instantiated here, so `Induction` is derived from the least counterexample, for
  sets of numbers, and used for the existence and uniqueness of the function and
  for its type.
- `SyncAnnounced`: the events of a change, in either order, do to every roster in
  step with the Relay's what the change does to the Relay's.
- `RosterInv` is the inductive invariant. The property says nothing before a
  snapshot is applied, and the snapshot was taken earlier still; so the invariant
  follows each snapshot from its capture. The roster of its chunks, wherever they
  are (`Pending`), with the events written after its first chunk, is the Relay's:
  while it is being written (`UnsentInv`), from any of its chunks on the link
  (`FlightInv`), once some of them are read (`ReadInv`), and when it is applied
  (`AppliedInv`). This holds of snapshots that the Relay has not given up in the
  middle (`Full`); the others never become complete. `OrderInv` is where the
  assumption enters: an event that comes after one chunk of a snapshot comes after
  all of them. So an event handled before the snapshot is complete belongs to the
  time before it, and need not be applied to it (`EventRead`).
- TLC checked `RosterInv` on the instance of the run `projection`, with three
  faults, before it was proved.

**DelayedRosterProofs**: `ImplementsDelayedRosterHolds`, RelayProjection
implements DelayedRoster, under the same assumption. With `RosterInv` a completed
snapshot is a `Publish`; `NoChunkAfter` excludes that it ever meets a served
roster. `AheadConcat` and `AheadTail` make the Relay's writes a `Change` and
`recordLifecycleEvent` an `Advance`.

**LiveEventsProofs**, from `LiveEventsAssumption`: `TypeCorrect`,
`ClosedOnceHolds`, `SlotsBoundedHolds`, `NoGapHolds`, `WrittenIsFilteredHolds`.
Channels and slots hang together: a channel is in the hub only while its handler
streams or returns (`Owned`), which makes `ClosedOnce` inductive. What was written
is the ascending list (`Lists`) of the events selected so far: with `NoGap` the
next event taken is one more than the last, so appending it keeps the list
ascending and adds exactly it to the selection (`ListsAppend`).

**ServiceAdmissionProofs**, from `AdmissionAssumption` (the lifetime of a grant is
at most the deny window):

- `WithdrawnIsRevokedHolds`. The key is `Covered(id, e, x)`: a scope admitted at
  time x is admitted still, or a revocation of it until x plus the deny window,
  less the lag of the reloads, has been queued. It holds for what every handler has in hand since it
  authenticated (`HeldInv`) and so for every grant it issues, early or late
  (`GrantInv`); `QueueInv` says that between queueing and adoption all
  withdrawals are revoked already;
- `LiveGrantRevocableHolds`: the clean-up takes expired grants only (`TrackInv`);
- `GrantsHonourRolesHolds`: no unvalidated entry gets into an authorizer, an
  authorizer under way, or a handler's hands (`EntryInv`), although the files may
  change between the reads;
- `ReloadFollowsOneACLHolds`: from its second file on, a pass has in hand an ACL
  that was in place since it began and is valid for the services it has read,
  which may be older (`PassInv`). An ACL that is valid for some services loses no
  row to them (`LoadAdmitsListed`), so what is adopted admits all it lists, and a
  target of the reload is something it does not (`TargetIsWithdrawn`);
- `TypeCorrect`. The bound on the outbox needs that the revocations of a reload are
  finitely many: rows are sequences, so authorizers are finite sets, and so is what
  `managementAutomaticRevocations` draws from two of them (`RevocationsFinite`).

**RecordingJobsProofs**, from `JobsAssumption`: `TypeCorrect`,
`EndedIsTrueHolds`, `EndedStaysHolds`. `WireInv` is the strengthening: the event of
a job's end that the table will take is true and the last one of that job on the
wire. With it nothing is left on the wire that could set an ended job back.

Only model-checked are the liveness properties (fairness and ENABLED are outside
what the prover handles): `EventuallyResolved`, `EventuallyInSync`,
`CutStreamEnds`, `EventuallyAdopted`, `EndIsRecorded`. `EventuallyResolved` asks for
more than a verdict: the command is also gone from memory and store, so one that
stays queued because its completion could not be written does not count.

## Not modelled

- Byte framing, JSON scanning and field validation: sequential parsing. A bad
  frame ends the session, which `EndSession` and `LoseConnection` cover.
- The scope tests of the read handlers, methods and paths: each answer is one
  look-up in the record of the service, with no state to go wrong between.
- TLS, certificates, key loading, signing, CSV syntax, flags and environment.
- Blocking writes: a write here succeeds or ends the session. The service sets no
  read or write deadline on the PCL, so a Relay that stops reading while it is
  itself blocked writing would stop the session goroutine.
- The duration of anything but the deadlines. In particular nothing bounds how
  long a request is held while its body is read, which `WithdrawnIsRevoked` has as
  a condition.
- Withdrawals while the process is down are not noticed by the code; the property
  names these grants as its exception.
- Recording events whose state is one of the health states:
  `validPrivateControlLifecycleEvent` admits any known state for any event, and
  the job table would store it. The Relay is taken to send states of jobs.
- Sizes of socket buffers. `InFlightBounded` gives the amount that has to fit.

## Plan

Done: CommandOutbox, RevocationLedger and its refinement, RelayProjection,
DelayedRoster and its refinement, LiveEvents, Authorizer, ServiceAdmission and
RecordingJobs, each with its proofs. What is left, in order:

1. `PclSession`: outbox, projection, hub and jobs over one connection with bounded
   buffers in both directions, for mutual blocking. The models of today take a
   write to succeed or to end the session.
2. An abstract specification of one event stream (a filtered suffix of what was
   published, cut at most once) and LiveEvents as its refinement.
