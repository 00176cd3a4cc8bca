-------------------------- MODULE ServiceAdmission --------------------------
(***************************************************************************)
(* Service Admission grants and the reload of the ACL files that takes     *)
(* them back: serviceAdmissionGrantIssuer (service_admission_grants.go),   *)
(* the grant and revocation handlers (service_admission_api.go), and       *)
(* reloadAuthorizer (management_acl_reload.go) with the loading of the     *)
(* three files (management_api.go). Module Authorizer has the operators on *)
(* files and authorizers; module CommandOutbox has what becomes of a       *)
(* queued revocation, of which only the length of the queue is left here.  *)
(*                                                                         *)
(* Goroutines and how they appear here:                                    *)
(*   API handlers    Authenticate, then one of IssueGrant, Revoke, Finish  *)
(*   ACL reload      ReadServices .. Adopt, one pass of reloadAuthorizer   *)
(*   process, files  Crash, Start, Edit                                    *)
(*   PCL session     Drain (external here)                                 *)
(* A handler holds the service record it was authenticated with until it   *)
(* answers, and reads the body of the request in between, for which the    *)
(* server sets no time limit.                                              *)
(***************************************************************************)
EXTENDS Authorizer, FiniteSets

CONSTANTS
  FileSets,       \* what an operator puts in place of the three files
  FirstFiles,     \* the files in place when the process first starts
  Requests,       \* bound: API requests, each with the grant ID it would draw
  DenyWindow,     \* managementServiceAdmissionMaximumDenyWindow, in ticks
  GrantLifetime,  \* issuer.lifetime, in ticks
  MaxTracked,     \* serviceAdmissionGrantMaximumTracked
  MaxPending,     \* privateControlMaxPendingCommands
  MaxTime,        \* bound: the clock stops here
  MaxEdits,       \* bound: replacements of the files
  MaxFaults       \* bound: crashes and failed writes of the command store

(***************************************************************************)
(* serviceAdmissionGrantMaximumLifetime is one hour, the deny window 90    *)
(* minutes.                                                                *)
(***************************************************************************)
ASSUME AdmissionAssumption ==
  /\ FileSets \subseteq Files
  /\ FirstFiles \in FileSets
  /\ Valid(FirstFiles)
  /\ DenyWindow \in Nat
  /\ GrantLifetime \in Nat \ {0}
  /\ GrantLifetime <= DenyWindow
  /\ MaxTracked \in Nat
  /\ MaxPending \in Nat
  /\ MaxTime \in Nat
  /\ MaxEdits \in Nat
  /\ MaxFaults \in Nat

VARIABLES
  now,         \* time.Now().Unix()
  files,       \* the three files on disk
  edits,       \* replacements of the files so far
  up,          \* the process runs
  boot,        \* restarts so far
  failures,    \* failed writes of the command store so far
  authorizer,  \* a.authorizer; while down, the one the process had
  reload,      \* reloadAuthorizer: where it stands
  read,        \* reloadAuthorizer: the files it has read
  queuedAt,    \* reloadAuthorizer: the time denyUntil was computed from
  queued,      \* commands in the outbox
  held,        \* requests that are authenticated and not answered
  answered,    \* requests that issued or revoked, or met a limit
  tracked,     \* issuer.issued
  grants,      \* history: grants handed out
  revoked,     \* history: revocations a reload queued: scope and denyUntil
  lag,         \* history: longest time from denyUntil computed to adoption
  unnoticed,   \* history: grants whose scope was withdrawn while down
  seen         \* history: files in place since this pass over them began

diskVars    == <<files, edits>>
processVars == <<up, boot, failures>>
reloadVars  == <<authorizer, reload, read, queuedAt>>
grantVars   == <<held, answered, tracked, grants>>
historyVars == <<revoked, lag, unnoticed, seen>>

vars == <<now, diskVars, processVars, reloadVars, queued, grantVars, historyVars>>

ReloadStates == {"idle", "acl", "permissions", "queue", "adopt"}

Unread   == [readable |-> FALSE, rows |-> <<>>]
NoFiles  == [services |-> Unread, acl |-> Unread, permissions |-> Unread]

GrantPermissions == {"listen", "talk", "interrupt"}

Grants ==
  [id : Requests, service : Services, entry : Entries,
   permissions : SUBSET GrantPermissions, since : Nat, issued : Nat, boot : Nat]

Expires(g) == g.issued + GrantLifetime

TypeOK ==
  /\ now \in Nat
  /\ files \in FileSets
  /\ edits \in Nat
  /\ up \in BOOLEAN
  /\ boot \in Nat
  /\ failures \in Nat
  /\ authorizer \subseteq ServiceRecords
  /\ reload \in ReloadStates
  /\ read \in Files
  /\ queuedAt \in Nat
  /\ queued \in 0 .. MaxPending
  /\ held \subseteq [request : Requests, service : ServiceRecords, since : Nat]
  /\ answered \subseteq Requests
  /\ grants \subseteq Grants
  /\ tracked \subseteq grants
  /\ revoked \subseteq [service : Services, channel : Channels, until : Nat]
  /\ lag \in Nat
  /\ unnoticed \subseteq grants
  /\ seen \subseteq FileSets

Init ==
  /\ now = 0
  /\ files = FirstFiles
  /\ edits = 0
  /\ up = TRUE
  /\ boot = 0
  /\ failures = 0
  /\ authorizer = Load(files)
  /\ reload = "idle"
  /\ read = NoFiles
  /\ queuedAt = 0
  /\ queued = 0
  /\ held = {}
  /\ answered = {}
  /\ tracked = {}
  /\ grants = {}
  /\ revoked = {}
  /\ lag = 0
  /\ unnoticed = {}
  /\ seen = {files}

-----------------------------------------------------------------------------
(***************************************************************************)
(* The files. An operator replaces all of them in one step, which is the   *)
(* most that README.md asks for.                                           *)
(***************************************************************************)
Edit(f) ==
  /\ edits < MaxEdits
  /\ f # files
  /\ files' = f
  /\ edits' = edits + 1
  /\ seen' = seen \cup {f}
  /\ UNCHANGED <<now, processVars, reloadVars, queued, grantVars, revoked, lag,
                 unnoticed>>

-----------------------------------------------------------------------------
(***************************************************************************)
(* reloadAuthorizer, at every tick of the reload interval. It opens and    *)
(* validates the files one after the other, with the disk free to change   *)
(* in between; an error leaves everything as it was until the next tick.   *)
(* A process that starts loads them in the same way, and exits on an error *)
(* for the supervisor to try again.                                        *)
(***************************************************************************)
\* Mutant: an invalid file is waited for, with what was read before it.
ProceedOrWait(ok, at, content) == ok /\ reload' = at /\ read' = content

Proceed(ok, at, content) ==
  IF ok THEN reload' = at /\ read' = content
        ELSE reload' = "idle" /\ read' = NoFiles

ReadServices ==
  /\ reload = "idle"
  /\ Proceed(ValidServices(files.services), "acl",
             [NoFiles EXCEPT !.services = files.services])
  /\ seen' = {files}
  /\ UNCHANGED <<now, diskVars, processVars, authorizer, queuedAt, queued,
                 grantVars, revoked, lag, unnoticed>>

ReadACL ==
  /\ reload = "acl"
  /\ Proceed(ValidACL(read.services, files.acl), "permissions",
             [read EXCEPT !.acl = files.acl])
  /\ UNCHANGED <<now, diskVars, processVars, authorizer, queuedAt, queued,
                 grantVars, historyVars>>

ReadPermissions ==
  /\ reload = "permissions"
  /\ Proceed(ValidPermissions(read.services, files.permissions), "queue",
             [read EXCEPT !.permissions = files.permissions])
  /\ UNCHANGED <<now, diskVars, processVars, authorizer, queuedAt, queued,
                 grantVars, historyVars>>

(***************************************************************************)
(* The revocations are queued as one batch (queueServiceAdmissionRevocations *)
(* is QueueBatch of CommandOutbox) before the authorizer is replaced. The  *)
(* batch may exceed the limit of the queue or meet a failed write.         *)
(***************************************************************************)
Targets == managementAutomaticRevocations(authorizer, Load(read))

Denials(targets) ==
  {[service |-> t.service, channel |-> t.channel, until |-> now + DenyWindow] :
     t \in targets}

QueueRevocations ==
  /\ up
  /\ reload = "queue"
  /\ queued + Cardinality(Targets) <= MaxPending
  /\ reload' = "adopt"
  /\ queuedAt' = IF Targets = {} THEN queuedAt ELSE now
  /\ queued' = queued + Cardinality(Targets)
  /\ revoked' = revoked \cup Denials(Targets)
  /\ UNCHANGED <<now, diskVars, processVars, authorizer, read, grantVars,
                 lag, unnoticed, seen>>

QueueFull ==
  /\ up
  /\ reload = "queue"
  /\ queued + Cardinality(Targets) > MaxPending
  /\ reload' = "idle"
  /\ read' = NoFiles
  /\ UNCHANGED <<now, diskVars, processVars, authorizer, queuedAt, queued,
                 grantVars, historyVars>>

QueueFailure ==
  /\ up
  /\ reload = "queue"
  /\ Targets # {}
  /\ boot + failures < MaxFaults
  /\ failures' = failures + 1
  /\ reload' = "idle"
  /\ read' = NoFiles
  /\ UNCHANGED <<now, diskVars, up, boot, authorizer, queuedAt, queued,
                 grantVars, historyVars>>

Adopt ==
  /\ reload = "adopt"
  /\ authorizer' = Load(read)
  /\ reload' = "idle"
  /\ read' = NoFiles
  /\ queuedAt' = 0
  /\ lag' = IF Targets # {} /\ now - queuedAt > lag THEN now - queuedAt ELSE lag
  /\ UNCHANGED <<now, diskVars, processVars, queued, grantVars, revoked, unnoticed,
                 seen>>

\* The outbox sends a command and gives it up on a reply of either kind, or at
\* its deadline: what was queued is not thereby in force.
Drain ==
  /\ up
  /\ queued > 0
  /\ queued' = queued - 1
  /\ UNCHANGED <<now, diskVars, processVars, reloadVars, grantVars,
                 historyVars>>

-----------------------------------------------------------------------------
(***************************************************************************)
(* Requests. authenticate looks the certificate up under the read lock and *)
(* hands the service record to the handler.                                *)
(***************************************************************************)
Authenticate(r, cert) ==
  /\ up
  /\ r \notin answered
  /\ \A h \in held : h.request # r
  /\ \E s \in serviceForRequest(authorizer, cert) :
       held' = held \cup {[request |-> r, service |-> s, since |-> now]}
  /\ UNCHANGED <<now, diskVars, processVars, reloadVars, queued, answered,
                 tracked, grants, historyVars>>

(***************************************************************************)
(* Any answer that changes nothing: a wrong method, body or scope, or      *)
(* another resource.                                                       *)
(***************************************************************************)
Finish(h) ==
  /\ held' = held \ {h}
  /\ UNCHANGED <<now, diskVars, processVars, reloadVars, queued, answered,
                 tracked, grants, historyVars>>

Answer(h) ==
  /\ held' = held \ {h}
  /\ answered' = answered \cup {h.request}

Unexpired == {g \in tracked : Expires(g) > now}

(***************************************************************************)
(* handleServiceAdmissionGrant and issue, for an entry of the service's    *)
(* ACL and the role it names; the caller asks for talk and interrupt.      *)
(***************************************************************************)
Allows(e, wanted) ==
  /\ "listen" \in wanted /\ e.listen
  /\ "talk" \in wanted => e.talk
  /\ "interrupt" \in wanted => "talk" \in wanted /\ e.interrupt /\ e.priority # 0

\* Mutant: a full table makes room by forgetting what is in it.
issueEvicting(g) ==
  /\ tracked' = IF Cardinality(Unexpired) >= MaxTracked THEN {g} ELSE Unexpired \cup {g}
  /\ grants' = grants \cup {g}

issue(g) ==
  IF Cardinality(Unexpired) >= MaxTracked
  THEN tracked' = Unexpired /\ grants' = grants
  ELSE tracked' = Unexpired \cup {g} /\ grants' = grants \cup {g}

IssueGrant(h, e, wanted) ==
  /\ canRequestGrants(h.service)
  /\ e \in h.service.admissions
  /\ Allows(e, wanted)
  /\ Answer(h)
  /\ issue([id |-> h.request, service |-> h.service.id, entry |-> e,
            permissions |-> wanted, since |-> h.since, issued |-> now, boot |-> boot])
  /\ UNCHANGED <<now, diskVars, processVars, reloadVars, queued, historyVars>>

(***************************************************************************)
(* A revocation request names a service, a grant or both: "service" and    *)
(* "grant" are sets of at most one element.                                *)
(***************************************************************************)
validateServiceAdmissionRevocation(r) ==
  /\ r.until > now
  /\ r.until <= now + DenyWindow
  /\ r.service # {} \/ r.grant # {}
  /\ \A id \in r.grant : \E g \in Unexpired :
       /\ g.id = id
       /\ g.entry.channel = r.channel
       /\ r.service \subseteq {g.service}
       /\ r.until <= Expires(g)

RevocationRequests ==
  [channel : Channels, service : {{}} \cup {{s} : s \in Services},
   grant : {{}} \cup {{id} : id \in Requests}, until : now + 1 .. now + DenyWindow]

\* Mutant: the limit of the queue is not tested.
WithOneMoreAlways == queued + 1

WithOneMore == IF queued < MaxPending THEN queued + 1 ELSE queued

\* The limit of the queue or a failed write of the store refuses the command.
Revoke(h, r) ==
  /\ canRevoke(h.service)
  /\ validateServiceAdmissionRevocation(r)
  /\ Answer(h)
  /\ queued' \in {queued, WithOneMore}
  /\ tracked' = IF r.grant = {} THEN tracked ELSE Unexpired
  /\ UNCHANGED <<now, diskVars, processVars, reloadVars, grants, historyVars>>

-----------------------------------------------------------------------------
(***************************************************************************)
(* The process dies; the outbox is on disk. newManagementAPI takes the     *)
(* files it has loaded: there is no authorizer to compare them with.       *)
(***************************************************************************)
Crash ==
  /\ up
  /\ boot + failures < MaxFaults
  /\ up' = FALSE
  /\ boot' = boot + 1
  /\ reload' = "idle"
  /\ read' = NoFiles
  /\ queuedAt' = 0
  /\ held' = {}
  /\ tracked' = {}
  /\ UNCHANGED <<now, diskVars, failures, authorizer, queued, answered, grants,
                 historyVars>>

Start ==
  /\ ~up
  /\ reload = "queue"
  /\ up' = TRUE
  /\ authorizer' = Load(read)
  /\ reload' = "idle"
  /\ read' = NoFiles
  /\ unnoticed' = unnoticed \cup
       {g \in grants : /\ Admits(authorizer, g.service, g.entry)
                       /\ ~Admits(Load(read), g.service, g.entry)}
  /\ UNCHANGED <<now, diskVars, boot, failures, queuedAt, queued, grantVars,
                 revoked, lag, seen>>

Tick ==
  /\ now < MaxTime
  /\ now' = now + 1
  /\ UNCHANGED <<diskVars, processVars, reloadVars, queued, grantVars, historyVars>>

-----------------------------------------------------------------------------
Reload ==
  \/ ReadServices \/ ReadACL \/ ReadPermissions
  \/ QueueRevocations \/ QueueFull \/ Adopt \/ Start

Next ==
  \/ \E f \in FileSets : Edit(f)
  \/ ReadServices \/ ReadACL \/ ReadPermissions
  \/ QueueRevocations \/ QueueFull \/ QueueFailure \/ Adopt
  \/ Drain
  \/ \E r \in Requests, cert \in Certs : Authenticate(r, cert)
  \/ \E h \in held : Finish(h)
  \/ \E h \in held, wanted \in SUBSET GrantPermissions :
       \E e \in h.service.admissions : IssueGrant(h, e, wanted)
  \/ \E h \in held, r \in RevocationRequests : Revoke(h, r)
  \/ Crash \/ Start \/ Tick

Spec == Init /\ [][Next]_vars

(***************************************************************************)
(* Fairness. The reload goroutine runs at every tick of its interval, a    *)
(* supervisor starts the process again, and CommandOutbox shows that the   *)
(* outbox drains. Requests, MaxEdits and MaxFaults bound what may keep the *)
(* outbox full or turn the reload back.                                    *)
(***************************************************************************)
Fairness == WF_vars(Reload) /\ WF_vars(Drain)

FairSpec == Spec /\ Fairness

-----------------------------------------------------------------------------
(***************************************************************************)
(* Properties.                                                             *)
(***************************************************************************)

\* The time the request of a grant took, from authenticate to issue.
Held(g) == g.issued - g.since

RevocationQueued(g) ==
  \E d \in revoked : /\ d.service = g.service
                    /\ d.channel = g.entry.channel
                    /\ d.until >= Expires(g)

\* For a grant whose ACL entry has been withdrawn a revocation has been queued
\* that denies it for as long as it lives, also when a handler that was
\* authenticated before the reload issues the grant afterwards. (What becomes of
\* a queued command is CommandOutbox's: an error reply gives it up.) It needs the
\* request and the reload to take together no longer than the deny window exceeds
\* the lifetime (half an hour at least), and a process that sees the withdrawal:
\* a restart compares with nothing.
WithdrawnIsRevoked ==
  \A g \in grants :
    Expires(g) > now /\ Held(g) + lag + GrantLifetime <= DenyWindow =>
      \/ Admits(authorizer, g.service, g.entry)
      \/ RevocationQueued(g)
      \/ g \in unnoticed

\* Every live grant of this process can be revoked by its hash until it expires:
\* the table of issued grants has not lost it to its limit or to the clean-up,
\* and the deny window admits the deadline.
LiveGrantRevocable ==
  \A g \in grants : up /\ g.boot = boot /\ Expires(g) > now =>
    validateServiceAdmissionRevocation(
      [channel |-> g.entry.channel, service |-> {}, grant |-> {g.id},
       until |-> Expires(g)])

\* issue hands out no recorder or observer grant that can talk, and no interrupt
\* without talk and a priority: no row of a file that was rejected, or accepted
\* against other services than its own, reaches a handler unvalidated.
GrantsHonourRoles ==
  \A g \in grants :
    /\ g.entry.role # "automation" => g.permissions = {"listen"}
    /\ "interrupt" \in g.permissions => "talk" \in g.permissions /\ g.entry.priority > 0

\* A pass that reads its files at different times follows one version of the
\* ACL all the same: what it adopts admits exactly the enabled rows of an ACL
\* that was in place during the pass, and what it revokes that ACL withdraws. The
\* rows of one version are validated against the services of an earlier one, and
\* none is accepted that those services would leave without effect.
ReloadFollowsOneACL ==
  [][/\ authorizer' # authorizer =>
          \E f \in seen : Admitted(authorizer') = Listed(f.acl)
     /\ revoked' # revoked =>
          \E f \in seen : \A d \in revoked' \ revoked :
            \E x \in Admitted(authorizer) \ Listed(f.acl) :
              x.service = d.service /\ x.entry.channel = d.channel]_vars

\* Files that validate are adopted in the end, through failed writes, crashes
\* and a full outbox, unless they withdraw more scopes than the outbox holds.
EventuallyAdopted ==
  <>[](Valid(files) =>
         /\ up
         /\ \/ authorizer = Load(files)
            \/ Cardinality(managementAutomaticRevocations(authorizer, Load(files)))
                 > MaxPending)

\* What README.md says of the reload: "atomically adopts a complete replacement
\* of all three ACL CSVs". The authorizer is the one of files that were in place
\* together.
AdoptsCompleteReplacement == \E f \in FileSets : authorizer = Load(f)
=============================================================================
