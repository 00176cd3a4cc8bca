----------------------- MODULE ServiceAdmissionProofs -----------------------
(***************************************************************************)
(* Proofs about ServiceAdmission, for any files, services, channels,       *)
(* requests, limits and number of faults, and any deny window that is no   *)
(* shorter than the lifetime of a grant.                                   *)
(***************************************************************************)
EXTENDS ServiceAdmission, FiniteSetTheorems, SequenceTheorems, TLAPS

-----------------------------------------------------------------------------
(***************************************************************************)
(* Types of what the properties need. TypeOK, with the bound on the outbox, *)
(* is at the end.                                                          *)
(***************************************************************************)
HeldRequests == [request : Requests, service : ServiceRecords, since : Nat]
RevokedScopes == [service : Services, channel : Channels, until : Nat]

Types ==
  /\ now \in Nat /\ boot \in Nat /\ queuedAt \in Nat /\ lag \in Nat
  /\ files \in Files /\ read \in Files
  /\ authorizer \subseteq ServiceRecords
  /\ held \subseteq HeldRequests
  /\ grants \subseteq Grants
  /\ revoked \subseteq RevokedScopes

\* A process that is down, or starts, holds no request.
DownInv == ~up => held = {}

\* The rows of a file are rows.
LEMMA RowsType ==
  ASSUME NEW Rows, NEW f \in File(Rows)
  PROVE  RowsOf(f) \subseteq Rows
<1>1. f.rows \in Seq(Rows)
  BY DEF File
<1>2. \A i \in DOMAIN f.rows : f.rows[i] \in Rows
  BY <1>1
<1>3. QED
  BY <1>2 DEF RowsOf, Range

\* A service record.
LEMMA RecordType ==
  ASSUME NEW id \in Services, NEW cert \in Certs, NEW role \in APIRoles,
         NEW enabled \in BOOLEAN, NEW as \in SUBSET Entries, NEW ps \in SUBSET Permissions
  PROVE  [id |-> id, cert |-> cert, role |-> role, enabled |-> enabled,
          admissions |-> as, permissions |-> ps] \in ServiceRecords
BY DEF ServiceRecords

\* The authorizer of three files has service records.
LEMMA LoadType ==
  ASSUME NEW f \in Files
  PROVE  Load(f) \subseteq ServiceRecords
<1>1. /\ RowsOf(f.services) \subseteq ServiceRows
      /\ RowsOf(f.acl) \subseteq ACLRows
      /\ RowsOf(f.permissions) \subseteq PermissionRows
  BY RowsType DEF Files
<1>2. ASSUME NEW row \in ServiceRows
      PROVE  ServiceOf(row, f.acl, f.permissions) \in ServiceRecords
  <2> DEFINE as == {r.entry : r \in {x \in RowsOf(f.acl) : x.service = row.id /\ x.enabled}}
             ps == {r.permission : r \in {x \in RowsOf(f.permissions) :
                                            x.service = row.id /\ x.enabled}}
  <2>1. as \in SUBSET Entries
    BY <1>1 DEF ACLRows
  <2>2. ps \in SUBSET Permissions
    BY <1>1 DEF PermissionRows
  <2>3. ServiceOf(row, f.acl, f.permissions) =
          [id |-> row.id, cert |-> row.cert, role |-> row.role, enabled |-> row.enabled,
           admissions |-> as, permissions |-> ps]
    BY DEF ServiceOf
  <2> HIDE DEF as, ps
  <2>4. /\ row.id \in Services /\ row.cert \in Certs
        /\ row.role \in APIRoles /\ row.enabled \in BOOLEAN
    BY DEF ServiceRows
  <2>5. QED
    BY <2>1, <2>2, <2>3, <2>4, RecordType
<1>3. QED
  BY <1>1, <1>2 DEF Load

\* Nothing read is a possible content of read.
LEMMA NoFilesType == NoFiles \in Files
<1>1. \A Rows : Unread \in File(Rows)
  BY EmptySeq DEF Unread, File
<1>2. QED
  BY <1>1 DEF NoFiles, Files

\* Every action of the reload reads what is on disk or nothing.
LEMMA ReadType ==
  ASSUME Types, ReadServices \/ ReadACL \/ ReadPermissions
  PROVE  read' \in Files
<1>1. NoFiles \in Files /\ files \in Files /\ read \in Files
  BY NoFilesType DEF Types
<1>2. \/ read' = NoFiles
      \/ read' = [NoFiles EXCEPT !.services = files.services]
      \/ read' = [read EXCEPT !.acl = files.acl]
      \/ read' = [read EXCEPT !.permissions = files.permissions]
  BY DEF ReadServices, ReadACL, ReadPermissions, Proceed
<1>3. QED
  BY <1>1, <1>2 DEF Files

\* Revocations name services and channels.
LEMMA TargetsType ==
  ASSUME Types, NEW t \in Targets
  PROVE  t.service \in Services /\ t.channel \in Channels
<1>1. PICK s \in authorizer :
        \E e \in Withdrawn(s, Load(read)) : t = Target(s, e, Load(read))
  BY DEF Targets, managementAutomaticRevocations
<1>2. PICK e \in s.admissions : t = Target(s, e, Load(read))
  BY <1>1 DEF Withdrawn
<1>3. s.id \in Services /\ e \in Entries
  BY DEF Types, ServiceRecords
<1>4. e.channel \in Channels
  BY <1>3 DEF Entries
<1>5. QED
  BY <1>2, <1>3, <1>4 DEF Target

\* What is queued as revoked are scopes with a deadline.
LEMMA DenialsType ==
  ASSUME Types
  PROVE  Denials(Targets) \subseteq RevokedScopes
<1>1. now + DenyWindow \in Nat
  BY AdmissionAssumption DEF Types
<1>2. QED
  BY <1>1, TargetsType DEF Denials, RevokedScopes

\* A held request is one.
LEMMA HeldType ==
  ASSUME NEW h \in HeldRequests
  PROVE  /\ h.request \in Requests /\ h.service \in ServiceRecords /\ h.since \in Nat
         /\ h.service.id \in Services /\ h.service.admissions \subseteq Entries
<1>1. h.service \in ServiceRecords
  BY DEF HeldRequests
<1>2. QED
  BY <1>1 DEF HeldRequests, ServiceRecords

\* The grant that issue makes.
NewGrant(h, e, wanted) ==
  [id |-> h.request, service |-> h.service.id, entry |-> e, permissions |-> wanted,
   since |-> h.since, issued |-> now, boot |-> boot]

\* issue hands out nothing or NewGrant.
LEMMA IssueEffect ==
  ASSUME Types, NEW h \in held, NEW e \in h.service.admissions,
         NEW wanted \in SUBSET GrantPermissions, IssueGrant(h, e, wanted)
  PROVE  /\ NewGrant(h, e, wanted) \in Grants
         /\ \/ grants' = grants /\ tracked' = Unexpired
            \/ /\ grants' = grants \cup {NewGrant(h, e, wanted)}
               /\ tracked' = Unexpired \cup {NewGrant(h, e, wanted)}
         /\ held' \subseteq held
         /\ Allows(e, wanted)
         /\ UNCHANGED <<now, diskVars, processVars, reloadVars, queued, historyVars>>
<1>1. h \in HeldRequests
  BY DEF Types
<1>2. /\ h.request \in Requests /\ h.service.id \in Services /\ h.since \in Nat
      /\ e \in Entries
  BY <1>1, HeldType
<1>3. NewGrant(h, e, wanted) \in Grants
  BY <1>2 DEF NewGrant, Grants, Types
<1>4. QED
  BY <1>3 DEF IssueGrant, Answer, issue, NewGrant

\* Every action keeps the types.
LEMMA TypeStep == Types /\ [Next]_vars => Types'
<1> SUFFICES ASSUME Types, [Next]_vars PROVE Types'
  OBVIOUS
<1> USE DEF diskVars, processVars, reloadVars, grantVars, historyVars
<1>1. ASSUME NEW f \in FileSets, Edit(f) PROVE Types'
  BY <1>1, AdmissionAssumption DEF Edit, Types
<1>2. CASE ReadServices \/ ReadACL \/ ReadPermissions
  <2>1. read' \in Files
    BY <1>2, ReadType
  <2>2. QED
    BY <1>2, <2>1 DEF ReadServices, ReadACL, ReadPermissions, Types
<1>3. CASE QueueRevocations
  <2>1. revoked' \subseteq RevokedScopes
    BY <1>3, DenialsType DEF QueueRevocations, Types
  <2>2. queuedAt' \in Nat
    BY <1>3 DEF QueueRevocations, Types
  <2>3. QED
    BY <1>3, <2>1, <2>2 DEF QueueRevocations, Types
<1>4. CASE QueueFull \/ QueueFailure
  BY <1>4, NoFilesType DEF QueueFull, QueueFailure, Types
<1>5. CASE Adopt
  <2>1. lag' \in Nat
    BY <1>5 DEF Adopt, Types
  <2>2. authorizer' \subseteq ServiceRecords
    BY <1>5, LoadType DEF Adopt, Types
  <2>3. QED
    BY <1>5, <2>1, <2>2, NoFilesType DEF Adopt, Types
<1>6. CASE Drain
  BY <1>6 DEF Drain, Types
<1>7. ASSUME NEW r \in Requests, NEW cert \in Certs, Authenticate(r, cert) PROVE Types'
  <2>1. PICK s \in authorizer :
          held' = held \cup {[request |-> r, service |-> s, since |-> now]}
    BY <1>7 DEF Authenticate, serviceForRequest
  <2>2. [request |-> r, service |-> s, since |-> now] \in HeldRequests
    BY DEF Types, HeldRequests
  <2>3. held' \subseteq HeldRequests
    BY <2>1, <2>2 DEF Types
  <2>4. QED
    BY <1>7, <2>3 DEF Authenticate, Types
<1>8. ASSUME NEW h \in held, Finish(h) PROVE Types'
  BY <1>8 DEF Finish, Types
<1>9. ASSUME NEW h \in held, NEW wanted \in SUBSET GrantPermissions,
             NEW e \in h.service.admissions, IssueGrant(h, e, wanted)
      PROVE  Types'
  <2>1. grants' \subseteq Grants /\ held' \subseteq HeldRequests
    BY <1>9, IssueEffect DEF Types
  <2>2. QED
    BY <1>9, <2>1 DEF IssueGrant, Types
<1>10. ASSUME NEW h \in held, NEW r \in RevocationRequests, Revoke(h, r) PROVE Types'
  BY <1>10 DEF Revoke, Answer, Types
<1>11. CASE Crash
  BY <1>11, NoFilesType DEF Crash, Types
<1>12. CASE Start
  <2>1. authorizer' \subseteq ServiceRecords
    BY <1>12, LoadType DEF Start, Types
  <2>2. QED
    BY <1>12, <2>1, NoFilesType DEF Start, Types
<1>13. CASE Tick
  BY <1>13 DEF Tick, Types
<1>14. CASE UNCHANGED vars
  BY <1>14 DEF vars, Types
<1>15. QED
  BY <1>1, <1>2, <1>3, <1>4, <1>5, <1>6, <1>7, <1>8, <1>9, <1>10, <1>11, <1>12, <1>13,
     <1>14 DEF Next

\* The types hold at the start.
LEMMA TypeInit == Init => Types
<1> SUFFICES ASSUME Init PROVE Types
  OBVIOUS
<1>1. FirstFiles \in Files
  BY AdmissionAssumption
<1>2. authorizer \subseteq ServiceRecords
  BY <1>1, LoadType DEF Init
<1>3. QED
  BY <1>1, <1>2, NoFilesType DEF Init, Types

-----------------------------------------------------------------------------
(***************************************************************************)
(* A withdrawn grant is revoked.                                           *)
(***************************************************************************)

\* The scope that was admitted at time x is admitted still, or it is revoked for
\* a deny window from x on, but for the time reloads take to adopt.
Covered(id, e, x) ==
  \/ Admits(authorizer, id, e)
  \/ \E d \in revoked : /\ d.service = id /\ d.channel = e.channel
                       /\ d.until + lag >= x + DenyWindow

\* What a handler may still grant is covered from the moment it authenticated.
HeldInv ==
  \A h \in held : /\ h.since <= now
                  /\ \A e \in h.service.admissions : Covered(h.service.id, e, h.since)

GrantInv ==
  \A g \in grants : /\ g.since <= now
                    /\ Covered(g.service, g.entry, g.since) \/ g \in unnoticed

\* Between the queueing and the adoption all withdrawals are revoked already.
QueueInv ==
  reload = "adopt" =>
    \A t \in Targets : \E d \in revoked : /\ d.service = t.service
                                         /\ d.channel = t.channel
                                         /\ d.until = queuedAt + DenyWindow

DenyInv == DownInv /\ QueueInv /\ HeldInv /\ GrantInv

\* A covered scope stays covered while the authorizer is the same.
LEMMA CoveredStays ==
  ASSUME Types, Types', authorizer' = authorizer, revoked \subseteq revoked', lag' >= lag,
         NEW id, NEW e, NEW x \in Nat, Covered(id, e, x)
  PROVE  Covered(id, e, x)'
<1>1. CASE Admits(authorizer, id, e)
  BY <1>1 DEF Covered, Admits
<1>2. ASSUME NEW d \in revoked, d.service = id, d.channel = e.channel,
             d.until + lag >= x + DenyWindow
      PROVE  Covered(id, e, x)'
  <2>1. d \in revoked' /\ d.until \in Nat /\ lag \in Nat /\ lag' \in Nat
    BY DEF Types, RevokedScopes
  <2>2. d.until + lag' >= x + DenyWindow
    BY <1>2, <2>1, AdmissionAssumption
  <2>3. QED
    BY <1>2, <2>1, <2>2 DEF Covered
<1>3. QED
  BY <1>1, <1>2 DEF Covered

\* A scope that is withdrawn is among the targets of the reload.
LEMMA WithdrawnIsTarget ==
  ASSUME NEW id, NEW e, Admits(authorizer, id, e), ~Admits(Load(read), id, e)
  PROVE  \E t \in Targets : t.service = id /\ t.channel = e.channel
<1>1. PICK s \in authorizer : s.id = id /\ s.enabled /\ e \in s.admissions
  BY DEF Admits
<1>2. e \in Withdrawn(s, Load(read))
  BY <1>1 DEF Withdrawn
<1>3. Target(s, e, Load(read)) \in Targets
  BY <1>1, <1>2 DEF Targets, managementAutomaticRevocations
<1>4. Target(s, e, Load(read)).service = id /\ Target(s, e, Load(read)).channel = e.channel
  BY <1>1 DEF Target
<1>5. QED
  BY <1>3, <1>4

\* Adoption keeps what it does not withdraw, and has revoked what it does.
LEMMA CoveredByAdopt ==
  ASSUME Types, Types', QueueInv, Adopt,
         NEW id, NEW e, NEW x \in Nat, x <= now, Covered(id, e, x)
  PROVE  Covered(id, e, x)'
<1>1. /\ reload = "adopt" /\ authorizer' = Load(read) /\ revoked' = revoked
      /\ lag' = IF Targets # {} /\ now - queuedAt > lag THEN now - queuedAt ELSE lag
  BY DEF Adopt
<1>2. now \in Nat /\ queuedAt \in Nat /\ lag \in Nat /\ lag' \in Nat /\ DenyWindow \in Nat
  BY AdmissionAssumption DEF Types
<1>3. lag' >= lag /\ (Targets # {} => lag' >= now - queuedAt)
  BY <1>1, <1>2
<1>4. ASSUME NEW d \in revoked, d.service = id, d.channel = e.channel,
             d.until + lag' >= x + DenyWindow
      PROVE  Covered(id, e, x)'
  BY <1>1, <1>4 DEF Covered
<1>5. ASSUME NEW d \in revoked, d.service = id, d.channel = e.channel,
             d.until + lag >= x + DenyWindow
      PROVE  Covered(id, e, x)'
  <2>1. d.until \in Nat
    BY DEF Types, RevokedScopes
  <2>2. d.until + lag' >= x + DenyWindow
    BY <1>2, <1>3, <1>5, <2>1
  <2>3. QED
    BY <1>4, <1>5, <2>2
<1>6. CASE Admits(Load(read), id, e)
  BY <1>1, <1>6 DEF Covered, Admits
<1>7. CASE Admits(authorizer, id, e) /\ ~Admits(Load(read), id, e)
  <2>1. PICK t \in Targets : t.service = id /\ t.channel = e.channel
    BY <1>7, WithdrawnIsTarget
  <2>2. PICK d \in revoked : /\ d.service = id /\ d.channel = e.channel
                            /\ d.until = queuedAt + DenyWindow
    BY <1>1, <2>1 DEF QueueInv
  <2>3. d.until + lag' >= x + DenyWindow
    BY <1>2, <1>3, <2>1, <2>2
  <2>4. QED
    BY <1>4, <2>2, <2>3
<1>8. QED
  BY <1>5, <1>6, <1>7 DEF Covered

\* A step that keeps the authorizer, takes no request in and grants nothing.
LEMMA CoverFrame ==
  ASSUME Types, Types', HeldInv, GrantInv,
         authorizer' = authorizer, revoked \subseteq revoked', lag' >= lag, now' >= now,
         held' \subseteq held, grants' = grants, unnoticed' = unnoticed
  PROVE  HeldInv' /\ GrantInv'
<1>1. now \in Nat /\ now' \in Nat
  BY DEF Types
<1>2. ASSUME NEW h \in held'
      PROVE  /\ h.since <= now'
             /\ \A e \in h.service.admissions : Covered(h.service.id, e, h.since)'
  <2>1. h \in held /\ h.since \in Nat
    BY HeldType DEF Types
  <2>2. h.since <= now'
    BY <1>1, <2>1 DEF HeldInv
  <2>3. QED
    BY <2>1, <2>2, CoveredStays DEF HeldInv
<1>3. ASSUME NEW g \in grants'
      PROVE  /\ g.since <= now'
             /\ Covered(g.service, g.entry, g.since)' \/ g \in unnoticed'
  <2>1. g \in grants /\ g.since \in Nat
    BY DEF Types, Grants
  <2>2. g.since <= now'
    BY <1>1, <2>1 DEF GrantInv
  <2>3. QED
    BY <2>1, <2>2, CoveredStays DEF GrantInv
<1>4. QED
  BY <1>2, <1>3 DEF HeldInv, GrantInv

\* The steps that CoverFrame is about keep QueueInv when they leave the reload.
LEMMA QueueFrame ==
  ASSUME QueueInv, UNCHANGED reloadVars, revoked' = revoked
  PROVE  QueueInv'
BY DEF QueueInv, Targets, reloadVars

\* Away from the adoption there is nothing to say.
LEMMA QueueIdle ==
  ASSUME reload' # "adopt"
  PROVE  QueueInv'
BY DEF QueueInv

\* Steps that leave the reload and what has been granted and revoked.
LEMMA QuietFrame ==
  ASSUME Types, Types', DenyInv, held' \subseteq held,
         UNCHANGED <<now, up, reloadVars, grants, revoked, lag, unnoticed>>
  PROVE  DenyInv'
<1>1. /\ authorizer' = authorizer /\ revoked' = revoked /\ lag' = lag /\ now' = now
      /\ grants' = grants /\ unnoticed' = unnoticed /\ up' = up
  BY DEF reloadVars
<1>2. lag' >= lag /\ now' >= now
  BY <1>1 DEF Types
<1>3. HeldInv' /\ GrantInv'
  BY <1>1, <1>2, CoverFrame DEF DenyInv
<1>4. QueueInv'
  BY <1>1, QueueFrame DEF DenyInv
<1>5. DownInv'
  BY <1>1 DEF DenyInv, DownInv
<1>6. QED
  BY <1>3, <1>4, <1>5 DEF DenyInv

\* Every action keeps DenyInv.
LEMMA DenyStep == Types /\ Types' /\ DenyInv /\ [Next]_vars => DenyInv'
<1> SUFFICES ASSUME Types, Types', DenyInv, [Next]_vars PROVE DenyInv'
  OBVIOUS
<1>0. DownInv /\ QueueInv /\ HeldInv /\ GrantInv /\ lag >= lag /\ now >= now
  BY DEF DenyInv, Types
<1> USE <1>0 DEF DenyInv, diskVars, processVars, grantVars, historyVars
<1>1. ASSUME NEW f \in FileSets, Edit(f) PROVE DenyInv'
  BY <1>1, QuietFrame DEF Edit
<1>2. CASE ReadServices \/ ReadACL \/ ReadPermissions
  <2>1. reload' # "adopt"
    BY <1>2 DEF ReadServices, ReadACL, ReadPermissions, Proceed
  <2>2. QED
    BY <1>2, <2>1, CoverFrame, QueueIdle
       DEF ReadServices, ReadACL, ReadPermissions, DownInv
<1>3. CASE QueueRevocations
  <2>1. /\ authorizer' = authorizer /\ read' = read /\ lag' = lag /\ now' = now
        /\ held' = held /\ grants' = grants /\ unnoticed' = unnoticed /\ up' = up
        /\ revoked' = revoked \cup Denials(Targets)
        /\ queuedAt' = IF Targets = {} THEN queuedAt ELSE now
    BY <1>3 DEF QueueRevocations
  <2>2. HeldInv' /\ GrantInv' /\ DownInv'
    BY <2>1, CoverFrame DEF DownInv
  <2>3. ASSUME NEW t \in Targets
        PROVE  \E d \in revoked' : /\ d.service = t.service /\ d.channel = t.channel
                                  /\ d.until = queuedAt' + DenyWindow
    <3>1. queuedAt' = now
      BY <2>1
    <3>2. PICK d : d = [service |-> t.service, channel |-> t.channel,
                        until |-> now + DenyWindow]
      OBVIOUS
    <3>3. d \in revoked'
      BY <2>1, <3>2 DEF Denials
    <3>4. d.service = t.service /\ d.channel = t.channel /\ d.until = now + DenyWindow
      BY <3>2
    <3>5. QED
      BY <3>1, <3>3, <3>4
  <2>4. Targets' = Targets
    BY <2>1 DEF Targets
  <2>5. QED
    BY <2>2, <2>3, <2>4 DEF QueueInv
<1>4. CASE QueueFull \/ QueueFailure
  <2>1. reload' # "adopt"
    BY <1>4 DEF QueueFull, QueueFailure
  <2>2. QED
    BY <1>4, <2>1, CoverFrame, QueueIdle DEF QueueFull, QueueFailure, DownInv
<1>5. CASE Adopt
  <2>1. /\ held' = held /\ grants' = grants /\ unnoticed' = unnoticed /\ now' = now
        /\ up' = up /\ reload' # "adopt"
    BY <1>5 DEF Adopt
  <2>2. HeldInv'
    <3>1. \A h \in held : h.since \in Nat
      BY HeldType DEF Types
    <3>2. QED
      BY <1>5, <2>1, <3>1, CoveredByAdopt DEF HeldInv
  <2>3. GrantInv'
    <3>1. \A g \in grants : g.since \in Nat
      BY DEF Types, Grants
    <3>2. QED
      BY <1>5, <2>1, <3>1, CoveredByAdopt DEF GrantInv
  <2>4. QED
    BY <2>1, <2>2, <2>3, QueueIdle DEF DownInv
<1>6. CASE Drain
  BY <1>6, QuietFrame DEF Drain
<1>7. ASSUME NEW r \in Requests, NEW cert \in Certs, Authenticate(r, cert) PROVE DenyInv'
  <2>1. PICK s \in authorizer :
          /\ s.enabled
          /\ held' = held \cup {[request |-> r, service |-> s, since |-> now]}
    BY <1>7 DEF Authenticate, serviceForRequest
  <2>2. /\ authorizer' = authorizer /\ revoked' = revoked /\ lag' = lag /\ now' = now
        /\ grants' = grants /\ unnoticed' = unnoticed /\ up /\ up' = up
        /\ UNCHANGED reloadVars
    BY <1>7 DEF Authenticate, reloadVars
  <2>3. ASSUME NEW h \in held'
        PROVE  /\ h.since <= now'
               /\ \A e \in h.service.admissions : Covered(h.service.id, e, h.since)'
    <3>1. CASE h \in held
      <4>1. h.since \in Nat
        BY <3>1, HeldType DEF Types
      <4>2. QED
        BY <2>2, <3>1, <4>1, CoveredStays DEF HeldInv
    <3>2. CASE h = [request |-> r, service |-> s, since |-> now]
      <4>1. h.service = s /\ h.since = now
        BY <3>2
      <4>2. \A e \in s.admissions : Covered(s.id, e, h.since)'
        BY <2>1, <2>2 DEF Covered, Admits
      <4>3. QED
        BY <2>2, <4>1, <4>2 DEF Types
    <3>3. QED
      BY <2>1, <3>1, <3>2
  <2>4. HeldInv'
    BY <2>3 DEF HeldInv
  <2>5. GrantInv'
    <3>1. \A g \in grants : g.since \in Nat
      BY DEF Types, Grants
    <3>2. QED
      BY <2>2, <3>1, CoveredStays DEF GrantInv
  <2>6. QED
    BY <2>2, <2>4, <2>5, QueueFrame DEF DownInv
<1>8. ASSUME NEW h \in held, Finish(h) PROVE DenyInv'
  BY <1>8, QuietFrame DEF Finish
<1>9. ASSUME NEW h \in held, NEW wanted \in SUBSET GrantPermissions,
             NEW e \in h.service.admissions, IssueGrant(h, e, wanted)
      PROVE  DenyInv'
  <2> DEFINE g == NewGrant(h, e, wanted)
  <2>1. /\ grants' \subseteq grants \cup {g}
        /\ held' \subseteq held
    BY <1>9, IssueEffect
  <2>2. /\ authorizer' = authorizer /\ revoked' = revoked /\ lag' = lag /\ now' = now
        /\ unnoticed' = unnoticed /\ up' = up /\ UNCHANGED reloadVars
    BY <1>9 DEF IssueGrant, reloadVars
  <2>3. /\ g.since = h.since /\ g.service = h.service.id /\ g.entry = e
        /\ h.since \in Nat
    BY HeldType DEF NewGrant, Types
  <2> HIDE DEF g
  <2>4. HeldInv'
    <3>1. \A k \in held : k.since \in Nat
      BY HeldType DEF Types
    <3>2. QED
      BY <2>1, <2>2, <3>1, CoveredStays DEF HeldInv
  <2>5. ASSUME NEW k \in grants'
        PROVE  /\ k.since <= now'
               /\ Covered(k.service, k.entry, k.since)' \/ k \in unnoticed'
    <3>1. CASE k \in grants
      <4>1. k.since \in Nat
        BY <3>1 DEF Types, Grants
      <4>2. QED
        BY <2>2, <3>1, <4>1, CoveredStays DEF GrantInv
    <3>2. CASE k = g
      <4>1. k.since = h.since /\ k.service = h.service.id /\ k.entry = e
        BY <2>3, <3>2
      <4>2. Covered(h.service.id, e, h.since) /\ h.since <= now
        BY DEF HeldInv
      <4>3. Covered(k.service, k.entry, k.since)
        BY <4>1, <4>2
      <4>4. QED
        BY <2>2, <2>3, <4>1, <4>2, <4>3, CoveredStays
    <3>3. QED
      BY <2>1, <3>1, <3>2
  <2>6. GrantInv'
    BY <2>5 DEF GrantInv
  <2>7. QED
    BY <2>1, <2>2, <2>4, <2>6, QueueFrame DEF DownInv
<1>10. ASSUME NEW h \in held, NEW r \in RevocationRequests, Revoke(h, r) PROVE DenyInv'
  BY <1>10, QuietFrame DEF Revoke, Answer
<1>11. CASE Crash
  <2>1. reload' # "adopt"
    BY <1>11 DEF Crash
  <2>2. QED
    BY <1>11, <2>1, CoverFrame, QueueIdle DEF Crash, DownInv
<1>12. CASE Start
  <2>1. /\ held = {} /\ held' = {} /\ grants' = grants /\ now' = now
        /\ revoked' = revoked /\ lag' = lag /\ authorizer' = Load(read)
        /\ unnoticed' = unnoticed \cup
             {g \in grants : /\ Admits(authorizer, g.service, g.entry)
                             /\ ~Admits(Load(read), g.service, g.entry)}
    BY <1>12 DEF Start, DownInv
  <2>2. ASSUME NEW g \in grants
        PROVE  /\ g.since <= now'
               /\ Covered(g.service, g.entry, g.since)' \/ g \in unnoticed'
    <3>1. CASE Admits(authorizer, g.service, g.entry)
      <4>1. Admits(Load(read), g.service, g.entry) => Covered(g.service, g.entry, g.since)'
        BY <2>1 DEF Covered, Admits
      <4>2. ~Admits(Load(read), g.service, g.entry) => g \in unnoticed'
        BY <2>1, <3>1
      <4>3. QED
        BY <2>1, <4>1, <4>2 DEF GrantInv
    <3>2. CASE ~Admits(authorizer, g.service, g.entry)
      BY <2>1, <3>2 DEF GrantInv, Covered
    <3>3. QED
      BY <3>1, <3>2
  <2>3. HeldInv' /\ GrantInv' /\ DownInv'
    BY <2>1, <2>2 DEF HeldInv, GrantInv, DownInv
  <2>4. reload' # "adopt"
    BY <1>12 DEF Start
  <2>5. QED
    BY <2>3, <2>4, QueueIdle
<1>13. CASE Tick
  <2>1. now' >= now
    BY <1>13 DEF Tick, Types
  <2>2. QED
    BY <1>13, <2>1, CoverFrame, QueueFrame DEF Tick, reloadVars, DownInv
<1>14. CASE UNCHANGED vars
  BY <1>14, QuietFrame DEF vars
<1>15. QED
  BY <1>1, <1>2, <1>3, <1>4, <1>5, <1>6, <1>7, <1>8, <1>9, <1>10, <1>11, <1>12, <1>13,
     <1>14 DEF Next

\* A deadline that covers the request's start covers the grant's life.
LEMMA CoveredIsRevoked ==
  ASSUME Types, NEW g \in grants, Held(g) + lag + GrantLifetime <= DenyWindow,
         Covered(g.service, g.entry, g.since)
  PROVE  Admits(authorizer, g.service, g.entry) \/ RevocationQueued(g)
<1>1. g.since \in Nat /\ g.issued \in Nat /\ lag \in Nat
  BY DEF Types, Grants
<1>2. ASSUME NEW d \in revoked, d.until + lag >= g.since + DenyWindow
      PROVE  d.until >= Expires(g)
  <2>1. d.until \in Nat
    BY DEF Types, RevokedScopes
  <2>2. QED
    BY <1>1, <1>2, <2>1, AdmissionAssumption DEF Held, Expires
<1>3. QED
  BY <1>2 DEF Covered, RevocationQueued

\* For a grant whose ACL entry was withdrawn by a reload a revocation has been
\* queued that denies it for as long as it lives, however requests, reloads,
\* failures and restarts are interleaved, if the deny window exceeds the lifetime
\* by what they take.
THEOREM WithdrawnIsRevokedHolds == Spec => []WithdrawnIsRevoked
<1>1. Init => DenyInv
  BY DEF Init, DenyInv, DownInv, QueueInv, HeldInv, GrantInv
<1>2. Types /\ DenyInv => WithdrawnIsRevoked
  BY CoveredIsRevoked DEF DenyInv, GrantInv, WithdrawnIsRevoked
<1>3. QED
  BY <1>1, <1>2, TypeInit, TypeStep, DenyStep, PTL DEF Spec

-----------------------------------------------------------------------------
(***************************************************************************)
(* Grants honour the roles of their entries.                               *)
(***************************************************************************)

SoundEntries(as) == \A s \in as : \A e \in s.admissions : ValidEntry(e)

\* An entry that was not validated is in no authorizer, not even one that the
\* reload puts together from files of different times.
EntryInv ==
  /\ SoundEntries(authorizer)
  /\ reload \in {"permissions", "queue", "adopt"} =>
       \A r \in RowsOf(read.acl) : ValidEntry(r.entry)
  /\ \A h \in held : \A e \in h.service.admissions : ValidEntry(e)

\* The authorizer of files with valid rows has valid entries.
LEMMA LoadSound ==
  ASSUME NEW f, \A r \in RowsOf(f.acl) : ValidEntry(r.entry)
  PROVE  SoundEntries(Load(f))
<1>1. ASSUME NEW row
      PROVE  \A e \in ServiceOf(row, f.acl, f.permissions).admissions : ValidEntry(e)
  BY DEF ServiceOf
<1>2. QED
  BY <1>1 DEF Load, SoundEntries

\* Steps that leave the reload and let nobody in.
LEMMA EntryFrame ==
  ASSUME EntryInv, UNCHANGED reloadVars, held' \subseteq held
  PROVE  EntryInv'
BY DEF EntryInv, SoundEntries, reloadVars

\* Steps that end the reload without adopting.
LEMMA EntryIdle ==
  ASSUME EntryInv, authorizer' = authorizer, reload' \in {"idle", "acl"},
         held' \subseteq held
  PROVE  EntryInv'
BY DEF EntryInv, SoundEntries

\* Every action keeps EntryInv.
LEMMA EntryStep == Types /\ EntryInv /\ [Next]_vars => EntryInv'
<1> SUFFICES ASSUME Types, EntryInv, [Next]_vars PROVE EntryInv'
  OBVIOUS
<1>1. ASSUME NEW f \in FileSets, Edit(f) PROVE EntryInv'
  BY <1>1, EntryFrame DEF Edit, grantVars
<1>2. CASE ReadServices
  BY <1>2, EntryIdle DEF ReadServices, Proceed, grantVars
<1>3. CASE ReadACL
  <2>1. CASE reload' = "idle"
    BY <1>3, <2>1, EntryIdle DEF ReadACL, grantVars
  <2>2. CASE reload' # "idle"
    <3>1. ValidACL(read.services, files.acl) /\ read' = [read EXCEPT !.acl = files.acl]
      BY <1>3, <2>2 DEF ReadACL, Proceed
    <3>2. read'.acl = files.acl
      BY <3>1 DEF Types, Files
    <3>3. \A r \in RowsOf(read'.acl) : ValidEntry(r.entry)
      BY <3>1, <3>2 DEF ValidACL
    <3>4. QED
      BY <1>3, <3>3 DEF ReadACL, grantVars, EntryInv, SoundEntries
  <2>3. QED
    BY <2>1, <2>2
<1>4. CASE ReadPermissions
  <2>1. CASE reload' = "idle"
    BY <1>4, <2>1, EntryIdle DEF ReadPermissions, grantVars
  <2>2. CASE reload' # "idle"
    <3>1. read' = [read EXCEPT !.permissions = files.permissions]
      BY <1>4, <2>2 DEF ReadPermissions, Proceed
    <3>2. read'.acl = read.acl /\ reload = "permissions"
      BY <1>4, <3>1 DEF Types, Files, ReadPermissions
    <3>3. QED
      BY <1>4, <3>2 DEF ReadPermissions, grantVars, EntryInv, SoundEntries
  <2>3. QED
    BY <2>1, <2>2
<1>5. CASE QueueRevocations
  BY <1>5 DEF QueueRevocations, grantVars, EntryInv, SoundEntries
<1>6. CASE QueueFull \/ QueueFailure \/ Crash
  BY <1>6, EntryIdle DEF QueueFull, QueueFailure, Crash, grantVars
<1>7. CASE Adopt \/ Start
  <2>1. SoundEntries(Load(read))
    BY <1>7, LoadSound DEF Adopt, Start, EntryInv
  <2>2. authorizer' = Load(read) /\ reload' = "idle" /\ held' = held
    BY <1>7 DEF Adopt, Start, grantVars
  <2>3. QED
    BY <2>1, <2>2 DEF EntryInv, SoundEntries
<1>8. CASE Drain
  BY <1>8, EntryFrame DEF Drain, grantVars
<1>9. ASSUME NEW r \in Requests, NEW cert \in Certs, Authenticate(r, cert) PROVE EntryInv'
  <2>1. PICK s \in authorizer :
          held' = held \cup {[request |-> r, service |-> s, since |-> now]}
    BY <1>9 DEF Authenticate, serviceForRequest
  <2>2. \A h \in held' : \A e \in h.service.admissions : ValidEntry(e)
    BY <2>1 DEF EntryInv, SoundEntries
  <2>3. QED
    BY <1>9, <2>2 DEF Authenticate, reloadVars, EntryInv, SoundEntries
<1>10. ASSUME NEW h \in held, Finish(h) PROVE EntryInv'
  BY <1>10, EntryFrame DEF Finish
<1>11. ASSUME NEW h \in held, NEW wanted \in SUBSET GrantPermissions,
              NEW e \in h.service.admissions, IssueGrant(h, e, wanted)
       PROVE  EntryInv'
  BY <1>11, EntryFrame DEF IssueGrant, Answer
<1>12. ASSUME NEW h \in held, NEW r \in RevocationRequests, Revoke(h, r) PROVE EntryInv'
  BY <1>12, EntryFrame DEF Revoke, Answer
<1>13. CASE Tick
  BY <1>13, EntryFrame DEF Tick, grantVars
<1>14. CASE UNCHANGED vars
  BY <1>14, EntryFrame DEF vars, grantVars
<1>15. QED
  BY <1>1, <1>2, <1>3, <1>4, <1>5, <1>6, <1>7, <1>8, <1>9, <1>10, <1>11, <1>12, <1>13,
     <1>14 DEF Next

\* What issue allows on a valid entry honours the entry's role.
LEMMA AllowedHonoursRole ==
  ASSUME NEW e \in Entries, ValidEntry(e), NEW wanted \in SUBSET GrantPermissions,
         Allows(e, wanted)
  PROVE  /\ e.role # "automation" => wanted = {"listen"}
         /\ "interrupt" \in wanted => "talk" \in wanted /\ e.priority > 0
<1>1. e.role \in AdmissionRoles /\ e.priority \in 0 .. 255
  BY DEF Entries
<1>2. ASSUME e.role # "automation" PROVE wanted = {"listen"}
  <2>1. ReceiveOnly(e)
    BY <1>1, <1>2 DEF ValidEntry, AdmissionRoles
  <2>2. "talk" \notin wanted /\ "interrupt" \notin wanted /\ "listen" \in wanted
    BY <2>1 DEF ReceiveOnly, Allows
  <2>3. QED
    BY <2>2 DEF GrantPermissions
<1>3. ASSUME "interrupt" \in wanted PROVE "talk" \in wanted /\ e.priority > 0
  <2>1. "talk" \in wanted /\ e.priority # 0
    BY <1>3 DEF Allows
  <2>2. QED
    BY <1>1, <2>1
<1>4. QED
  BY <1>2, <1>3

\* Only issue adds a grant.
LEMMA GrantsGrowByIssue ==
  ASSUME [Next]_vars
  PROVE  \/ grants' = grants
         \/ \E h \in held, wanted \in SUBSET GrantPermissions :
              \E e \in h.service.admissions : IssueGrant(h, e, wanted)
<1> USE DEF grantVars
<1>1. CASE \/ \E f \in FileSets : Edit(f)
           \/ ReadServices \/ ReadACL \/ ReadPermissions \/ QueueRevocations
  BY <1>1 DEF Edit, ReadServices, ReadACL, ReadPermissions, QueueRevocations
<1>2. CASE QueueFull \/ QueueFailure \/ Adopt \/ Drain \/ Crash \/ Start \/ Tick
  BY <1>2 DEF QueueFull, QueueFailure, Adopt, Drain, Crash, Start, Tick
<1>3. CASE \/ \E r \in Requests, cert \in Certs : Authenticate(r, cert)
           \/ \E h \in held : Finish(h)
           \/ \E h \in held, r \in RevocationRequests : Revoke(h, r)
  BY <1>3 DEF Authenticate, Finish, Revoke
<1>4. CASE UNCHANGED vars
  BY <1>4 DEF vars
<1>5. QED
  BY <1>1, <1>2, <1>3, <1>4 DEF Next

\* A new grant honours its role.
LEMMA RolesStep == Types /\ EntryInv /\ GrantsHonourRoles /\ [Next]_vars => GrantsHonourRoles'
<1> SUFFICES ASSUME Types, EntryInv, GrantsHonourRoles, [Next]_vars PROVE GrantsHonourRoles'
  OBVIOUS
<1>1. CASE grants' = grants
  BY <1>1 DEF GrantsHonourRoles
<1>2. ASSUME NEW h \in held, NEW wanted \in SUBSET GrantPermissions,
             NEW e \in h.service.admissions, IssueGrant(h, e, wanted)
      PROVE  GrantsHonourRoles'
  <2> DEFINE g == NewGrant(h, e, wanted)
  <2>1. grants' \subseteq grants \cup {g} /\ Allows(e, wanted)
    BY <1>2, IssueEffect
  <2>2. e \in Entries /\ ValidEntry(e)
    BY HeldType DEF Types, EntryInv
  <2>3. /\ e.role # "automation" => wanted = {"listen"}
        /\ "interrupt" \in wanted => "talk" \in wanted /\ e.priority > 0
    BY <2>1, <2>2, AllowedHonoursRole
  <2>4. g.entry = e /\ g.permissions = wanted
    BY DEF NewGrant
  <2> HIDE DEF g
  <2>5. QED
    BY <2>1, <2>3, <2>4 DEF GrantsHonourRoles
<1>3. QED
  BY <1>1, <1>2, GrantsGrowByIssue

\* No mix of files read at different times yields a recorder or observer grant
\* that can talk, or an interrupt without talk and a priority.
THEOREM GrantsHonourRolesHolds == Spec => []GrantsHonourRoles
<1>1. ASSUME Init PROVE EntryInv /\ GrantsHonourRoles
  <2>1. \A r \in RowsOf(FirstFiles.acl) : ValidEntry(r.entry)
    BY AdmissionAssumption DEF Valid, ValidACL
  <2>2. SoundEntries(authorizer)
    BY <1>1, <2>1, LoadSound DEF Init
  <2>3. QED
    BY <1>1, <2>2 DEF Init, EntryInv, GrantsHonourRoles
<1>2. QED
  BY <1>1, TypeInit, TypeStep, EntryStep, RolesStep, PTL DEF Spec

-----------------------------------------------------------------------------
(***************************************************************************)
(* A live grant can be revoked by its hash.                                *)
(***************************************************************************)

\* The clean-up only takes expired grants from the table of this process.
TrackInv ==
  \A g \in grants :
    /\ g.issued <= now /\ g.boot <= boot
    /\ g.boot = boot /\ Expires(g) > now => g \in tracked

\* The numbers of a grant.
LEMMA GrantNumbers ==
  ASSUME Types, NEW g \in grants
  PROVE  g.issued \in Nat /\ g.boot \in Nat /\ Expires(g) \in Nat
<1>1. g.issued \in Nat /\ g.boot \in Nat
  BY DEF Types, Grants
<1>2. QED
  BY <1>1, AdmissionAssumption DEF Expires

\* Cleaning up keeps what has not expired.
LEMMA TrackFrame ==
  ASSUME Types, TrackInv, UNCHANGED <<now, boot, grants>>,
         tracked' = tracked \/ tracked' = Unexpired
  PROVE  TrackInv'
BY DEF TrackInv, Unexpired, Expires

\* Every action keeps TrackInv.
LEMMA TrackStep == Types /\ TrackInv /\ [Next]_vars => TrackInv'
<1> SUFFICES ASSUME Types, TrackInv, [Next]_vars PROVE TrackInv'
  OBVIOUS
<1> USE DEF processVars, grantVars
<1>1. CASE \/ \E f \in FileSets : Edit(f)
           \/ ReadServices \/ ReadACL \/ ReadPermissions \/ QueueRevocations
  BY <1>1, TrackFrame DEF Edit, ReadServices, ReadACL, ReadPermissions, QueueRevocations
<1>2. CASE QueueFull \/ QueueFailure \/ Adopt \/ Drain \/ Start
  BY <1>2, TrackFrame DEF QueueFull, QueueFailure, Adopt, Drain, Start
<1>3. CASE \/ \E r \in Requests, cert \in Certs : Authenticate(r, cert)
           \/ \E h \in held : Finish(h)
           \/ \E h \in held, r \in RevocationRequests : Revoke(h, r)
  BY <1>3, TrackFrame DEF Authenticate, Finish, Revoke
<1>4. ASSUME NEW h \in held, NEW wanted \in SUBSET GrantPermissions,
             NEW e \in h.service.admissions, IssueGrant(h, e, wanted)
      PROVE  TrackInv'
  <2> DEFINE g == NewGrant(h, e, wanted)
  <2>1. now' = now /\ boot' = boot
    BY <1>4 DEF IssueGrant
  <2>2. CASE grants' = grants /\ tracked' = Unexpired
    BY <2>1, <2>2, TrackFrame
  <2>3. CASE grants' = grants \cup {g} /\ tracked' = Unexpired \cup {g}
    <3>1. g.issued = now /\ g.boot = boot
      BY DEF NewGrant
    <3>2. g.issued <= now /\ g.boot <= boot
      BY <3>1 DEF Types
    <3> HIDE DEF g
    <3>3. QED
      BY <2>1, <2>3, <3>2 DEF TrackInv, Unexpired, Expires
  <2>4. QED
    BY <1>4, <2>2, <2>3, IssueEffect
<1>5. CASE Crash
  <2>1. now' = now /\ boot' = boot + 1 /\ grants' = grants
    BY <1>5 DEF Crash
  <2>2. ASSUME NEW g \in grants
        PROVE  g.issued <= now' /\ g.boot <= boot' /\ g.boot # boot'
    <3>1. g.boot \in Nat /\ boot \in Nat
      BY GrantNumbers DEF Types
    <3>2. QED
      BY <2>1, <3>1 DEF TrackInv
  <2>3. QED
    BY <2>1, <2>2 DEF TrackInv
<1>6. CASE Tick
  <2>1. now' = now + 1 /\ boot' = boot /\ grants' = grants /\ tracked' = tracked
    BY <1>6 DEF Tick
  <2>2. ASSUME NEW g \in grants
        PROVE  g.issued <= now' /\ (Expires(g) > now' => Expires(g) > now)
    <3>1. g.issued \in Nat /\ Expires(g) \in Nat /\ now \in Nat
      BY GrantNumbers DEF Types
    <3>2. QED
      BY <2>1, <3>1 DEF TrackInv
  <2>3. QED
    BY <2>1, <2>2 DEF TrackInv, Expires
<1>7. CASE UNCHANGED vars
  BY <1>7, TrackFrame DEF vars
<1>8. QED
  BY <1>1, <1>2, <1>3, <1>4, <1>5, <1>6, <1>7 DEF Next

\* validateServiceAdmissionRevocation accepts the hash of every live grant of
\* this process with the grant's own expiry as the deadline.
THEOREM LiveGrantRevocableHolds == Spec => []LiveGrantRevocable
<1>1. Init => TrackInv
  BY DEF Init, TrackInv
<1>2. ASSUME Types, TrackInv PROVE LiveGrantRevocable
  <2> SUFFICES ASSUME NEW g \in grants, g.boot = boot, Expires(g) > now
               PROVE  validateServiceAdmissionRevocation(
                        [channel |-> g.entry.channel, service |-> {}, grant |-> {g.id},
                         until |-> Expires(g)])
    BY DEF LiveGrantRevocable
  <2>1. g \in Unexpired
    BY <1>2 DEF TrackInv, Unexpired
  <2>2. g.issued \in Nat /\ Expires(g) \in Nat /\ g.issued <= now /\ now \in Nat
    BY <1>2, GrantNumbers DEF TrackInv, Types
  <2>3. Expires(g) <= now + DenyWindow
    BY <2>2, AdmissionAssumption DEF Expires
  <2>4. Expires(g) <= Expires(g)
    BY <2>2
  <2>5. QED
    BY <2>1, <2>3, <2>4 DEF validateServiceAdmissionRevocation
<1>3. QED
  BY <1>1, <1>2, TypeInit, TypeStep, TrackStep, PTL DEF Spec

-----------------------------------------------------------------------------
(***************************************************************************)
(* A pass of the reload follows one ACL.                                   *)
(***************************************************************************)

\* From the second file on, the pass holds an ACL that was in place since it
\* began and is valid for the services it has read, which may be older ones.
PassInv ==
  /\ files \in seen
  /\ reload \in {"permissions", "queue", "adopt"} =>
       /\ ValidACL(read.services, read.acl)
       /\ \E f \in seen : read.acl = f.acl

\* Files whose ACL is valid for their services admit all that it lists: no row is
\* lost to a service that is unknown or disabled.
LEMMA LoadAdmitsListed ==
  ASSUME NEW f, ValidACL(f.services, f.acl)
  PROVE  Admitted(Load(f)) = Listed(f.acl)
<1>1. ASSUME NEW x \in Admitted(Load(f)) PROVE x \in Listed(f.acl)
  <2>1. PICK s \in Load(f) :
          s.enabled /\ \E e \in s.admissions : x = [service |-> s.id, entry |-> e]
    BY DEF Admitted
  <2>2. PICK row \in RowsOf(f.services) : s = ServiceOf(row, f.acl, f.permissions)
    BY DEF Load
  <2>3. s.id = row.id
    BY <2>2 DEF ServiceOf
  <2>4. PICK e \in s.admissions : x = [service |-> s.id, entry |-> e]
    BY <2>1
  <2>5. PICK r \in RowsOf(f.acl) : r.service = row.id /\ r.enabled /\ e = r.entry
    BY <2>2 DEF ServiceOf
  <2>6. QED
    BY <2>3, <2>4, <2>5 DEF Listed
<1>2. ASSUME NEW x \in Listed(f.acl) PROVE x \in Admitted(Load(f))
  <2>1. PICK r \in RowsOf(f.acl) :
          r.enabled /\ x = [service |-> r.service, entry |-> r.entry]
    BY DEF Listed
  <2>2. PICK row \in RowsOf(f.services) : row.id = r.service /\ row.enabled
    BY DEF ValidACL, KnownEnabled
  <2>3. PICK s : s = ServiceOf(row, f.acl, f.permissions)
    OBVIOUS
  <2>4. s.id = r.service /\ s.enabled /\ r.entry \in s.admissions
    BY <2>1, <2>2, <2>3 DEF ServiceOf
  <2>5. s \in Load(f)
    BY <2>3 DEF Load
  <2>6. QED
    BY <2>1, <2>4, <2>5 DEF Admitted
<1>3. QED
  BY <1>1, <1>2

\* A revocation is about something that was admitted and is so no longer.
LEMMA TargetIsWithdrawn ==
  ASSUME NEW t \in Targets
  PROVE  \E x \in Admitted(authorizer) \ Admitted(Load(read)) :
           x.service = t.service /\ x.entry.channel = t.channel
<1>1. PICK s \in authorizer :
        s.enabled /\ \E e \in Withdrawn(s, Load(read)) : t = Target(s, e, Load(read))
  BY DEF Targets, managementAutomaticRevocations
<1>2. PICK e \in s.admissions :
        ~Admits(Load(read), s.id, e) /\ t = Target(s, e, Load(read))
  BY <1>1 DEF Withdrawn
<1>3. PICK x : x = [service |-> s.id, entry |-> e]
  OBVIOUS
<1>4. x \in Admitted(authorizer)
  BY <1>1, <1>2, <1>3 DEF Admitted
<1>5. x \notin Admitted(Load(read))
  <2> SUFFICES ASSUME x \in Admitted(Load(read)) PROVE FALSE
    OBVIOUS
  <2>1. PICK n \in Load(read) :
          n.enabled /\ \E k \in n.admissions : x = [service |-> n.id, entry |-> k]
    BY DEF Admitted
  <2>2. PICK k \in n.admissions : x = [service |-> n.id, entry |-> k]
    BY <2>1
  <2>3. n.id = s.id /\ k = e
    BY <1>3, <2>2
  <2>4. QED
    BY <1>2, <2>1, <2>3 DEF Admits
<1>6. x.service = t.service /\ x.entry.channel = t.channel
  BY <1>2, <1>3 DEF Target
<1>7. QED
  BY <1>4, <1>5, <1>6

\* Steps that leave the reload and the files.
LEMMA PassFrame ==
  ASSUME PassInv, UNCHANGED <<files, seen, reload, read>>
  PROVE  PassInv'
BY DEF PassInv

\* Steps that end the pass.
LEMMA PassIdle ==
  ASSUME PassInv, UNCHANGED <<files, seen>>, reload' = "idle"
  PROVE  PassInv'
BY DEF PassInv

\* Every action keeps PassInv.
LEMMA PassStep == Types /\ PassInv /\ [Next]_vars => PassInv'
<1> SUFFICES ASSUME Types, PassInv, [Next]_vars PROVE PassInv'
  OBVIOUS
<1> USE DEF diskVars, reloadVars, historyVars
<1>1. ASSUME NEW f \in FileSets, Edit(f) PROVE PassInv'
  BY <1>1 DEF Edit, PassInv
<1>2. CASE ReadServices
  BY <1>2 DEF ReadServices, Proceed, PassInv
<1>3. CASE ReadACL
  <2>1. CASE reload' = "idle"
    BY <1>3, <2>1, PassIdle DEF ReadACL
  <2>2. CASE reload' # "idle"
    <3>1. /\ ValidACL(read.services, files.acl)
          /\ read' = [read EXCEPT !.acl = files.acl]
          /\ files' = files /\ seen' = seen
      BY <1>3, <2>2 DEF ReadACL, Proceed
    <3>2. read'.services = read.services /\ read'.acl = files.acl
      BY <3>1 DEF Types, Files
    <3>3. QED
      BY <3>1, <3>2 DEF PassInv
  <2>3. QED
    BY <2>1, <2>2
<1>4. CASE ReadPermissions
  <2>1. CASE reload' = "idle"
    BY <1>4, <2>1, PassIdle DEF ReadPermissions
  <2>2. CASE reload' # "idle"
    <3>1. /\ reload = "permissions"
          /\ read' = [read EXCEPT !.permissions = files.permissions]
          /\ files' = files /\ seen' = seen
      BY <1>4, <2>2 DEF ReadPermissions, Proceed
    <3>2. read'.services = read.services /\ read'.acl = read.acl
      BY <3>1 DEF Types, Files
    <3>3. QED
      BY <3>1, <3>2 DEF PassInv
  <2>3. QED
    BY <2>1, <2>2
<1>5. CASE QueueRevocations
  BY <1>5 DEF QueueRevocations, PassInv
<1>6. CASE QueueFull \/ QueueFailure \/ Crash \/ Adopt \/ Start
  BY <1>6, PassIdle DEF QueueFull, QueueFailure, Crash, Adopt, Start
<1>7. CASE Drain \/ Tick
  BY <1>7, PassFrame DEF Drain, Tick
<1>8. CASE \/ \E r \in Requests, cert \in Certs : Authenticate(r, cert)
           \/ \E h \in held : Finish(h)
           \/ \E h \in held, r \in RevocationRequests : Revoke(h, r)
  BY <1>8, PassFrame DEF Authenticate, Finish, Revoke
<1>9. CASE \E h \in held, wanted \in SUBSET GrantPermissions :
             \E e \in h.service.admissions : IssueGrant(h, e, wanted)
  BY <1>9, PassFrame DEF IssueGrant
<1>10. CASE UNCHANGED vars
  BY <1>10, PassFrame DEF vars
<1>11. QED
  BY <1>1, <1>2, <1>3, <1>4, <1>5, <1>6, <1>7, <1>8, <1>9, <1>10 DEF Next

\* Only Adopt and Start replace the authorizer, and only QueueRevocations revokes.
LEMMA ChangesOfReload ==
  ASSUME [Next]_vars
  PROVE  /\ authorizer' # authorizer =>
              authorizer' = Load(read) /\ reload \in {"queue", "adopt"}
         /\ revoked' # revoked =>
              revoked' = revoked \cup Denials(Targets) /\ reload = "queue"
<1> USE DEF reloadVars, historyVars
<1>1. CASE \/ \E f \in FileSets : Edit(f)
           \/ ReadServices \/ ReadACL \/ ReadPermissions
  BY <1>1 DEF Edit, ReadServices, ReadACL, ReadPermissions
<1>2. CASE QueueRevocations \/ QueueFull \/ QueueFailure \/ Adopt \/ Start
  BY <1>2 DEF QueueRevocations, QueueFull, QueueFailure, Adopt, Start
<1>3. CASE Drain \/ Crash \/ Tick
  BY <1>3 DEF Drain, Crash, Tick
<1>4. CASE \/ \E r \in Requests, cert \in Certs : Authenticate(r, cert)
           \/ \E h \in held : Finish(h)
           \/ \E h \in held, r \in RevocationRequests : Revoke(h, r)
  BY <1>4 DEF Authenticate, Finish, Revoke
<1>5. CASE \E h \in held, wanted \in SUBSET GrantPermissions :
             \E e \in h.service.admissions : IssueGrant(h, e, wanted)
  BY <1>5 DEF IssueGrant
<1>6. CASE UNCHANGED vars
  BY <1>6 DEF vars
<1>7. QED
  BY <1>1, <1>2, <1>3, <1>4, <1>5, <1>6 DEF Next

\* What a step adopts or revokes is that of one ACL.
LEMMA FollowsStep ==
  ASSUME PassInv, [Next]_vars
  PROVE  /\ authorizer' # authorizer =>
              \E f \in seen : Admitted(authorizer') = Listed(f.acl)
         /\ revoked' # revoked =>
              \E f \in seen : \A d \in revoked' \ revoked :
                \E x \in Admitted(authorizer) \ Listed(f.acl) :
                  x.service = d.service /\ x.entry.channel = d.channel
<1>1. ASSUME reload \in {"queue", "adopt"}
      PROVE  \E f \in seen : Admitted(Load(read)) = Listed(f.acl)
  BY <1>1, LoadAdmitsListed DEF PassInv
<1>2. ASSUME authorizer' # authorizer
      PROVE  \E f \in seen : Admitted(authorizer') = Listed(f.acl)
  BY <1>1, <1>2, ChangesOfReload
<1>3. ASSUME revoked' # revoked
      PROVE  \E f \in seen : \A d \in revoked' \ revoked :
               \E x \in Admitted(authorizer) \ Listed(f.acl) :
                 x.service = d.service /\ x.entry.channel = d.channel
  <2>1. revoked' = revoked \cup Denials(Targets) /\ reload = "queue"
    BY <1>3, ChangesOfReload
  <2>2. PICK f \in seen : Admitted(Load(read)) = Listed(f.acl)
    BY <1>1, <2>1
  <2>3. ASSUME NEW d \in revoked' \ revoked
        PROVE  \E x \in Admitted(authorizer) \ Listed(f.acl) :
                 x.service = d.service /\ x.entry.channel = d.channel
    <3>1. PICK t \in Targets : d.service = t.service /\ d.channel = t.channel
      BY <2>1 DEF Denials
    <3>2. QED
      BY <2>2, <3>1, TargetIsWithdrawn
  <2>4. QED
    BY <2>3
<1>4. QED
  BY <1>2, <1>3

\* However the files are replaced while reloadAuthorizer reads them, it adopts
\* the admissions of one ACL that was in place during the pass, all of them and
\* no others, and revokes only what that ACL withdraws.
THEOREM ReloadFollowsOneACLHolds == Spec => ReloadFollowsOneACL
<1>1. Init => PassInv
  BY DEF Init, PassInv
<1>2. QED
  BY <1>1, TypeInit, TypeStep, PassStep, FollowsStep, PTL DEF Spec, ReloadFollowsOneACL

-----------------------------------------------------------------------------
(***************************************************************************)
(* The bound on the outbox. A batch is compared with it by its size, so    *)
(* what a reload revokes has to be finite, and that is because files are.  *)
(***************************************************************************)

\* The values of a function on a finite set.
LEMMA ImageFinite ==
  ASSUME NEW S, IsFiniteSet(S), NEW f, DOMAIN f = S, f = [x \in S |-> f[x]]
  PROVE  IsFiniteSet({f[x] : x \in S})
<1> DEFINE T == {f[x] : x \in S}
<1>1. f \in Surjection(S, T)
  BY DEF Surjection
<1> HIDE DEF T
<1>2. IsFiniteSet(T)
  BY <1>1, FS_Surjection
<1>3. QED
  BY <1>2 DEF T

\* A file has finitely many rows.
LEMMA RowsFinite ==
  ASSUME NEW Rows, NEW f \in File(Rows)
  PROVE  IsFiniteSet(RowsOf(f))
<1>1. f.rows \in Seq(Rows)
  BY DEF File
<1>2. /\ Len(f.rows) \in Nat /\ DOMAIN f.rows = 1 .. Len(f.rows)
      /\ f.rows \in [1 .. Len(f.rows) -> Rows]
  BY <1>1, LenProperties
<1>3. IsFiniteSet(1 .. Len(f.rows))
  <2>1. 1 \in Int /\ Len(f.rows) \in Int
    BY <1>2
  <2>2. QED
    BY <2>1, FS_Interval
<1>4. PICK g : g = f.rows
  OBVIOUS
<1>5. PICK S : S = 1 .. Len(f.rows)
  OBVIOUS
<1>6. DOMAIN g = S /\ g = [x \in S |-> g[x]] /\ IsFiniteSet(S)
  BY <1>2, <1>3, <1>4, <1>5
<1>7. IsFiniteSet({g[x] : x \in S})
  BY <1>6, ImageFinite
<1>8. QED
  BY <1>4, <1>6, <1>7 DEF RowsOf, Range

Finite(as) == IsFiniteSet(as) /\ \A s \in as : IsFiniteSet(s.admissions)

\* The authorizer of three files is finite, and so is every scope in it.
LEMMA LoadFinite ==
  ASSUME NEW f \in Files
  PROVE  Finite(Load(f))
<1>1. IsFiniteSet(RowsOf(f.services)) /\ IsFiniteSet(RowsOf(f.acl))
  BY RowsFinite DEF Files
<1>2. IsFiniteSet(Load(f))
  <2> DEFINE S == RowsOf(f.services)
             g == [row \in S |-> ServiceOf(row, f.acl, f.permissions)]
  <2>1. Load(f) = {g[row] : row \in S}
    BY DEF Load
  <2>2. DOMAIN g = S /\ g = [row \in S |-> g[row]]
    OBVIOUS
  <2> HIDE DEF S, g
  <2>3. IsFiniteSet(S)
    BY <1>1 DEF S
  <2>4. QED
    BY <2>1, <2>2, <2>3, ImageFinite
<1>3. ASSUME NEW row
      PROVE  IsFiniteSet(ServiceOf(row, f.acl, f.permissions).admissions)
  <2> DEFINE S == {x \in RowsOf(f.acl) : x.service = row.id /\ x.enabled}
             g == [r \in S |-> r.entry]
  <2>1. ServiceOf(row, f.acl, f.permissions).admissions = {g[r] : r \in S}
    BY DEF ServiceOf
  <2>2. DOMAIN g = S /\ g = [r \in S |-> g[r]]
    OBVIOUS
  <2>3. S \in SUBSET RowsOf(f.acl)
    OBVIOUS
  <2> HIDE DEF S, g
  <2>4. IsFiniteSet(S)
    BY <1>1, <2>3, FS_Subset
  <2>5. QED
    BY <2>1, <2>2, <2>4, ImageFinite
<1>4. QED
  BY <1>2, <1>3 DEF Finite, Load

\* The revocations between two authorizers are finitely many.
LEMMA RevocationsFinite ==
  ASSUME NEW as, NEW bs, Finite(as)
  PROVE  IsFiniteSet(managementAutomaticRevocations(as, bs))
<1> DEFINE Enabled == {x \in as : x.enabled}
           g == [s \in Enabled |-> {Target(s, e, bs) : e \in Withdrawn(s, bs)}]
<1>1. managementAutomaticRevocations(as, bs) = UNION {g[s] : s \in Enabled}
  BY DEF managementAutomaticRevocations
<1>2. DOMAIN g = Enabled /\ g = [s \in Enabled |-> g[s]]
  OBVIOUS
<1>3. ASSUME NEW s \in Enabled PROVE IsFiniteSet(g[s])
  <2> DEFINE W == Withdrawn(s, bs)
             h == [e \in W |-> Target(s, e, bs)]
  <2>1. g[s] = {h[e] : e \in W}
    OBVIOUS
  <2>2. DOMAIN h = W /\ h = [e \in W |-> h[e]]
    OBVIOUS
  <2>3. IsFiniteSet(s.admissions) /\ W \in SUBSET s.admissions
    BY DEF Finite, Withdrawn
  <2> HIDE DEF W, h, g
  <2>4. IsFiniteSet(W)
    BY <2>3, FS_Subset
  <2>5. QED
    BY <2>1, <2>2, <2>4, ImageFinite
<1>4. Enabled \in SUBSET as
  OBVIOUS
<1> HIDE DEF Enabled, g
<1>5. IsFiniteSet(Enabled)
  BY <1>4, FS_Subset DEF Finite
<1>6. IsFiniteSet({g[s] : s \in Enabled})
  BY <1>2, <1>5, ImageFinite
<1>7. QED
  BY <1>1, <1>3, <1>6, FS_UNION

\* The rest of TypeOK, and the finiteness of the authorizer in use.
OutboxInv ==
  /\ Finite(authorizer)
  /\ queued \in 0 .. MaxPending
  /\ files \in FileSets
  /\ edits \in Nat /\ failures \in Nat /\ up \in BOOLEAN
  /\ reload \in ReloadStates
  /\ answered \subseteq Requests
  /\ tracked \subseteq grants /\ unnoticed \subseteq grants
  /\ seen \subseteq FileSets

\* The revocations of a reload have a number.
LEMMA TargetsCounted ==
  ASSUME OutboxInv
  PROVE  Cardinality(Targets) \in Nat
<1>1. IsFiniteSet(Targets)
  BY RevocationsFinite DEF OutboxInv, Targets
<1>2. QED
  BY <1>1, FS_CardinalityType

\* Every action keeps the outbox within its limit, and the other types.
LEMMA OutboxStep == Types /\ OutboxInv /\ [Next]_vars => OutboxInv'
<1> SUFFICES ASSUME Types, OutboxInv, [Next]_vars PROVE OutboxInv'
  OBVIOUS
<1> USE AdmissionAssumption DEF diskVars, processVars, reloadVars, grantVars, historyVars
<1>1. ASSUME NEW f \in FileSets, Edit(f) PROVE OutboxInv'
  BY <1>1 DEF Edit, OutboxInv
<1>2. CASE ReadServices \/ ReadACL \/ ReadPermissions
  <2>1. reload' \in ReloadStates
    BY <1>2 DEF ReadServices, ReadACL, ReadPermissions, Proceed, ReloadStates
  <2>2. QED
    BY <1>2, <2>1 DEF ReadServices, ReadACL, ReadPermissions, OutboxInv
<1>3. CASE QueueRevocations
  <2>1. Cardinality(Targets) \in Nat
    BY TargetsCounted
  <2>2. queued' \in 0 .. MaxPending
    BY <1>3, <2>1 DEF QueueRevocations, OutboxInv
  <2>3. QED
    BY <1>3, <2>2 DEF QueueRevocations, OutboxInv, ReloadStates
<1>4. CASE QueueFull \/ QueueFailure
  BY <1>4 DEF QueueFull, QueueFailure, OutboxInv, ReloadStates
<1>5. CASE Adopt
  <2>1. Finite(authorizer')
    BY <1>5, LoadFinite DEF Adopt, Types
  <2>2. QED
    BY <1>5, <2>1 DEF Adopt, OutboxInv, ReloadStates
<1>6. CASE Drain
  BY <1>6 DEF Drain, OutboxInv
<1>7. ASSUME NEW r \in Requests, NEW cert \in Certs, Authenticate(r, cert) PROVE OutboxInv'
  BY <1>7 DEF Authenticate, OutboxInv
<1>8. ASSUME NEW h \in held, Finish(h) PROVE OutboxInv'
  BY <1>8 DEF Finish, OutboxInv
<1>9. ASSUME NEW h \in held, NEW wanted \in SUBSET GrantPermissions,
             NEW e \in h.service.admissions, IssueGrant(h, e, wanted)
      PROVE  OutboxInv'
  <2>1. h.request \in Requests
    BY HeldType DEF Types
  <2>2. answered' \subseteq Requests
    BY <1>9, <2>1 DEF IssueGrant, Answer, OutboxInv
  <2>3. tracked' \subseteq grants' /\ unnoticed' \subseteq grants'
    BY <1>9, IssueEffect DEF OutboxInv, Unexpired
  <2>4. QED
    BY <1>9, <2>2, <2>3 DEF IssueGrant, OutboxInv
<1>10. ASSUME NEW h \in held, NEW r \in RevocationRequests, Revoke(h, r) PROVE OutboxInv'
  <2>1. h.request \in Requests
    BY HeldType DEF Types
  <2>2. answered' \subseteq Requests
    BY <1>10, <2>1 DEF Revoke, Answer, OutboxInv
  <2>3. tracked' \subseteq grants'
    BY <1>10 DEF Revoke, Unexpired, OutboxInv
  <2>4. queued' \in 0 .. MaxPending
    BY <1>10 DEF Revoke, WithOneMore, OutboxInv
  <2>5. QED
    BY <1>10, <2>2, <2>3, <2>4 DEF Revoke, OutboxInv
<1>11. CASE Crash
  BY <1>11 DEF Crash, OutboxInv, ReloadStates
<1>12. CASE Start
  <2>1. Finite(authorizer')
    BY <1>12, LoadFinite DEF Start, Types
  <2>2. QED
    BY <1>12, <2>1 DEF Start, OutboxInv, ReloadStates
<1>13. CASE Tick
  BY <1>13 DEF Tick, OutboxInv
<1>14. CASE UNCHANGED vars
  BY <1>14 DEF vars, OutboxInv
<1>15. QED
  BY <1>1, <1>2, <1>3, <1>4, <1>5, <1>6, <1>7, <1>8, <1>9, <1>10, <1>11, <1>12, <1>13,
     <1>14 DEF Next

\* The outbox never exceeds privateControlMaxPendingCommands, whether a single
\* revocation or the batch of a reload is queued, and every other variable of
\* the handlers and the reload keeps its type.
THEOREM TypeCorrect == Spec => []TypeOK
<1>1. ASSUME Init PROVE OutboxInv
  <2>1. Finite(authorizer)
    BY <1>1, LoadFinite, AdmissionAssumption DEF Init
  <2>2. QED
    BY <1>1, <2>1, AdmissionAssumption DEF Init, OutboxInv, ReloadStates
<1>2. Types /\ OutboxInv => TypeOK
  BY DEF Types, OutboxInv, TypeOK, HeldRequests, RevokedScopes
<1>3. QED
  BY <1>1, <1>2, TypeInit, TypeStep, OutboxStep, PTL DEF Spec
=============================================================================
