----------------------------- MODULE Authorizer -----------------------------
(***************************************************************************)
(* The authorizer of the Management API as pure operators: how             *)
(* loadManagementAPIAuthorizer builds it from the three CSV files          *)
(* (management_api.go), what a service may do, and which revocations the   *)
(* replacement of one authorizer by another causes                         *)
(* (management_acl_reload.go).                                             *)
(*                                                                         *)
(* A file is readable, or it is not: "readable" stands for                 *)
(* readManagementCSV and the field parsers accepting all of it. Its rows   *)
(* are a sequence, because a row may be there twice. An authorizer is a    *)
(* set of service records: byService and byFingerprint map to the same     *)
(* records, which hold their certificate here.                             *)
(***************************************************************************)
EXTENDS Integers, Sequences, Functions

CONSTANTS
  Services,  \* service_id values
  Certs,     \* certificate_sha256 values
  Channels,  \* channel_id values
  Senders    \* sender_id values

APIRoles       == {"viewer", "recorder", "operator", "auditor", "admin"}
AdmissionRoles == {"recorder", "observer", "automation"}
Permissions    == {"health.read", "service_admission.revoke"}

ServiceRows == [id : Services, cert : Certs, role : APIRoles, enabled : BOOLEAN]

Entries ==
  [channel : Channels, sender : Senders, role : AdmissionRoles, listen : BOOLEAN,
   talk : BOOLEAN, interrupt : BOOLEAN, priority : 0 .. 255]

ACLRows        == [service : Services, entry : Entries, enabled : BOOLEAN]
PermissionRows == [service : Services, permission : Permissions, enabled : BOOLEAN]

File(Rows) == [readable : BOOLEAN, rows : Seq(Rows)]

Files ==
  [services : File(ServiceRows), acl : File(ACLRows), permissions : File(PermissionRows)]

ServiceRecords ==
  [id : Services, cert : Certs, role : APIRoles, enabled : BOOLEAN,
   admissions : SUBSET Entries, permissions : SUBSET Permissions]

-----------------------------------------------------------------------------
(***************************************************************************)
(* loadManagementAPIAuthorizer. Each file is validated as it is read, the  *)
(* second and the third against the services of the first.                 *)
(***************************************************************************)
RowsOf(file) == Range(file.rows)

ValidServices(services) ==
  /\ services.readable
  /\ IsInjective([i \in DOMAIN services.rows |-> services.rows[i].id])
  /\ IsInjective([i \in DOMAIN services.rows |-> services.rows[i].cert])

KnownEnabled(services, id) == \E r \in RowsOf(services) : r.id = id /\ r.enabled

\* recorder and observer are receive-only.
ReceiveOnly(e) == e.listen /\ ~e.talk /\ ~e.interrupt /\ e.priority = 0

\* Mutant: the receive-only rule is left out.
ValidEntryOfAnyRole(e) ==
  /\ e.interrupt => e.talk /\ e.priority # 0
  /\ ~e.interrupt => e.priority = 0

ValidEntry(e) ==
  /\ e.role \in {"recorder", "observer"} => ReceiveOnly(e)
  /\ e.interrupt => e.talk /\ e.priority # 0
  /\ ~e.interrupt => e.priority = 0

\* Mutant: the row of a service that is unknown or disabled is passed over.
ValidACLOfAnyService(services, acl) ==
  /\ acl.readable
  /\ \A r \in RowsOf(acl) : ValidEntry(r.entry)
  /\ IsInjective([i \in DOMAIN acl.rows |->
       <<acl.rows[i].service, acl.rows[i].entry.channel, acl.rows[i].entry.sender>>])

ValidACL(services, acl) ==
  /\ acl.readable
  /\ \A r \in RowsOf(acl) : KnownEnabled(services, r.service) /\ ValidEntry(r.entry)
  /\ IsInjective([i \in DOMAIN acl.rows |->
       <<acl.rows[i].service, acl.rows[i].entry.channel, acl.rows[i].entry.sender>>])

ValidPermissions(services, permissions) ==
  /\ permissions.readable
  /\ \A r \in RowsOf(permissions) : KnownEnabled(services, r.service)
  /\ IsInjective([i \in DOMAIN permissions.rows |->
       <<permissions.rows[i].service, permissions.rows[i].permission>>])

Valid(files) ==
  /\ ValidServices(files.services)
  /\ ValidACL(files.services, files.acl)
  /\ ValidPermissions(files.services, files.permissions)

ServiceOf(row, acl, permissions) ==
  [id |-> row.id, cert |-> row.cert, role |-> row.role, enabled |-> row.enabled,
   admissions |->
     {r.entry : r \in {x \in RowsOf(acl) : x.service = row.id /\ x.enabled}},
   permissions |->
     {r.permission : r \in {x \in RowsOf(permissions) : x.service = row.id /\ x.enabled}}]

Load(files) ==
  {ServiceOf(row, files.acl, files.permissions) : row \in RowsOf(files.services)}

-----------------------------------------------------------------------------
(***************************************************************************)
(* What a service may do about grants and revocations.                     *)
(***************************************************************************)
serviceForRequest(authorizer, cert) == {s \in authorizer : s.cert = cert /\ s.enabled}

hasGlobalPermission(s, p) == p \in s.permissions

canRequestGrants(s) == s.role \in {"recorder", "operator"}

canRevoke(s) ==
  s.role = "admin" /\ hasGlobalPermission(s, "service_admission.revoke")

-----------------------------------------------------------------------------
(***************************************************************************)
(* managementAutomaticRevocations: a channel of an enabled service is      *)
(* revoked when one of its entries is gone or changed in any field.        *)
(***************************************************************************)
Admits(authorizer, id, e) ==
  \E s \in authorizer : s.id = id /\ s.enabled /\ e \in s.admissions

\* All that an authorizer admits, and all that an ACL file asks it to admit.
Admitted(authorizer) ==
  UNION {{[service |-> s.id, entry |-> e] : e \in s.admissions} :
           s \in {x \in authorizer : x.enabled}}

Listed(acl) ==
  {[service |-> r.service, entry |-> r.entry] : r \in {x \in RowsOf(acl) : x.enabled}}

RemainsEnabled(authorizer, id) == \E s \in authorizer : s.id = id /\ s.enabled

\* Mutant: an entry is compared by its channel and role only.
WithdrawnByRole(s, replacement) ==
  {e \in s.admissions :
     ~\E n \in replacement : /\ n.id = s.id
                             /\ n.enabled
                             /\ \E f \in n.admissions :
                                  f.channel = e.channel /\ f.role = e.role}

Withdrawn(s, replacement) == {e \in s.admissions : ~Admits(replacement, s.id, e)}

Target(s, e, replacement) ==
  [service |-> s.id, channel |-> e.channel,
   reason |-> IF RemainsEnabled(replacement, s.id) THEN "acl_removed"
                                                   ELSE "service_disabled"]

managementAutomaticRevocations(previous, replacement) ==
  UNION {{Target(s, e, replacement) : e \in Withdrawn(s, replacement)} :
           s \in {x \in previous : x.enabled}}
=============================================================================
