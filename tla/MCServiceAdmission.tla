------------------------ MODULE MCServiceAdmission ------------------------
(***************************************************************************)
(* Files for the model checker: an operator service with a recorder entry  *)
(* on one channel and an automation entry on the other, and an             *)
(* administrator who may revoke.                                           *)
(***************************************************************************)
EXTENDS ServiceAdmission

Readable(rows) == [readable |-> TRUE, rows |-> rows]

Service(id, cert, role, enabled) ==
  [id |-> id, cert |-> cert, role |-> role, enabled |-> enabled]

Recorder(channel) ==
  [channel |-> channel, sender |-> 1, role |-> "recorder", listen |-> TRUE,
   talk |-> FALSE, interrupt |-> FALSE, priority |-> 0]

Automation(channel) ==
  [channel |-> channel, sender |-> 1, role |-> "automation", listen |-> TRUE,
   talk |-> TRUE, interrupt |-> TRUE, priority |-> 9]

RowOf(service, entry) == [service |-> service, entry |-> entry, enabled |-> TRUE]
Row(entry)            == RowOf("desk", entry)

Administrator == Service("boss", "cert2", "admin", TRUE)

MayRevoke ==
  [service |-> "boss", permission |-> "service_admission.revoke", enabled |-> TRUE]

Operating(rows) ==
  [services |-> Readable(<<Service("desk", "cert1", "operator", TRUE), Administrator>>),
   acl |-> Readable(rows), permissions |-> Readable(<<MayRevoke>>)]

\* Both scopes; none at all; another API role, less on channel 2, and an entry of
\* a service that is new; and files that do not validate, with a recorder that
\* may talk.
Full == Operating(<<Row(Recorder(1)), Row(Automation(2))>>)

Disabled ==
  [services |-> Readable(<<Administrator, Service("desk", "cert1", "operator", FALSE)>>),
   acl |-> Readable(<<>>), permissions |-> Readable(<<MayRevoke>>)]

Auditing ==
  [services |-> Readable(<<Service("desk", "cert1", "auditor", TRUE), Administrator,
                           Service("aide", "cert3", "viewer", TRUE)>>),
   acl |-> Readable(<<Row(Recorder(1)), RowOf("aide", Recorder(2)),
             Row([Automation(2) EXCEPT !.interrupt = FALSE, !.priority = 0])>>),
   permissions |-> Readable(<<MayRevoke>>)]

Talking == Operating(<<Row([Recorder(1) EXCEPT !.talk = TRUE])>>)

AllFileSets == {Full, Disabled, Auditing, Talking}
=============================================================================
