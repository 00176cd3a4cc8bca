---------------------------- MODULE OutboxLedger ----------------------------
(***************************************************************************)
(* CommandOutbox implements RevocationLedger. A command is open while the  *)
(* process has it in memory or a start could load it from the store, as a  *)
(* reader sees the file or as a power loss would leave it.                 *)
(***************************************************************************)
EXTENDS CommandOutbox

Ledger ==
  INSTANCE RevocationLedger
    WITH request <- caller, verdict <- outcome, open <- pending \cup store \cup stable

\* What callers of the revocation API and the ACL reload can rely on: every step
\* of the outbox, its failures, crashes and restarts included, is a step of the
\* ledger or leaves the ledger as it is.
ImplementsLedger == Ledger!Spec
=============================================================================
