-------------------------- MODULE RevocationLedger --------------------------
(***************************************************************************)
(* What the revocation service promises to those who ask it for a          *)
(* revocation, without queue, store, connections or crashes: who was told  *)
(* what, what became of each command, and which commands the service may   *)
(* still send. Module OutboxLedger shows that CommandOutbox implements it. *)
(*                                                                         *)
(* The promise:                                                            *)
(*   - a batch is accepted or refused as a whole;                          *)
(*   - an accepted command stays open until there is a verdict on it;      *)
(*   - the verdict on a command that is no longer open never changes;      *)
(*   - a caller is answered at most once, and told ok or failed only by    *)
(*     the final verdict.                                                  *)
(* It does not promise that a refused command is never sent: one whose     *)
(* write reached the store before it failed may be.                        *)
(***************************************************************************)
CONSTANT Ids

VARIABLES
  request,  \* what the request was told, or waits for
  verdict,  \* what is known of the command's end
  open      \* commands that may still be sent, now or after a restart

vars == <<request, verdict, open>>

Init ==
  /\ request = [c \in Ids |-> "unused"]
  /\ verdict = [c \in Ids |-> "none"]
  /\ open = {}

Told(S, s) == request' = [c \in Ids |-> IF c \in S THEN s ELSE request[c]]

(***************************************************************************)
(* A command leaves the open ones with a verdict, or because its request   *)
(* was refused.                                                            *)
(***************************************************************************)
Releases(S) ==
  \A c \in Ids : c \in open /\ c \notin S => request[c] = "refused" \/ verdict'[c] # "none"

Submit(S, s) ==
  /\ S # {}
  /\ \A c \in S : request[c] = "unused"
  /\ s \in {"waiting", "queued", "refused"}
  /\ Told(S, s)
  /\ verdict' = verdict
  /\ open' \subseteq open \cup S
  /\ s # "refused" => S \subseteq open'
  /\ Releases(open')

(***************************************************************************)
(* Work on the open commands. A restart leaves its waiting callers without *)
(* an answer.                                                              *)
(***************************************************************************)
Work ==
  /\ \/ request' = request
     \/ request' = [c \in Ids |-> IF request[c] = "waiting" THEN "gone" ELSE request[c]]
  /\ open' \subseteq open
  /\ Releases(open')
  /\ \A c \in Ids : verdict'[c] # verdict[c] => c \in open /\ verdict'[c] # "none"

Answer(c, s) ==
  /\ request[c] = "waiting"
  /\ \/ s = "ok" /\ verdict[c] = "acked" /\ c \notin open
     \/ s = "failed" /\ verdict[c] \in {"rejected", "expired"} /\ c \notin open
     \/ s \in {"accepted", "gone"}
  /\ Told({c}, s)
  /\ UNCHANGED <<verdict, open>>

Next ==
  \/ \E S \in SUBSET Ids, s \in {"waiting", "queued", "refused"} : Submit(S, s)
  \/ Work
  \/ \E c \in Ids, s \in {"ok", "failed", "accepted", "gone"} : Answer(c, s)

Spec == Init /\ [][Next]_vars
=============================================================================
