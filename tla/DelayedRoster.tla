--------------------------- MODULE DelayedRoster ---------------------------
(***************************************************************************)
(* What the readers of the roster are promised, without frames, chunks,    *)
(* sessions or counts: what they see is the Relay's roster of a moment     *)
(* ago. Module ServedRoster shows that RelayProjection implements it.      *)
(*                                                                         *)
(* The promise:                                                            *)
(*   - a roster is published only when what is known to follow it ends     *)
(*     with the Relay's;                                                   *)
(*   - from then on it goes through what follows in order, skipping,       *)
(*     repeating and taking back nothing, and is never replaced as a whole *)
(*     while the connection lives;                                         *)
(*   - when the connection is lost it stays as it is, and is withdrawn     *)
(*     before another one is published.                                    *)
(***************************************************************************)
EXTENDS Naturals, Sequences

CONSTANT Rosters

VARIABLES
  truth,   \* the Relay's roster
  ahead,   \* the served roster and those that follow it; <<>>: none is served
  current  \* the served roster is of a connection that lives

vars == <<truth, ahead, current>>

Init ==
  /\ truth \in Rosters
  /\ ahead = <<>>
  /\ current = FALSE

EndsWith(s, r) == s # <<>> /\ s[Len(s)] = r

Extends(s, t) == Len(s) <= Len(t) /\ \A i \in 1 .. Len(s) : t[i] = s[i]

\* The Relay's roster changes, and what follows the served one grows.
Change ==
  /\ truth' \in Rosters
  /\ IF current THEN Extends(ahead, ahead') /\ EndsWith(ahead', truth')
                ELSE UNCHANGED ahead
  /\ UNCHANGED current

Advance ==
  /\ current
  /\ Len(ahead) > 1
  /\ ahead' = Tail(ahead)
  /\ UNCHANGED <<truth, current>>

Publish ==
  /\ ahead = <<>>
  /\ EndsWith(ahead', truth)
  /\ current' = TRUE
  /\ UNCHANGED truth

Lose ==
  /\ current
  /\ ahead' = <<Head(ahead)>>
  /\ current' = FALSE
  /\ UNCHANGED truth

Withdraw ==
  /\ ~current
  /\ ahead' = <<>>
  /\ UNCHANGED <<truth, current>>

Next == Change \/ Advance \/ Publish \/ Lose \/ Withdraw

Spec == Init /\ [][Next]_vars
=============================================================================
