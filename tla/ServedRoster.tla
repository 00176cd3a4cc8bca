---------------------------- MODULE ServedRoster ----------------------------
(***************************************************************************)
(* RelayProjection implements DelayedRoster. The rosters that follow the   *)
(* served one are what the frames in flight make of it, one after another. *)
(***************************************************************************)
EXTENDS RelayProjection

\* Roster c and what it becomes with each of the frames of l.
Ahead(c, l) == [i \in 1 .. Len(l) + 1 |-> Norm(Replay(c, SubSeq(l, 1, i - 1)))]

Copy ==
  INSTANCE DelayedRoster
    WITH truth   <- Norm(relay),
         ahead   <- IF Ready THEN Ahead(channels, link) ELSE <<>>,
         current <- Ready /\ session = "open"

\* What readers of GET /v1/channels can rely on: every step of the Relay, the
\* session and the state, lost connections included, is one of the delayed copy
\* or changes nothing they can see.
ImplementsDelayedRoster == Copy!Spec
=============================================================================
