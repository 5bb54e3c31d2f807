---------------------------- MODULE ConnectionEnd ----------------------------
(***************************************************************************)
(* How one player connection ends, as both models of settle_channels have  *)
(* it: SeatLink, which has the frames of one connection, and GameServer,   *)
(* which has every connection of a game.  A connection is vouched for only *)
(* if it acknowledged its own stop, over a working reader and before the   *)
(* one deadline, and the settlement ended before that deadline without the *)
(* reader having broken.  The deadline may be set before the stop, it is   *)
(* never moved, and what was withheld is never vouched for afterwards.     *)
(***************************************************************************)

VARIABLES reader, \* reading, lost with its connection, or broken by a frame
          clock,  \* the stop deadline: unset, running or past
          stage,  \* open, stopping, and then settled or withheld
          acked   \* it has acknowledged the stop

Init ==
  /\ reader = "reading"
  /\ clock = "unset"
  /\ stage = "open"
  /\ acked = FALSE

StopReading ==
  /\ reader = "reading"
  /\ reader' \in {"lost", "broken"}
  /\ UNCHANGED <<clock, stage, acked>>

SetDeadline ==
  /\ clock = "unset"
  /\ clock' = "running"
  /\ UNCHANGED <<reader, stage, acked>>

DeadlinePasses ==
  /\ clock = "running"
  /\ clock' = "past"
  /\ UNCHANGED <<reader, stage, acked>>

Stop ==
  /\ stage = "open"
  /\ stage' = "stopping"
  /\ clock' = IF clock = "unset" THEN "running" ELSE clock
  /\ UNCHANGED <<reader, acked>>

Acknowledge ==
  /\ stage = "stopping" /\ clock = "running"
  /\ reader = "reading" /\ ~acked
  /\ acked' = TRUE
  /\ UNCHANGED <<reader, clock, stage>>

Settle ==
  /\ stage = "stopping"
  /\ acked /\ clock = "running" /\ reader # "broken"
  /\ stage' = "settled"
  /\ UNCHANGED <<reader, clock, acked>>

(* Also after it was settled: another part of the game may not have ended. *)
Withhold ==
  /\ stage \in {"stopping", "settled"}
  /\ stage' = "withheld"
  /\ UNCHANGED <<reader, clock, acked>>

Next ==
  \/ StopReading \/ SetDeadline \/ DeadlinePasses
  \/ Stop \/ Acknowledge \/ Settle \/ Withhold

Spec == Init /\ [][Next]_<<reader, clock, stage, acked>>
=============================================================================
