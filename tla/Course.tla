------------------------------- MODULE Course -------------------------------
(***************************************************************************)
(* The course of a game, as both models of Episode.run must have it:       *)
(* Episode, which has the messages, and Moot, which has the law.  Turns    *)
(* are played one after the other up to a cap; in each the proposer acts,  *)
(* with one repair of an action ruled invalid, and then a law is made,     *)
(* unless the action has won the game; a game that is won or has reached   *)
(* the cap is over.  It may fail at any point.                             *)
(***************************************************************************)
EXTENDS Naturals

CONSTANT TurnsMax

VARIABLES at,     \* between turns, in one half of a turn, or at an end
          turn,   \* the turn being played, or the last one played
          attempt \* at its action, or at the repair

Init ==
  /\ at = "between"
  /\ turn = 0
  /\ attempt = 1

BeginTurn ==
  /\ at = "between" /\ turn < TurnsMax
  /\ at' = "action"
  /\ turn' = turn + 1
  /\ attempt' = 1

Repair ==
  /\ at = "action" /\ attempt = 1
  /\ attempt' = 2
  /\ UNCHANGED <<at, turn>>

EndAction ==
  /\ at = "action"
  /\ at' \in {"law", "over"}
  /\ UNCHANGED <<turn, attempt>>

EndTurn ==
  /\ at = "law"
  /\ at' \in {"between", "over"}
  /\ UNCHANGED <<turn, attempt>>

ReachCap ==
  /\ at = "between" /\ turn = TurnsMax
  /\ at' = "over"
  /\ UNCHANGED <<turn, attempt>>

Fail ==
  /\ at' = "failed"
  /\ UNCHANGED <<turn, attempt>>

Next == BeginTurn \/ Repair \/ EndAction \/ EndTurn \/ ReachCap \/ Fail

Spec == Init /\ [][Next]_<<at, turn, attempt>>
=============================================================================
