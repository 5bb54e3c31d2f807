------------------------------ MODULE Episode -------------------------------
(***************************************************************************)
(* The exchange of messages between the Episode and its seats              *)
(* (gnomic/server/episode.py): introductions, requests that run in         *)
(* parallel, public messages, the private record of every window, and the  *)
(* asks that outlive a failed phase.  What the law makes of a turn is      *)
(* module Moot's; here a ruling only decides where the turn goes next.     *)
(***************************************************************************)
EXTENDS Naturals, SequencesExt

CONSTANT TurnsMax  \* config.turns_max

ASSUME TurnsAssumption == TurnsMax \in Nat \ {0}

SEAT_COUNT == 3
Seats == 0 .. SEAT_COUNT - 1

(* The request kinds, the public messages and the rulings of a turn: each  *)
(* is one stage of the episode.                                            *)
Asking == {"introduce", "action", "action_repair", "proposal", "debate", "vote"}
Public == {"game_start", "turn_start", "action_made", "action_ruling",
           "proposal_made", "debate_made", "vote_reveal", "judge_ruling", "game_over"}
Judging == {"action_judge", "judge"}
Over == {"done", "failed", "cancelled"}

Messages == [type : Public, turn : 0 .. TurnsMax]

VARIABLES stage,    \* where the episode is
          turn,     \* current_turn
          proposer, \* this turn's proposer
          attempt,  \* 1, or 2 for the action repair
          valid,    \* the last action ruling is valid
          won,      \* winner_slots is not empty
          todo,     \* seats this stage has still to ask, or to send to
          windows,  \* Capture.windows: one per rid, in rid order
          heard,    \* the public messages each seat was sent
          events,   \* Episode.events
          history,  \* turns recorded in Episode.history
          sealed    \* Capture.sealed

exchange == <<todo, windows, heard>>
law == <<turn, proposer, attempt, valid, won, history>>
vars == <<stage, exchange, law, events, sealed>>

(* answered: the ask has its reply, the private record does not yet.        *)
Window == [seat : Seats, kind : Asking, turn : 0 .. TurnsMax,
           state : {"open", "answered", "closed"}]

Init ==
  /\ stage = "introduce"
  /\ turn = 0
  /\ proposer = 0
  /\ attempt = 1
  /\ valid = FALSE
  /\ won = FALSE
  /\ todo = Seats
  /\ windows = << >>
  /\ heard = [s \in Seats |-> << >>]
  /\ events = << >>
  /\ history = << >>
  /\ sealed = FALSE

Asked(kind) ==
  CASE kind \in {"introduce", "vote"} -> Seats
    [] kind = "debate" -> Seats \ {proposer}
    [] OTHER -> {proposer}

Enter(next) ==
  /\ stage' = next
  /\ todo' = CASE next \in Asking -> Asked(next)
               [] next \in Public -> Seats
               [] OTHER -> {}

-----------------------------------------------------------------------------
(* Requests.                                                               *)

Unanswered == {r \in DOMAIN windows : windows[r].state = "open"}

(* The asks of a stage are started in seat order, each with the next rid;  *)
(* what the seat is sent is its window's request.                          *)
Ask(s) ==
  /\ stage \in Asking
  /\ s \in todo /\ \A t \in todo : s <= t
  /\ windows' = Append(windows, [seat |-> s, kind |-> stage,
                                 turn |-> turn, state |-> "open"])
  /\ todo' = todo \ {s}
  /\ UNCHANGED <<stage, heard, law, events, sealed>>

(* Mutant: the private record is not asked whether it is sealed.           *)
Answer_Late(r) ==
  /\ stage \in Asking \cup {"failed"}
  /\ r \in Unanswered
  /\ windows' = [windows EXCEPT ![r].state =
                   IF @ = "open" /\ windows[r].kind = "introduce"
                     THEN "answered" ELSE "closed"]
  /\ UNCHANGED <<stage, todo, heard, law, events, sealed>>

(* A reply or, at the window's deadline, the default: consumed into the    *)
(* private record, unless that is sealed and consumed raises.  An ask whose *)
(* sibling failed the episode goes on by itself.                           *)
Answer(r) ==
  /\ stage \in Asking \cup {"failed"}
  /\ r \in Unanswered
  /\ ~sealed
  /\ windows' = [windows EXCEPT ![r].state =
                   IF windows[r].kind = "introduce" THEN "answered" ELSE "closed"]
  /\ UNCHANGED <<stage, todo, heard, law, events, sealed>>

(* A vote or vote_intent that is a list or an object cannot be looked up   *)
(* in a set: _parse_vote and _parse_debate raise, and gather passes it on. *)
AnswerRaises(r) ==
  /\ stage \in {"debate", "vote"}
  /\ todo = {}
  /\ r \in Unanswered
  /\ stage' = "failed"
  /\ windows' = [windows EXCEPT ![r].state = "answered"]
  /\ UNCHANGED <<todo, heard, law, events, sealed>>

(* Mutant: introductions are not consumed.                                 *)
Introduced_Unconsumed ==
  /\ stage = "introduce"
  /\ todo = {} /\ Unanswered = {}
  /\ Enter("game_start")
  /\ UNCHANGED <<windows, heard, law, events, sealed>>

(* Names are settled when every seat has answered, and consumed together.  *)
Introduced ==
  /\ stage = "introduce"
  /\ todo = {} /\ Unanswered = {}
  /\ windows' = [r \in DOMAIN windows |-> [windows[r] EXCEPT !.state = "closed"]]
  /\ Enter("game_start")
  /\ UNCHANGED <<heard, law, events, sealed>>

AfterAsking(kind) ==
  CASE kind \in {"action", "action_repair"} -> "action_made"
    [] kind = "proposal" -> "proposal_made"
    [] kind = "debate" -> "debate_made"
    [] kind = "vote" -> "vote_reveal"

(* Mutant: the first answer ends the stage.                                *)
Collect_First ==
  /\ stage \in Asking \ {"introduce"}
  /\ todo = {}
  /\ \E r \in DOMAIN windows : windows[r].kind = stage /\ windows[r].turn = turn
                                 /\ windows[r].state = "closed"
  /\ Enter(AfterAsking(stage))
  /\ UNCHANGED <<windows, heard, law, events, sealed>>

(* gather returns when every ask of the stage has its answer.              *)
Collect ==
  /\ stage \in Asking \ {"introduce"}
  /\ todo = {} /\ Unanswered = {}
  /\ Enter(AfterAsking(stage))
  /\ UNCHANGED <<windows, heard, law, events, sealed>>

-----------------------------------------------------------------------------
(* Public messages.                                                        *)

(* _send_all sends to all seats at once, each send at its own pace;        *)
(* game_start alone goes round in seat order.                              *)
Send(s) ==
  /\ stage \in Public
  /\ s \in todo
  /\ stage = "game_start" => \A t \in todo : s <= t
  /\ heard' = [heard EXCEPT ![s] = Append(@, [type |-> stage, turn |-> turn])]
  /\ todo' = todo \ {s}
  /\ UNCHANGED <<stage, windows, law, events, sealed>>

AfterRuling ==
  CASE ~valid /\ attempt = 1 -> "action_repair"
    [] won -> "next"
    [] OTHER -> "proposal"

AfterPublic(message) ==
  CASE message = "turn_start" -> "action"
    [] message = "action_made" -> "action_judge"
    [] message = "action_ruling" -> AfterRuling
    [] message = "proposal_made" -> "debate"
    [] message = "debate_made" -> "vote"
    [] message = "vote_reveal" -> "judge"
    [] message = "game_over" -> "done"
    [] OTHER -> "next"

Log == events' = Append(events, [type |-> stage, turn |-> turn])

(* Mutant: spectators are told before the players are.                     *)
Emit_Early ==
  /\ stage \in Public
  /\ Log
  /\ Enter(AfterPublic(stage))
  /\ attempt' = IF stage' = "action_repair" THEN 2 ELSE attempt
  /\ history' = IF stage = "action_ruling" /\ stage' = "next"
                  THEN Append(history, turn) ELSE history
  /\ UNCHANGED <<windows, heard, turn, proposer, valid, won, sealed>>

(* Mutant: a repaired action that is invalid again is repaired again.      *)
Emit_Again ==
  /\ stage \in Public
  /\ todo = {}
  /\ Log
  /\ Enter(AfterPublic(stage))
  /\ history' = IF stage = "action_ruling" /\ stage' = "next"
                  THEN Append(history, turn) ELSE history
  /\ UNCHANGED <<windows, heard, turn, proposer, attempt, valid, won, sealed>>

(* The event is logged, then broadcast; a winning action ends its turn.    *)
Emit ==
  /\ stage \in Public
  /\ todo = {}
  /\ Log
  /\ Enter(AfterPublic(stage))
  /\ attempt' = IF stage' = "action_repair" THEN 2 ELSE attempt
  /\ history' = IF stage = "action_ruling" /\ stage' = "next"
                  THEN Append(history, turn) ELSE history
  /\ UNCHANGED <<windows, heard, turn, proposer, valid, won, sealed>>

(* The set of spectators changed under the broadcast: see Spectators.      *)
EmitRaises ==
  /\ stage \in Public
  /\ todo = {}
  /\ Log
  /\ Enter("failed")
  /\ UNCHANGED <<windows, heard, law, sealed>>

-----------------------------------------------------------------------------
(* The turn loop and the rulings.                                          *)

(* Mutant: one turn too many.                                              *)
BeginTurn_OneMore(p) ==
  /\ stage = "next"
  /\ ~won /\ turn <= TurnsMax
  /\ turn' = turn + 1
  /\ proposer' = p
  /\ attempt' = 1
  /\ valid' = FALSE
  /\ Enter("turn_start")
  /\ UNCHANGED <<windows, heard, won, history, events, sealed>>

BeginTurn(p) ==
  /\ stage = "next"
  /\ ~won /\ turn < TurnsMax
  /\ turn' = turn + 1
  /\ proposer' = p
  /\ attempt' = 1
  /\ valid' = FALSE
  /\ Enter("turn_start")
  /\ UNCHANGED <<windows, heard, won, history, events, sealed>>

(* At the cap on turns the highest score wins.                             *)
GameOver ==
  /\ stage = "next"
  /\ won \/ turn = TurnsMax
  /\ won' = TRUE
  /\ Enter("game_over")
  /\ UNCHANGED <<windows, heard, turn, proposer, attempt, valid, history, events, sealed>>

RuleAction ==
  /\ stage = "action_judge"
  /\ valid' \in BOOLEAN
  /\ won' \in IF valid' THEN BOOLEAN ELSE {FALSE}
  /\ Enter("action_ruling")
  /\ UNCHANGED <<windows, heard, turn, proposer, attempt, history, events, sealed>>

RuleTurn ==
  /\ stage = "judge"
  /\ won' \in BOOLEAN
  /\ history' = Append(history, turn)
  /\ Enter("judge_ruling")
  /\ UNCHANGED <<windows, heard, turn, proposer, attempt, valid, events, sealed>>

(* The judge fails twice or misses judge_window_s.                         *)
JudgeFails ==
  /\ stage \in Judging
  /\ Enter("failed")
  /\ UNCHANGED <<windows, heard, law, events, sealed>>

(* A stop or the episode timeout cancels the episode task, and with it the *)
(* asks it is gathering.                                                   *)
CancelEpisode ==
  /\ stage \notin Over
  /\ Enter("cancelled")
  /\ UNCHANGED <<windows, heard, law, events, sealed>>

(* Capture.finish, by _write_private.                                      *)
Seal ==
  /\ stage \in Over
  /\ sealed' = TRUE
  /\ UNCHANGED <<stage, exchange, law, events>>

Progress ==
  \/ \E s \in Seats : Ask(s) \/ Send(s)
  \/ \E r \in DOMAIN windows : Answer(r)
  \/ Introduced \/ Collect \/ Emit
  \/ \E p \in Seats : BeginTurn(p)
  \/ GameOver \/ RuleAction \/ RuleTurn

Next ==
  \/ Progress
  \/ \E r \in DOMAIN windows : AnswerRaises(r)
  \/ EmitRaises \/ JudgeFails \/ CancelEpisode \/ Seal

Spec == Init /\ [][Next]_vars

(* Every window has a deadline, every ruling judge_window_s, and a send to *)
(* a peer that no longer reads ends when the WebSocket pings time out.     *)
FairSpec == Spec /\ WF_vars(Progress)

-----------------------------------------------------------------------------
(* Properties.                                                             *)

TypeOK ==
  /\ stage \in Asking \cup Public \cup Judging \cup Over \cup {"next"}
  /\ turn \in 0 .. TurnsMax
  /\ proposer \in Seats
  /\ attempt \in {1, 2}
  /\ valid \in BOOLEAN /\ won \in BOOLEAN
  /\ todo \subseteq Seats
  /\ windows \in Seq(Window)
  /\ heard \in [Seats -> Seq(Messages)]
  /\ events \in Seq(Messages)
  /\ history \in Seq(1 .. TurnsMax)
  /\ sealed \in BOOLEAN

(* Every seat is sent the same public messages in the same order, the ones *)
(* the spectators see; at any moment a seat is at most one message ahead.  *)
SameStory ==
  \A s \in Seats :
    /\ IsPrefix(events, heard[s])
    /\ Len(heard[s]) <= Len(events) + 1
    /\ \A t \in Seats : Len(heard[t]) = Len(heard[s]) => heard[t] = heard[s]

(* docs/player_protocol.md:61-62, 69: nobody has been shown a statement or *)
(* a vote of this turn, in the public message or, quoted, in a request for *)
(* a vote, while a window it could still influence is open.                *)
Reveals == [debate |-> "debate_made", vote |-> "vote_reveal"]
Quoted(t) == \E q \in DOMAIN windows : windows[q].kind = "vote" /\ windows[q].turn = t
Shown(type, t) ==
  \E s \in Seats : \E i \in DOMAIN heard[s] : heard[s][i] = [type |-> type, turn |-> t]
HiddenUntilAllClosed ==
  \A r \in Unanswered :
    windows[r].kind \in {"debate", "vote"} =>
      /\ ~ Shown(Reveals[windows[r].kind], windows[r].turn)
      /\ windows[r].kind = "debate" => ~ Quoted(windows[r].turn)

(* A seat never has two windows open: what recv_reply and active_rid of    *)
(* its channel rely on (module SeatChannel asks one window at a time).     *)
OneWindowPerSeat ==
  \A r, q \in Unanswered : windows[r].seat = windows[q].seat => r = q

(* An episode that ends normally leaves no window of its private record    *)
(* without an executed action, and its history holds every turn once.      *)
DoneIsWhole ==
  stage = "done" =>
    /\ \A r \in DOMAIN windows : windows[r].state = "closed"
    /\ history = [t \in 1 .. turn |-> t]

(* training.py:93-94, 150-151: asks that outlive a failed phase change     *)
(* nothing in a sealed record.                                             *)
SealedStands == [][sealed => UNCHANGED windows]_vars

(* The turns take the course that module Moot gives them: the messages and *)
(* the law are two views of one game (episode.py:533-662).                 *)
At ==
  CASE stage \in {"introduce", "game_start"} -> "between"
    [] stage \in {"turn_start", "action", "action_repair", "action_made",
                  "action_judge", "action_ruling"} -> "action"
    [] stage \in {"proposal", "proposal_made", "debate", "debate_made",
                  "vote", "vote_reveal", "judge"} -> "law"
    [] stage \in {"judge_ruling", "next"} -> IF won THEN "over" ELSE "between"
    [] stage \in {"game_over", "done"} -> "over"
    [] OTHER -> "failed"
Game == INSTANCE Course WITH at <- At
TakesTheCourse == Game!Spec

(* What is left to do.  Every stage has its place before the end, those of *)
(* the first action attempt before those of its repair; a seat counts for  *)
(* two until it is asked or told, and for one until it has answered.       *)
Place ==
  CASE stage \in Over -> 0
    [] stage = "game_over" -> 1
    [] stage = "next" -> 2
    [] stage \in {"judge_ruling", "game_start"} -> 3
    [] stage \in {"judge", "introduce"} -> 4
    [] stage = "vote_reveal" -> 5
    [] stage = "vote" -> 6
    [] stage = "debate_made" -> 7
    [] stage = "debate" -> 8
    [] stage = "proposal_made" -> 9
    [] stage = "proposal" -> 10
    [] stage = "action_ruling" -> 15 - 4 * (attempt - 1)
    [] stage = "action_judge" -> 16 - 4 * (attempt - 1)
    [] stage = "action_made" -> 17 - 4 * (attempt - 1)
    [] stage = "action_repair" -> 14
    [] stage = "action" -> 18
    [] stage = "turn_start" -> 19
Load(s) ==
  CASE s \in todo -> 2
    [] s \notin todo /\ \E r \in Unanswered : windows[r].seat = s -> 1
    [] OTHER -> 0
Remaining ==
  7 * (18 * (TurnsMax - turn) + Place) + Load(0) + Load(1) + Load(2)
    + (IF sealed THEN 0 ELSE 1)

(* Every step of an episode brings its end nearer: no repair, turn, reply  *)
(* or failure makes it longer than what is left (episode.py:452-466,       *)
(* 636-645).                                                               *)
Shortens == Remaining' \in 0 .. Remaining - 1
EveryStepShortens == [][Shortens]_vars

(* The episode ends, whatever the players do.                              *)
EpisodeEnds == <>(stage \in Over)

(* docs/player_protocol.md:4-5: "Late, malformed, or missing actions       *)
(* receive deterministic defaults."  No answer to a request ends the game. *)
NoAnswerFails == stage \in Asking => stage' # "failed"
MalformedIsDefaulted == [][NoAnswerFails]_vars
=============================================================================
