----------------------------- MODULE Collector -----------------------------
(***************************************************************************)
(* One game of the post-training collector (tools/export_posttrain.py):    *)
(* collect plays an episode in its own process, joins the engine and the   *)
(* players and seals one private record, under run_owned of                *)
(* gnomic/lifecycle.py, which turns the first signal into a cancellation.  *)
(*                                                                         *)
(* collect is a coroutine: a step goes from one await to the next, and     *)
(* stage names the await.  The episode and the players are the other       *)
(* modules' and only come to an end here.  A cancellation is thrown at the *)
(* await collect is suspended in, be it in the body or in the finally.     *)
(***************************************************************************)
EXTENDS Naturals, FiniteSets

CONSTANT Seats

VARIABLES stage,     \* the await collect is suspended in
          engine,    \* the task of Episode.run
          dropped,   \* the engine has been cancelled
          defaulted, \* a window of the episode was defaulted
          player,    \* the task of each PlayerSession.run
          acked,     \* the players that acknowledged the stop
          deadline,  \* the one cleanup deadline: unset, running or past
          complete,  \* the record finish made is a completed one
          thrown,    \* what collect is raising
          record,    \* what seal wrote
          signal,    \* the first signal: none, arrived, or thrown at collect
          upset,     \* history: where collect was when it was thrown
          outcome    \* what run_owned made of it

world == <<engine, dropped, defaulted, player, acked>>
vars == <<stage, world, deadline, complete, thrown, record, signal, upset, outcome>>

Body == {"play", "stop", "bye"}
Cleanup == {"quit", "clear", "join"}

Init ==
  /\ stage = "play"
  /\ engine = "running"
  /\ dropped = FALSE
  /\ defaulted = FALSE
  /\ player = [s \in Seats |-> "playing"]
  /\ acked = {}
  /\ deadline = "unset"
  /\ complete = FALSE
  /\ thrown = "none"
  /\ record = "none"
  /\ signal = "none"
  /\ upset = "none"
  /\ outcome = "none"

-----------------------------------------------------------------------------
(* The tasks collect owns.                                                 *)

EngineEnds(how) ==
  /\ engine = "running" /\ ~dropped
  /\ engine' = how
  /\ defaulted' \in BOOLEAN
  /\ UNCHANGED <<stage, dropped, player, acked, deadline, complete, thrown,
                 record, signal, upset, outcome>>

(* A cancelled engine ends when the call it is in lets go.                 *)
EngineYields ==
  /\ engine = "running" /\ dropped
  /\ engine' = "raised"
  /\ UNCHANGED <<stage, dropped, defaulted, player, acked, deadline, complete,
                 thrown, record, signal, upset, outcome>>

PlayerAcks(s) ==
  /\ stage \in {"stop", "clear"} /\ deadline # "past"
  /\ player[s] = "playing"
  /\ player' = [player EXCEPT ![s] = "stopped"]
  /\ acked' = acked \cup {s}
  /\ UNCHANGED <<stage, engine, dropped, defaulted, deadline, complete, thrown,
                 record, signal, upset, outcome>>

(* A player leaves: on the final, out of patience after its stop, of an    *)
(* error of its own, or cancelled.                                         *)
PlayerLeaves(s) ==
  /\ player[s] # "gone"
  /\ player' = [player EXCEPT ![s] = "gone"]
  /\ UNCHANGED <<stage, engine, dropped, defaulted, acked, deadline, complete,
                 thrown, record, signal, upset, outcome>>

DeadlinePasses ==
  /\ deadline = "running"
  /\ deadline' = "past"
  /\ UNCHANGED <<stage, world, complete, thrown, record, signal, upset, outcome>>

-----------------------------------------------------------------------------
(* collect.                                                                *)

EngineDone == engine # "running"
PlayersGone == \A s \in Seats : player[s] = "gone"
Joined == EngineDone /\ PlayersGone
AllAcked == acked = Seats

(* settle returns when everything is done, or at the deadline.             *)
Settled(done) == done \/ deadline = "past"

Seal(whole, joined) ==
  /\ record' = IF whole /\ joined THEN "completed" ELSE "truncated"
  /\ stage' = "done"

(* The last settle of the finally does not wait when nothing is left.      *)
Finally(whole) ==
  IF Joined THEN Seal(whole, TRUE) /\ UNCHANGED dropped
            ELSE stage' = "join" /\ dropped' = TRUE /\ UNCHANGED record

(* Mutant: what the players of a finished game still do is not waited for. *)
SayGoodbye_NoWait ==
  /\ stage = "bye"
  /\ complete' = ~defaulted
  /\ thrown' = IF complete' THEN "none" ELSE "error"
  /\ Finally(complete')
  /\ UNCHANGED <<engine, defaulted, player, acked, deadline, signal, upset, outcome>>

PlayToEnd ==
  /\ stage = "play" /\ EngineDone
  /\ deadline' = "running"
  /\ IF engine = "returned"
       THEN stage' = "stop" /\ UNCHANGED thrown
       ELSE stage' = "clear" /\ thrown' = "error"
  /\ UNCHANGED <<world, complete, record, signal, upset, outcome>>

(* Mutant: the deadline counts as an acknowledgement.                      *)
StopPlayers_Late ==
  /\ stage = "stop" /\ Settled(AllAcked)
  /\ stage' = "bye"
  /\ UNCHANGED <<world, deadline, complete, thrown, record, signal, upset, outcome>>

StopPlayers ==
  /\ stage = "stop" /\ Settled(AllAcked)
  /\ IF AllAcked /\ deadline # "past"
       THEN stage' = "bye" /\ UNCHANGED <<thrown, dropped, record>>
       ELSE thrown' = "error" /\ Finally(FALSE)
  /\ UNCHANGED <<engine, defaulted, player, acked, deadline, complete, signal,
                 upset, outcome>>

(* The final is sent, the players are awaited, and a game in which any     *)
(* window was defaulted is refused.                                        *)
SayGoodbye ==
  /\ stage = "bye" /\ Settled(PlayersGone)
  /\ complete' = (PlayersGone /\ ~defaulted)
  /\ thrown' = IF complete' THEN "none" ELSE "error"
  /\ Finally(complete')
  /\ UNCHANGED <<engine, defaulted, player, acked, deadline, signal, upset, outcome>>

(* Mutant: the engine is awaited without a deadline.                       *)
QuitEngine_Unbounded ==
  /\ stage = "quit" /\ EngineDone
  /\ stage' = "clear"
  /\ UNCHANGED <<world, deadline, complete, thrown, record, signal, upset, outcome>>

QuitEngine ==
  /\ stage = "quit" /\ Settled(EngineDone)
  /\ stage' = "clear"
  /\ UNCHANGED <<world, deadline, complete, thrown, record, signal, upset, outcome>>

ClearChannels ==
  /\ stage = "clear" /\ Settled(AllAcked)
  /\ Finally(FALSE)
  /\ UNCHANGED <<engine, defaulted, player, acked, deadline, complete, thrown,
                 signal, upset, outcome>>

JoinAll ==
  /\ stage = "join" /\ Settled(Joined)
  /\ Seal(complete, Joined)
  /\ UNCHANGED <<world, deadline, complete, thrown, signal, upset, outcome>>

-----------------------------------------------------------------------------
(* run_owned.                                                              *)

Signal ==
  /\ signal = "none" /\ outcome = "none"
  /\ signal' = "arrived"
  /\ UNCHANGED <<stage, world, deadline, complete, thrown, record, upset, outcome>>

(* Mutant: a cancelled body skips the seal wherever it was.                *)
Interrupt_NoSeal ==
  /\ signal = "arrived" /\ stage # "done"
  /\ signal' = "thrown" /\ thrown' = "cancelled" /\ upset' = stage
  /\ stage' = "done"
  /\ UNCHANGED <<world, deadline, complete, record, outcome>>

(* The body falls into the finally; the finally itself is left at once.    *)
Interrupt ==
  /\ signal = "arrived" /\ stage # "done"
  /\ signal' = "thrown"
  /\ thrown' = "cancelled"
  /\ upset' = stage
  /\ \/ /\ stage = "play"
        /\ deadline' = "running"
        /\ stage' = IF EngineDone THEN "clear" ELSE "quit"
        /\ dropped' = ~EngineDone
        /\ UNCHANGED record
     \/ /\ stage \in {"stop", "bye"}
        /\ Finally(FALSE)
        /\ UNCHANGED deadline
     \/ /\ stage \in Cleanup
        /\ stage' = "done"
        /\ UNCHANGED <<record, dropped, deadline>>
  /\ UNCHANGED <<engine, defaulted, player, acked, complete, outcome>>

(* A task that is done is asked for its result, whatever has arrived.      *)
Report ==
  /\ stage = "done" /\ outcome = "none"
  /\ outcome' = CASE thrown = "none" -> "returned"
                  [] thrown = "cancelled" -> "interrupted"
                  [] OTHER -> "raised"
  /\ UNCHANGED <<stage, world, deadline, complete, thrown, record, signal, upset>>

Over == outcome # "none" /\ UNCHANGED vars

Collect ==
  PlayToEnd \/ StopPlayers \/ SayGoodbye \/ QuitEngine \/ ClearChannels \/ JoinAll

Next ==
  \/ \E how \in {"returned", "raised"} : EngineEnds(how)
  \/ EngineYields
  \/ \E s \in Seats : PlayerAcks(s) \/ PlayerLeaves(s)
  \/ DeadlinePasses
  \/ Collect
  \/ Signal
  \/ Interrupt
  \/ Report
  \/ Over

(* Timers fire and the event loop resumes what is ready; nothing is asked  *)
(* of the engine or of the players.                                        *)
FairSpec ==
  /\ Init /\ [][Next]_vars
  /\ WF_vars(DeadlinePasses)
  /\ WF_vars(Collect)
  /\ WF_vars(Interrupt)
  /\ WF_vars(Report)

-----------------------------------------------------------------------------
(* Properties.                                                             *)

(* Types; and no await of the cleanup is without the deadline.             *)
TypeOK ==
  /\ stage \in Body \cup Cleanup \cup {"done"}
  /\ engine \in {"running", "returned", "raised"}
  /\ dropped \in BOOLEAN /\ defaulted \in BOOLEAN /\ complete \in BOOLEAN
  /\ player \in [Seats -> {"playing", "stopped", "gone"}]
  /\ acked \subseteq Seats
  /\ deadline \in {"unset", "running", "past"}
  /\ deadline = "unset" <=> stage = "play"
  /\ thrown \in {"none", "error", "cancelled"}
  /\ record \in {"none", "completed", "truncated"}
  /\ signal \in {"none", "arrived", "thrown"}
  /\ upset \in {"none"} \cup Body \cup Cleanup
  /\ outcome \in {"none", "returned", "raised", "interrupted"}

(* README.md:225-226, "complete raw episodes on success": a record says    *)
(* completed only of a game whose engine returned, that no default spoiled, *)
(* and whose players all acknowledged the stop and are gone.               *)
CompletedIsJoined ==
  record = "completed" =>
    engine = "returned" /\ ~defaulted /\ AllAcked /\ PlayersGone

(* The collector keeps the promise of the game server, whose record of an  *)
(* episode it makes without one: it is sealed once, by whichever way out   *)
(* of collect comes to it, and nothing rewrites it                         *)
(* (export_posttrain.py:47-83).                                            *)
Outcome == INSTANCE EpisodeOutcome WITH
  record <- IF record = "none" THEN "open" ELSE record, public <- {}
KeepsItsPromise == Outcome!Spec

(* Nothing collect and run_owned do repeats: each step of theirs and the   *)
(* signal bring the game nearer to its end, a signal thrown into the       *)
(* cleanup included.  With its waits under one deadline, this is why it    *)
(* ends (export_posttrain.py:47-83, lifecycle.py:193-239).                 *)
StageLeft ==
  CASE stage = "play" -> 5 [] stage = "stop" -> 4 [] stage \in {"bye", "quit"} -> 3
    [] stage = "clear" -> 2 [] stage = "join" -> 1 [] stage = "done" -> 0
SignalLeft == CASE signal = "none" -> 2 [] signal = "arrived" -> 1 [] signal = "thrown" -> 0
DeadlineLeft ==
  CASE deadline = "unset" -> 2 [] deadline = "running" -> 1 [] deadline = "past" -> 0
Left == StageLeft + SignalLeft + DeadlineLeft + (IF outcome = "none" THEN 1 ELSE 0)
Nearer == Left' \in 0 .. Left - 1
CollectAdvances ==
  [][Nearer]_<<stage, dropped, deadline, complete, thrown, record, signal, upset, outcome>>

(* main lists a game by what collect returned: it is what collect sealed,  *)
(* although it is sealed after the return, by a finally that may truncate. *)
ListedIsSealed == outcome = "returned" => record = "completed"

(* A game that is over has its record, unless the signal came while        *)
(* another failure was being cleaned up.                                   *)
RecordKept == outcome # "none" /\ upset \notin Cleanup => record # "none"

(* A signal ends the game, even if the engine and the players never end.   *)
SignalEnds == signal # "none" ~> outcome # "none"

(* README.md:225-226: the collector "retains one private partial record on *)
(* interruption", as main says of it: "private partial episode retained".  *)
PartialIsRetained == outcome = "interrupted" => record # "none"

=============================================================================
