-------------------------- MODULE CollectorProofs ---------------------------
(***************************************************************************)
(* Proofs about Collector, for any number of players.  The record is       *)
(* written by the last step of a finally whose earlier steps may be cut    *)
(* short, so Inv says what each stage has already secured: a body past the *)
(* stop has every acknowledgement, a cleanup is always raising something,  *)
(* and nothing is recorded before the end.                                 *)
(***************************************************************************)
EXTENDS Collector, TLAPS

Secured ==
  /\ stage \in {"stop", "bye"} => engine = "returned"
  /\ stage = "bye" => AllAcked
  /\ stage \in Body => thrown = "none"
  /\ stage \in Cleanup => thrown # "none"
  /\ stage # "done" => record = "none" /\ ~complete /\ outcome = "none"

Sealed ==
  /\ record = "completed" => complete
  /\ complete => engine = "returned" /\ ~defaulted /\ AllAcked /\ PlayersGone
  /\ stage = "done" /\ thrown = "none" => record = "completed"
  /\ stage = "done" /\ upset \notin Cleanup => record # "none"
  /\ outcome = "returned" => thrown = "none"

Inv == TypeOK /\ Secured /\ Sealed

LEMMA InvInit == Init => Inv
BY DEF Init, Inv, TypeOK, Secured, Sealed, Body, Cleanup

(* What the tasks do while collect is suspended takes nothing back.        *)
LEMMA TaskSteps ==
  ASSUME Inv,
         \/ \E how \in {"returned", "raised"} : EngineEnds(how)
         \/ EngineYields
         \/ \E s \in Seats : PlayerAcks(s) \/ PlayerLeaves(s)
         \/ DeadlinePasses
  PROVE  Inv'
<1>1. ASSUME NEW how \in {"returned", "raised"}, EngineEnds(how) PROVE Inv'
  BY <1>1 DEF EngineEnds, Inv, TypeOK, Secured, Sealed, Body, Cleanup, AllAcked, PlayersGone
<1>2. ASSUME EngineYields PROVE Inv'
  BY <1>2 DEF EngineYields, Inv, TypeOK, Secured, Sealed, Body, Cleanup, AllAcked, PlayersGone
<1>3. ASSUME NEW s \in Seats, PlayerAcks(s) PROVE Inv'
  BY <1>3 DEF PlayerAcks, Inv, TypeOK, Secured, Sealed, Body, Cleanup, AllAcked, PlayersGone
<1>4. ASSUME NEW s \in Seats, PlayerLeaves(s) PROVE Inv'
  BY <1>4 DEF PlayerLeaves, Inv, TypeOK, Secured, Sealed, Body, Cleanup, AllAcked, PlayersGone
<1>5. ASSUME DeadlinePasses PROVE Inv'
  BY <1>5 DEF DeadlinePasses, world, Inv, TypeOK, Secured, Sealed, Body, Cleanup, AllAcked,
              PlayersGone
<1> QED
  BY <1>1, <1>2, <1>3, <1>4, <1>5

LEMMA CollectSteps == ASSUME Inv, Collect PROVE Inv'
<1>1. CASE PlayToEnd
  BY <1>1 DEF PlayToEnd, EngineDone, world, Inv, TypeOK, Secured, Sealed, Body, Cleanup,
              AllAcked, PlayersGone
<1>2. CASE StopPlayers
  BY <1>2 DEF StopPlayers, Settled, Finally, Joined, EngineDone, Seal, Inv, TypeOK, Secured,
              Sealed, Body, Cleanup, AllAcked, PlayersGone
<1>3. CASE SayGoodbye
  BY <1>3 DEF SayGoodbye, Settled, Finally, Joined, EngineDone, Seal, Inv, TypeOK, Secured,
              Sealed, Body, Cleanup, AllAcked, PlayersGone
<1>4. CASE QuitEngine
  BY <1>4 DEF QuitEngine, world, Inv, TypeOK, Secured, Sealed, Body, Cleanup, AllAcked,
              PlayersGone
<1>5. CASE ClearChannels
  BY <1>5 DEF ClearChannels, Finally, Joined, EngineDone, Seal, Inv, TypeOK, Secured, Sealed,
              Body, Cleanup, AllAcked, PlayersGone
<1>6. CASE JoinAll
  BY <1>6 DEF JoinAll, Seal, world, Inv, TypeOK, Secured, Sealed, Body, Cleanup, AllAcked,
              PlayersGone
<1> QED
  BY <1>1, <1>2, <1>3, <1>4, <1>5, <1>6 DEF Collect

LEMMA OwnerSteps == ASSUME Inv, Signal \/ Interrupt \/ Report PROVE Inv'
<1>1. CASE Signal
  BY <1>1 DEF Signal, world, Inv, TypeOK, Secured, Sealed, Body, Cleanup, AllAcked, PlayersGone
<1>2. CASE Interrupt
  BY <1>2 DEF Interrupt, Finally, Joined, EngineDone, Seal, Inv, TypeOK, Secured, Sealed,
              Body, Cleanup, AllAcked, PlayersGone
<1>3. CASE Report
  BY <1>3 DEF Report, world, Inv, TypeOK, Secured, Sealed, Body, Cleanup, AllAcked, PlayersGone
<1> QED
  BY <1>1, <1>2, <1>3

LEMMA InvStep == Inv /\ [Next]_vars => Inv'
<1> SUFFICES ASSUME Inv, [Next]_vars PROVE Inv'
  OBVIOUS
<1>1. CASE Over \/ UNCHANGED vars
  BY <1>1 DEF Over, vars, world, Inv, TypeOK, Secured, Sealed, AllAcked, PlayersGone
<1>2. CASE Next /\ ~ Over
  BY <1>2, TaskSteps, CollectSteps, OwnerSteps DEF Next
<1> QED
  BY <1>1, <1>2

LEMMA Invariance == FairSpec => []Inv
BY InvInit, InvStep, PTL DEF FairSpec

(* The collector of tools/export_posttrain.py keeps its types, and no      *)
(* await of its cleanup is without the one deadline.                       *)
THEOREM CleanupHasDeadline == FairSpec => []TypeOK
BY Invariance, PTL DEF Inv

(* What is sealed as completed was played to its end without a default,    *)
(* acknowledged by every player and joined, for any number of players.     *)
THEOREM CompletedMeansJoined == FairSpec => []CompletedIsJoined
<1>1. Inv => CompletedIsJoined
  BY DEF Inv, Sealed, CompletedIsJoined
<1> QED
  BY <1>1, Invariance, PTL

(* The record main lists is the record the finally sealed.                 *)
THEOREM ListedWasSealed == FairSpec => []ListedIsSealed
<1>1. Inv => ListedIsSealed
  BY DEF Inv, Secured, Sealed, ListedIsSealed
<1> QED
  BY <1>1, Invariance, PTL

(* Only a signal thrown into the finally loses the record of a game.       *)
THEOREM RecordIsKept == FairSpec => []RecordKept
<1>1. Inv => RecordKept
  BY DEF Inv, Secured, Sealed, RecordKept
<1> QED
  BY <1>1, Invariance, PTL

-----------------------------------------------------------------------------
(* The refinement.                                                         *)

sealing == IF record = "none" THEN "open" ELSE record

(* A record is written by a step that ends collect, over none.             *)
LEMMA Sealing ==
  ASSUME Inv, [Next]_vars
  PROVE  record' = record \/ (record = "none" /\ record' \in {"completed", "truncated"})
<1>1. stage # "done" => record = "none"
  BY DEF Inv, Secured
<1>2. CASE Collect
  BY <1>1, <1>2 DEF Collect, PlayToEnd, StopPlayers, SayGoodbye, QuitEngine, ClearChannels,
     JoinAll, Finally, Seal
<1>3. CASE Interrupt
  BY <1>1, <1>3 DEF Interrupt, Finally, Seal
<1>4. CASE \/ \E how \in {"returned", "raised"} : EngineEnds(how)
           \/ EngineYields
           \/ \E s \in Seats : PlayerAcks(s) \/ PlayerLeaves(s)
           \/ DeadlinePasses \/ Signal \/ Report \/ Over \/ UNCHANGED vars
  BY <1>4 DEF EngineEnds, EngineYields, PlayerAcks, PlayerLeaves, DeadlinePasses, Signal,
     Report, Over, vars
<1> QED
  BY <1>2, <1>3, <1>4 DEF Next

(* The collector implements EpisodeOutcome too: whichever way out of       *)
(* collect is taken, and wherever a signal cuts it short, the record of a  *)
(* game is sealed at most once.                                            *)
THEOREM PromiseKept == FairSpec => KeepsItsPromise
<1>1. Init => Outcome!Init
  BY DEF Init, Outcome!Init
<1>2. Inv /\ [Next]_vars => [Outcome!Next]_<<sealing, {}>>
  <2> SUFFICES ASSUME Inv, [Next]_vars PROVE [Outcome!Next]_<<sealing, {}>>
    OBVIOUS
  <2>1. CASE record' = record
    BY <2>1 DEF sealing
  <2>2. CASE record = "none" /\ record' = "completed"
    BY <2>2 DEF Outcome!Next, Outcome!Complete, sealing
  <2>3. CASE record = "none" /\ record' = "truncated"
    BY <2>3 DEF Outcome!Next, Outcome!Withhold, sealing
  <2> QED
    BY <2>1, <2>2, <2>3, Sealing
<1> QED
  BY <1>1, <1>2, Invariance, PTL DEF FairSpec, KeepsItsPromise, Outcome!Spec, sealing

-----------------------------------------------------------------------------
(* Why the collector comes to its end.                                     *)

Counted ==
  /\ stage = "play" => StageLeft = 5
  /\ stage = "stop" => StageLeft = 4
  /\ stage \in {"bye", "quit"} => StageLeft = 3
  /\ stage = "clear" => StageLeft = 2
  /\ stage = "join" => StageLeft = 1
  /\ stage = "done" => StageLeft = 0
  /\ signal = "none" => SignalLeft = 2
  /\ signal = "arrived" => SignalLeft = 1
  /\ signal = "thrown" => SignalLeft = 0
  /\ deadline = "unset" => DeadlineLeft = 2
  /\ deadline = "running" => DeadlineLeft = 1
  /\ deadline = "past" => DeadlineLeft = 0

LEMMA Counting == Counted
BY Zenon DEF Counted, StageLeft, SignalLeft, DeadlineLeft

Sized == StageLeft \in Nat /\ SignalLeft \in Nat /\ DeadlineLeft \in Nat

LEMMA CountsNatural == Inv => Sized
BY Counting DEF Counted, Sized, Inv, TypeOK, Body, Cleanup

LEMMA Summing ==
  ASSUME NEW a \in Nat, NEW b \in Nat, NEW c \in Nat, NEW e \in Nat,
         NEW v \in Nat, NEW w \in Nat, NEW x \in Nat, NEW z \in Nat,
         v <= a, w <= b, x <= c, z <= e,
         v < a \/ w < b \/ x < c \/ z < e
  PROVE  v + w + x + z \in 0 .. (a + b + c + e) - 1
OBVIOUS

(* A step that takes no part back and moves one of them on is nearer.      *)
LEMMA PartsCount ==
  ASSUME Inv, Inv', outcome # "none" => outcome' # "none",
         StageLeft' <= StageLeft, SignalLeft' <= SignalLeft, DeadlineLeft' <= DeadlineLeft,
         \/ StageLeft' < StageLeft \/ SignalLeft' < SignalLeft \/ DeadlineLeft' < DeadlineLeft
         \/ outcome = "none" /\ outcome' # "none"
  PROVE  Nearer
<1>1. /\ StageLeft \in Nat /\ SignalLeft \in Nat /\ DeadlineLeft \in Nat
      /\ StageLeft' \in Nat /\ SignalLeft' \in Nat /\ DeadlineLeft' \in Nat
  <2>1. Sized /\ Sized'
    BY CountsNatural, PTL
  <2> QED
    BY <2>1 DEF Sized
<1>2. PICK e \in {0, 1} : e = IF outcome = "none" THEN 1 ELSE 0
  OBVIOUS
<1>3. PICK z \in {0, 1} : z = IF outcome' = "none" THEN 1 ELSE 0
  OBVIOUS
<1>4. z <= e /\ (outcome = "none" /\ outcome' # "none" => z < e)
  BY <1>2, <1>3
<1>5. e \in Nat /\ z \in Nat
  OBVIOUS
<1>6. StageLeft' + SignalLeft' + DeadlineLeft' + z
        \in 0 .. (StageLeft + SignalLeft + DeadlineLeft + e) - 1
  BY <1>1, <1>4, <1>5, Summing
<1>7. /\ Left = StageLeft + SignalLeft + DeadlineLeft + e
      /\ Left' = StageLeft' + SignalLeft' + DeadlineLeft' + z
  BY <1>2, <1>3 DEF Left
<1> QED
  BY <1>6, <1>7 DEF Nearer

(* collect moves on by itself, or is thrown out of where it is.            *)
LEMMA CollectNearer == ASSUME Inv, Inv', Collect \/ Interrupt PROVE Nearer
<1>1. Counted /\ Counted' /\ Sized
  BY Counting, CountsNatural, PTL
<1>2. \/ stage = "play" /\ stage' \in {"stop", "clear", "quit"}
      \/ stage = "stop" /\ stage' \in {"bye", "join", "done"}
      \/ stage = "bye" /\ stage' \in {"join", "done"}
      \/ stage = "quit" /\ stage' \in {"clear", "done"}
      \/ stage = "clear" /\ stage' \in {"join", "done"}
      \/ stage = "join" /\ stage' = "done"
  <2>1. Collect => stage' \in {"stop", "clear", "bye", "join", "done"}
    BY DEF Collect, PlayToEnd, StopPlayers, SayGoodbye, QuitEngine, ClearChannels, JoinAll,
       Finally, Seal
  <2>2. CASE Collect
    BY <2>1, <2>2 DEF Collect, PlayToEnd, StopPlayers, SayGoodbye, QuitEngine, ClearChannels,
       JoinAll, Finally, Seal
  <2>3. CASE Interrupt
    BY <2>3 DEF Interrupt, Finally, Seal, Cleanup
  <2> QED
    BY <2>2, <2>3
<1>3. StageLeft' < StageLeft /\ StageLeft' <= StageLeft
  BY <1>1, <1>2 DEF Counted
<1>4. outcome' = outcome
  BY DEF Collect, PlayToEnd, StopPlayers, SayGoodbye, QuitEngine, ClearChannels, JoinAll,
     Interrupt
<1>5. deadline' = deadline \/ (deadline = "unset" /\ deadline' = "running")
  BY DEF Collect, PlayToEnd, StopPlayers, SayGoodbye, QuitEngine, ClearChannels, JoinAll,
     Interrupt, Inv, TypeOK
<1>6. DeadlineLeft' <= DeadlineLeft
  <2>1. CASE deadline' = deadline
    <3>1. DeadlineLeft' = DeadlineLeft
      BY <2>1 DEF DeadlineLeft
    <3> QED
      BY <1>1, <3>1 DEF Sized
  <2>2. CASE deadline = "unset" /\ deadline' = "running"
    BY <1>1, <2>2 DEF Counted
  <2> QED
    BY <1>5, <2>1, <2>2
<1>7. SignalLeft' <= SignalLeft
  <2>1. signal' = signal \/ (signal = "arrived" /\ signal' = "thrown")
    BY DEF Collect, PlayToEnd, StopPlayers, SayGoodbye, QuitEngine, ClearChannels, JoinAll,
       Interrupt
  <2>2. CASE signal' = signal
    <3>1. SignalLeft' = SignalLeft
      BY <2>2 DEF SignalLeft
    <3> QED
      BY <1>1, <3>1 DEF Sized
  <2>3. CASE signal = "arrived" /\ signal' = "thrown"
    BY <1>1, <2>3 DEF Counted
  <2> QED
    BY <2>1, <2>2, <2>3
<1> QED
  BY <1>3, <1>4, <1>6, <1>7, PartsCount

LEMMA OwnerNearer == ASSUME Inv, Inv', DeadlinePasses \/ Signal \/ Report PROVE Nearer
<1>1. Counted /\ Counted' /\ Sized
  BY Counting, CountsNatural, PTL
<1>2. StageLeft' = StageLeft
  BY DEF DeadlinePasses, Signal, Report, StageLeft
<1>3. CASE DeadlinePasses
  <2>1. DeadlineLeft = 1 /\ DeadlineLeft' = 0 /\ outcome' = outcome
    BY <1>1, <1>3 DEF DeadlinePasses, Counted
  <2>2. SignalLeft' = SignalLeft
    BY <1>3 DEF DeadlinePasses, SignalLeft
  <2> QED
    BY <1>1, <1>2, <2>1, <2>2, PartsCount DEF Sized
<1>4. CASE Signal
  <2>1. SignalLeft = 2 /\ SignalLeft' = 1 /\ outcome' = outcome
    BY <1>1, <1>4 DEF Signal, Counted
  <2>2. DeadlineLeft' = DeadlineLeft
    BY <1>4 DEF Signal, DeadlineLeft
  <2> QED
    BY <1>1, <1>2, <2>1, <2>2, PartsCount DEF Sized
<1>5. CASE Report
  <2>1. outcome = "none" /\ outcome' # "none"
    BY <1>5 DEF Report
  <2>2. DeadlineLeft' = DeadlineLeft /\ SignalLeft' = SignalLeft
    BY <1>5 DEF Report, DeadlineLeft, SignalLeft
  <2> QED
    BY <1>1, <1>2, <2>1, <2>2, PartsCount DEF Sized
<1> QED
  BY <1>3, <1>4, <1>5

(* Whatever the engine, the players and the signal do, collect and         *)
(* run_owned take at most ten steps between them.                          *)
THEOREM CollectorAdvances == FairSpec => CollectAdvances
<1> DEFINE own == <<stage, dropped, deadline, complete, thrown, record, signal, upset, outcome>>
<1>1. Inv /\ Inv' /\ [Next]_vars => [Nearer]_own
  <2> SUFFICES ASSUME Inv, Inv', [Next]_vars PROVE Nearer \/ UNCHANGED own
    OBVIOUS
  <2>1. CASE \/ \E how \in {"returned", "raised"} : EngineEnds(how)
             \/ EngineYields
             \/ \E s \in Seats : PlayerAcks(s) \/ PlayerLeaves(s)
             \/ Over \/ UNCHANGED vars
    BY <2>1 DEF EngineEnds, EngineYields, PlayerAcks, PlayerLeaves, Over, vars, world
  <2> QED
    BY <2>1, CollectNearer, OwnerNearer DEF Next
<1> QED
  BY <1>1, Invariance, PTL DEF FairSpec, CollectAdvances
=============================================================================
