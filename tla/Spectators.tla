----------------------------- MODULE Spectators -----------------------------
(***************************************************************************)
(* The public event stream of gnomic/server/app.py: broadcast, which logs  *)
(* an event and sends it to every live spectator one after the other, and  *)
(* global_ws, which greets a new spectator and replays the log to it.      *)
(* Both suspend in every send, so the set of spectators and the log change *)
(* under either.  Once the episode is over, _run waits for the spectators  *)
(* to leave, up to a cap.  Event number n is the n-th that is broadcast.   *)
(***************************************************************************)
EXTENDS Naturals, FiniteSets, SequencesExt

CONSTANTS Viewers,  \* connections to /global
          Events    \* events of a whole game, the last being its final scores

ASSUME EventsAssumption == Events \in Nat
ASSUME ViewersAssumption == IsFiniteSet(Viewers)

VARIABLES logged,     \* length of event_log
          spectators, \* GameServer.spectators
          place,      \* where each viewer's global_ws is
          left,       \* viewers whose client has closed the connection
          behind,     \* events of the log a viewer has still to be replayed
          got,        \* events it was sent
          sending,    \* a broadcast is in progress
          todo,       \* spectators its iteration has not visited
          size,       \* how many there were when it began
          dead,       \* spectators whose send raised
          fatal,      \* broadcast raised into the episode
          interrupted,\* history: events whose broadcast was cut short
          run         \* where _run is, and in the end how it left

viewing == <<place, left, behind>>
broadcast == <<sending, todo, size, dead>>
vars == <<logged, spectators, viewing, got, broadcast, fatal, interrupted, run>>

TypeOK ==
  /\ logged \in 0 .. Events + 1
  /\ spectators \subseteq Viewers
  /\ place \in [Viewers -> {"none", "hello", "replay", "live", "gone"}]
  /\ left \subseteq Viewers
  /\ behind \in [Viewers -> Seq(1 .. Events + 1)]
  /\ got \in [Viewers -> Seq(1 .. Events + 1)]
  /\ sending \in BOOLEAN /\ fatal \in BOOLEAN
  /\ interrupted \subseteq 1 .. Events + 1
  /\ run \in {"play", "except", "drain", "left", "capped", "stopped"}
  /\ todo \subseteq spectators
  /\ dead \subseteq left
  /\ size \in 0 .. Cardinality(Viewers)

Init ==
  /\ logged = 0
  /\ spectators = {}
  /\ place = [v \in Viewers |-> "none"]
  /\ left = {}
  /\ behind = [v \in Viewers |-> << >>]
  /\ got = [v \in Viewers |-> << >>]
  /\ sending = FALSE
  /\ todo = {}
  /\ size = 0
  /\ dead = {}
  /\ fatal = FALSE
  /\ interrupted = {}
  /\ run = "play"

-----------------------------------------------------------------------------
(* global_ws.                                                              *)

(* The viewer is a live spectator before its hello is out.  An iteration   *)
(* in progress may or may not come by a member added meanwhile.            *)
Join(v) ==
  /\ place[v] = "none"
  /\ place' = [place EXCEPT ![v] = "hello"]
  /\ spectators' = spectators \cup {v}
  /\ todo' \in IF sending THEN {todo, todo \cup {v}} ELSE {todo}
  /\ UNCHANGED <<logged, left, behind, got, sending, size, dead, fatal, interrupted, run>>

(* Mutant: the event being broadcast is logged only once it has been sent. *)
CopyLog_Unlogged(v) ==
  /\ place[v] = "hello"
  /\ place' = [place EXCEPT ![v] = "replay"]
  /\ behind' = [behind EXCEPT ![v] =
                  [n \in 1 .. (IF sending THEN logged - 1 ELSE logged) |-> n]]
  /\ UNCHANGED <<logged, spectators, left, got, broadcast, fatal, interrupted, run>>

(* The log is copied once the hello has been sent.                         *)
CopyLog(v) ==
  /\ place[v] = "hello"
  /\ place' = [place EXCEPT ![v] = "replay"]
  /\ behind' = [behind EXCEPT ![v] = [n \in 1 .. logged |-> n]]
  /\ UNCHANGED <<logged, spectators, left, got, broadcast, fatal, interrupted, run>>

Replay(v) ==
  /\ place[v] = "replay"
  /\ behind[v] # << >> /\ v \notin left
  /\ got' = [got EXCEPT ![v] = Append(@, Head(behind[v]))]
  /\ behind' = [behind EXCEPT ![v] = Tail(@)]
  /\ UNCHANGED <<logged, spectators, place, left, broadcast, fatal, interrupted, run>>

GoLive(v) ==
  /\ place[v] = "replay"
  /\ behind[v] = << >>
  /\ place' = [place EXCEPT ![v] = "live"]
  /\ UNCHANGED <<logged, spectators, left, behind, got, broadcast, fatal, interrupted, run>>

Close(v) ==
  /\ place[v] \in {"hello", "replay", "live"}
  /\ left' = left \cup {v}
  /\ UNCHANGED <<logged, spectators, place, behind, got, broadcast, fatal, interrupted, run>>

(* receive reports the disconnection, and the finally block discards.      *)
Leave(v) ==
  /\ place[v] = "live" /\ v \in left
  /\ place' = [place EXCEPT ![v] = "gone"]
  /\ spectators' = spectators \ {v}
  /\ todo' = todo \ {v}
  /\ UNCHANGED <<logged, left, behind, got, sending, size, dead, fatal, interrupted, run>>

(* A send of the hello or of the replay raises outside that try: the       *)
(* viewer stays in the set until a broadcast finds it dead.                *)
ReplayRaises(v) ==
  /\ place[v] = "hello" \/ (place[v] = "replay" /\ behind[v] # << >>)
  /\ v \in left
  /\ place' = [place EXCEPT ![v] = "gone"]
  /\ UNCHANGED <<logged, spectators, left, behind, got, broadcast, fatal, interrupted, run>>

-----------------------------------------------------------------------------
(* broadcast.                                                              *)

Iterate ==
  /\ ~sending
  /\ logged' = logged + 1
  /\ sending' = TRUE
  /\ todo' = spectators
  /\ size' = Cardinality(spectators)
  /\ dead' = {}
  /\ UNCHANGED <<spectators, viewing, got, fatal, interrupted>>

Begin ==
  /\ run = "play" /\ ~fatal
  /\ logged < Events
  /\ Iterate
  /\ UNCHANGED run

(* The except block of _run broadcasts the failure of the episode.         *)
BeginFatal ==
  /\ run = "play" /\ fatal
  /\ Iterate
  /\ run' = "except"

(* Mutant: a send to a viewer that has left is waited for.                 *)
SendTo_Waiting(v) ==
  /\ sending
  /\ Cardinality(spectators) = size
  /\ v \in todo /\ v \notin left
  /\ todo' = todo \ {v}
  /\ got' = [got EXCEPT ![v] = Append(@, logged)]
  /\ UNCHANGED <<logged, spectators, viewing, sending, size, dead, fatal, interrupted, run>>

(* A send to a viewer that has left raises and is tolerated.               *)
SendTo(v) ==
  /\ sending
  /\ Cardinality(spectators) = size
  /\ v \in todo
  /\ todo' = todo \ {v}
  /\ IF v \in left
       THEN dead' = dead \cup {v} /\ UNCHANGED got
       ELSE got' = [got EXCEPT ![v] = Append(@, logged)] /\ UNCHANGED dead
  /\ UNCHANGED <<logged, spectators, viewing, sending, size, fatal, interrupted, run>>

(* An exception leaves the iteration: the viewers it has not come to are   *)
(* not sent the event, and the dead it has met are not discarded.          *)
Abandon ==
  /\ interrupted' = IF sending THEN interrupted \cup {logged} ELSE interrupted
  /\ sending' = FALSE
  /\ todo' = {} /\ size' = 0 /\ dead' = {}
  /\ UNCHANGED <<logged, spectators, viewing, got>>

(* "Set changed size during iteration" is a RuntimeError raised outside    *)
(* the try: it leaves broadcast and _emit, and ends the episode.           *)
IterationRaises ==
  /\ sending
  /\ Cardinality(spectators) # size
  /\ Abandon
  /\ fatal' = TRUE
  /\ UNCHANGED run

(* The episode fails, or its timeout has it cancelled in whatever send it  *)
(* is suspended in; the last event is sent by _run, after the episode.     *)
EpisodeFails ==
  /\ run = "play" /\ ~fatal /\ logged < Events
  /\ Abandon
  /\ fatal' = TRUE
  /\ UNCHANGED run

Finish ==
  /\ sending
  /\ Cardinality(spectators) = size
  /\ todo = {}
  /\ sending' = FALSE
  /\ spectators' = spectators \ dead
  /\ size' = 0 /\ dead' = {}
  /\ UNCHANGED <<logged, viewing, got, todo, fatal, interrupted, run>>

-----------------------------------------------------------------------------
(* The finally block of _run.                                              *)

(* The episode has ended, in whatever way, and said so.                    *)
EnterDrain ==
  /\ ~sending
  /\ run = "except" \/ (run = "play" /\ ~fatal /\ logged = Events)
  /\ run' = "drain"
  /\ UNCHANGED <<logged, spectators, viewing, got, broadcast, fatal, interrupted>>

(* Mutant: only viewers past their replay are waited for.                  *)
LeaveDrain_Greeted ==
  /\ run = "drain"
  /\ \A v \in spectators : place[v] # "live"
  /\ run' = "left"
  /\ UNCHANGED <<logged, spectators, viewing, got, broadcast, fatal, interrupted>>

LeaveDrain ==
  /\ run = "drain"
  /\ spectators = {}
  /\ run' = "left"
  /\ UNCHANGED <<logged, spectators, viewing, got, broadcast, fatal, interrupted>>

(* SPECTATOR_DRAIN_SECONDS have passed.                                    *)
CapDrain ==
  /\ run = "drain"
  /\ spectators # {}
  /\ run' = "capped"
  /\ UNCHANGED <<logged, spectators, viewing, got, broadcast, fatal, interrupted>>

(* A stop cancels _run in whatever it awaits; with ownership unresolved it *)
(* does not wait for spectators either.                                    *)
SkipDrain ==
  /\ run \in {"play", "except", "drain"}
  /\ Abandon
  /\ run' = "stopped"
  /\ UNCHANGED fatal

Next ==
  \/ \E v \in Viewers : \/ Join(v) \/ CopyLog(v) \/ Replay(v) \/ GoLive(v)
                        \/ Close(v) \/ Leave(v) \/ ReplayRaises(v) \/ SendTo(v)
  \/ Begin \/ BeginFatal \/ IterationRaises \/ EpisodeFails \/ Finish
  \/ EnterDrain \/ LeaveDrain \/ CapDrain \/ SkipDrain

Spec == Init /\ [][Next]_vars

(* A send ends, if only because a peer that no longer reads fails the      *)
(* WebSocket pings.  Viewers come and go as they like, and nothing says    *)
(* that the episode goes on.                                               *)
FairSpec ==
  /\ Spec
  /\ WF_vars((\E v \in Viewers : SendTo(v)) \/ IterationRaises \/ Finish)

-----------------------------------------------------------------------------
(* Properties.                                                             *)

(* A spectator past its replay has been sent every event whose broadcast   *)
(* ran to its end, however its joining fell between the log and the live   *)
(* events, and whatever ended the episode (app.py:82-92, 394-405).         *)
NothingMissed ==
  ~sending =>
    \A v \in Viewers \ left :
      place[v] = "live" => (1 .. logged) \ interrupted \subseteq ToSet(got[v])

(* No viewer holds the episode up: every broadcast ends, whoever joins and *)
(* leaves under it (app.py:82-92).                                         *)
BroadcastsEnd == sending ~> ~sending

(* A finished game that is not stopped leaves before the cap only when     *)
(* every viewer has closed its connection: no interrupted broadcast, death *)
(* of another viewer or failed replay makes it overlook one that is still  *)
(* there (app.py:87-92, 271-281, 404-420).                                 *)
Present(v) == place[v] \in {"hello", "replay", "live"} /\ v \notin left
WaitsForViewers == run = "drain" /\ run' = "left" => \A v \in Viewers : ~Present(v)
NobodyCutOff == [][WaitsForViewers]_vars

(* docs/global_protocol.md:3-4: "/global sends a hello immediately, then   *)
(* the complete public event log so far, then live events."  What a viewer *)
(* was sent is the log from its beginning, in order, each event once.      *)
LogThenLive ==
  \A v \in Viewers : \A i \in DOMAIN got[v] : got[v][i] = i
=============================================================================
