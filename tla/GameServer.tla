----------------------------- MODULE GameServer -----------------------------
(***************************************************************************)
(* The game server around one episode (gnomic/server/app.py): player       *)
(* connections that come, go and replace each other, the start, the _run   *)
(* task with its three ways out, the one ownership settlement everybody    *)
(* joins, the private record and the public artifacts, and stop.           *)
(*                                                                         *)
(* One event loop runs it: a step goes from one await to the next.  The    *)
(* settlement of one connection is abstracted from module SeatLink: a      *)
(* connection whose reader works may acknowledge in time or not.           *)
(***************************************************************************)
EXTENDS Naturals, FiniteSets

CONSTANTS Seats,   \* the seats of the configuration
          Conns,   \* player connections of the server's lifetime
          SeatOf   \* the seat each of them is for

ASSUME SeatOfAssumption == SeatOf \in [Conns -> Seats]

None == "none"
Artifacts == {"results", "replay"}

ASSUME NoneAssumption == None \notin Conns

VARIABLES chan,        \* each connection's channel
          handler,     \* each connection's player_ws
          prior,       \* the channel it found for its seat
          channels,    \* GameServer.channels
          registered,  \* registered_channels
          seated,      \* the channels the Episode was given
          run,         \* where _run is
          stopping,    \* GameServer.stopping
          stop,        \* where stop() is
          stops,       \* which call of stop() this is
          should_exit, \* uvicorn's should_exit
          deadline,    \* owner_deadline: unset, running or past
          cleanup,     \* cleanup_task: none, settling or done
          owned,       \* the channels it settles
          acked,       \* those that acknowledged
          joined,      \* ownership_joined
          private,     \* the private record
          published,   \* public artifacts written
          write_failed \* the last attempt to write the record failed

conns == <<chan, handler, prior, channels, registered>>
settling == <<deadline, cleanup, owned, acked, joined>>
record == <<private, published, write_failed>>
serving == <<stopping, stop, stops, should_exit>>
vars == <<conns, seated, run, serving, settling, record>>

TypeOK ==
  /\ chan \in [Conns -> {"none", "reading", "lost", "replaced", "broken"}]
  /\ handler \in [Conns -> {"none", "replacing", "installed", "gone"}]
  /\ prior \in [Conns -> Conns \cup {None}]
  /\ channels \in [Seats -> Conns \cup {None}]
  /\ registered \subseteq Conns
  /\ seated \in [Seats -> Conns \cup {None}]
  /\ run \in {"none", "play", "join", "final", "sleep", "failing", "fatal",
              "leaving", "drain", "ended"}
  /\ stopping \in BOOLEAN
  /\ stop \in {"idle", "join", "settle", "finished"}
  /\ stops \in {1, 2}
  /\ should_exit \in BOOLEAN
  /\ deadline \in {"unset", "running", "past"}
  /\ cleanup \in {"none", "settling", "done"}
  /\ owned \subseteq Conns
  /\ acked \subseteq owned
  /\ joined \in BOOLEAN
  /\ private \in {"none", "completed", "failed", "truncated"}
  /\ published \subseteq Artifacts
  /\ write_failed \in BOOLEAN

Init ==
  /\ chan = [c \in Conns |-> "none"]
  /\ handler = [c \in Conns |-> "none"]
  /\ prior = [c \in Conns |-> None]
  /\ channels = [s \in Seats |-> None]
  /\ registered = {}
  /\ seated = [s \in Seats |-> None]
  /\ run = "none"
  /\ stopping = FALSE
  /\ stop = "idle"
  /\ stops = 1
  /\ should_exit = FALSE
  /\ deadline = "unset"
  /\ cleanup = "none"
  /\ owned = {}
  /\ acked = {}
  /\ joined = FALSE
  /\ private = "none"
  /\ published = {}
  /\ write_failed = FALSE

exited == stop = "finished"
started == run # "none"

-----------------------------------------------------------------------------
(* Player connections: player_ws.                                          *)

(* The channel takes its seat: at once when the seat is empty, otherwise   *)
(* after the prior channel's reader has been joined.                       *)
Connect(c) ==
  /\ ~exited
  /\ chan[c] = "none"
  /\ ~stopping /\ cleanup = "none"
  /\ chan' = [chan EXCEPT ![c] = "reading"]
  /\ registered' = registered \cup {c}
  /\ LET before == channels[SeatOf[c]] IN
       /\ prior' = [prior EXCEPT ![c] = before]
       /\ handler' = [handler EXCEPT ![c] = IF before = None THEN "installed"
                                                             ELSE "replacing"]
       /\ channels' = IF before = None THEN [channels EXCEPT ![SeatOf[c]] = c]
                                       ELSE channels
  /\ UNCHANGED <<seated, run, serving, settling, record>>

Replace(c) ==
  /\ handler[c] = "replacing"
  /\ chan[prior[c]] # "broken"
  /\ chan' = [chan EXCEPT ![prior[c]] = IF @ = "reading" THEN "replaced" ELSE @]
  /\ channels' = [channels EXCEPT ![SeatOf[c]] = c]
  /\ handler' = [handler EXCEPT ![c] = "installed"]
  /\ UNCHANGED <<prior, registered, seated, run, serving,
                 settling, record>>

(* close_reader re-raises what broke the prior reader: the handler of the  *)
(* new connection ends before its own try block, and its reader when the   *)
(* connection is closed under it (Disconnect).                             *)
ReplaceFails(c) ==
  /\ handler[c] = "replacing"
  /\ chan[prior[c]] = "broken"
  /\ handler' = [handler EXCEPT ![c] = "gone"]
  /\ UNCHANGED <<chan, prior, channels, registered, seated, run, serving, settling, record>>

(* The player goes away, or its reader dies on a frame it refuses.         *)
Disconnect(c) ==
  /\ chan[c] = "reading"
  /\ ~exited
  /\ chan' = [chan EXCEPT ![c] = "lost"]
  /\ UNCHANGED <<handler, prior, channels, registered, seated, run, serving, settling, record>>

BreakReader(c) ==
  /\ chan[c] = "reading"
  /\ ~exited
  /\ chan' = [chan EXCEPT ![c] = "broken"]
  /\ UNCHANGED <<handler, prior, channels, registered, seated, run, serving, settling, record>>

ConnStep ==
  \E c \in Conns : \/ Connect(c) \/ Replace(c) \/ ReplaceFails(c)
                   \/ Disconnect(c) \/ BreakReader(c)

(* maybe_start when the last seat is taken; start_after_timeout otherwise. *)
StartEpisode ==
  /\ ~stopping
  /\ ~started
  /\ seated' = channels
  /\ run' = "play"
  /\ UNCHANGED <<conns, serving, settling, record>>

-----------------------------------------------------------------------------
(* Ownership: one settlement, joined by _run and by stop.                  *)

(* The first caller of _join_ownership creates the settlement of what is   *)
(* registered then, and its deadline unless a stop has set it.             *)
EnterJoin ==
  /\ cleanup' = IF cleanup = "none" THEN "settling" ELSE cleanup
  /\ owned' = IF cleanup = "none" THEN registered ELSE owned
  /\ deadline' = IF deadline = "unset" THEN "running" ELSE deadline
  /\ UNCHANGED <<acked, joined>>

Acknowledge(c) ==
  /\ cleanup = "settling"
  /\ deadline = "running"
  /\ c \in owned \ acked
  /\ chan[c] = "reading"
  /\ acked' = acked \cup {c}
  /\ UNCHANGED <<conns, seated, run, serving, deadline,
                 cleanup, owned, joined, record>>

(* Mutant: the verdict is given whatever the clock says.                   *)
Settle_Late ==
  /\ cleanup = "settling"
  /\ cleanup' = "done"
  /\ joined' \in IF owned = acked /\ \A c \in owned : chan[c] # "broken"
                 THEN BOOLEAN ELSE {FALSE}
  /\ UNCHANGED <<conns, seated, run, serving, deadline, owned, acked, record>>

(* Settled in time only if every channel acknowledged and the engine's own *)
(* tasks, the judge's native call among them, have ended.                  *)
Settle ==
  /\ cleanup = "settling"
  /\ cleanup' = "done"
  /\ joined' \in IF /\ owned = acked
                    /\ deadline = "running"
                    /\ \A c \in owned : chan[c] # "broken"
                 THEN BOOLEAN ELSE {FALSE}
  /\ UNCHANGED <<conns, seated, run, serving, deadline,
                 owned, acked, record>>

DeadlinePasses ==
  /\ deadline = "running"
  /\ deadline' = "past"
  /\ UNCHANGED <<conns, seated, run, serving, cleanup,
                 owned, acked, joined, record>>

(* What _join_ownership returns: the verdict, or False at the deadline.    *)
JoinReturns(verdict) ==
  \/ cleanup = "done" /\ verdict = joined
  \/ cleanup = "settling" /\ deadline = "past" /\ verdict = FALSE

-----------------------------------------------------------------------------
(* The private record.                                                     *)

(* Mutant: a later status replaces the record.                             *)
WritePrivate_Again(status, ok) ==
  /\ private' = IF ok THEN status ELSE private
  /\ write_failed' = ~ok

(* _write_private: nothing if already written; the write itself may fail.  *)
WritePrivate(status, ok) ==
  IF private # "none"
    THEN ok /\ UNCHANGED <<private, write_failed>>
    ELSE /\ private' = IF ok THEN status ELSE private
         /\ write_failed' = ~ok

(* Where _run continues after its try block raised.                        *)
Raise == run' = "failing" /\ EnterJoin

-----------------------------------------------------------------------------
(* _run.                                                                   *)

(* The episode returns its results.                                        *)
EpisodeReturns ==
  /\ run = "play"
  /\ run' = "join"
  /\ EnterJoin
  /\ UNCHANGED <<conns, seated, serving, record>>

(* It raises, or exceeds episode_timeout_seconds.                          *)
EpisodeFails ==
  /\ run = "play"
  /\ Raise
  /\ UNCHANGED <<conns, seated, serving, record>>

(* Ownership unresolved, or the record incomplete for all that: truncated. *)
Truncate(ok) ==
  /\ run = "join"
  /\ \E verdict \in BOOLEAN : JoinReturns(verdict)
  /\ WritePrivate("truncated", ok)
  /\ Raise
  /\ UNCHANGED <<conns, seated, serving, published>>

(* Mutant: the results are published whatever the join returned.           *)
Publish_Unowned ==
  /\ run = "join"
  /\ \E verdict \in BOOLEAN : JoinReturns(verdict)
  /\ WritePrivate("completed", TRUE)
  /\ published' = Artifacts
  /\ run' = "final"
  /\ UNCHANGED <<conns, seated, serving, settling>>

(* Private record first, then results, replay and operator log, with no    *)
(* await between them; any of the writes may raise.                        *)
Publish ==
  /\ run = "join"
  /\ JoinReturns(TRUE)
  /\ \/ /\ WritePrivate("completed", FALSE)
        /\ Raise
        /\ UNCHANGED published
     \/ /\ WritePrivate("completed", TRUE)
        /\ published' \in {{}, {"results"}, Artifacts}
        /\ Raise
     \/ /\ WritePrivate("completed", TRUE)
        /\ published' = Artifacts
        /\ run' = "final"
        /\ UNCHANGED settling
  /\ UNCHANGED <<conns, seated, serving>>

(* The finals go out to the players and spectators, or fail to.            *)
SendFinals ==
  /\ run = "final"
  /\ \/ run' = "sleep" /\ UNCHANGED settling
     \/ Raise
  /\ UNCHANGED <<conns, seated, serving, record>>

(* except Exception: results are dropped and the failure is recorded.      *)
RecordFailure(ok, log_ok) ==
  /\ run = "failing"
  /\ \E verdict \in BOOLEAN :
       /\ JoinReturns(verdict)
       /\ WritePrivate(IF verdict THEN "failed" ELSE "truncated", ok)
  /\ run' = IF ok /\ log_ok THEN "fatal" ELSE "leaving"
  /\ UNCHANGED <<conns, seated, serving, settling, published>>

(* finally: reached from the end of the body, of the handler, or from a    *)
(* cancellation; a stopped episode that left no record is recorded now.    *)
EnterFinally ==
  /\ run \in {"sleep", "fatal"}
  /\ run' = "leaving"
  /\ UNCHANGED <<conns, seated, serving, settling, record>>

Leave(ok) ==
  /\ run = "leaving"
  /\ \E verdict \in BOOLEAN : JoinReturns(verdict)
  /\ IF stopping THEN WritePrivate("truncated", ok)
                 ELSE ok /\ UNCHANGED <<private, write_failed>>
  /\ run' = IF ok THEN "drain" ELSE "ended"
  /\ UNCHANGED <<conns, seated, serving, settling, published>>

(* Mutant: the server is not told to exit.                                 *)
Drained_Silently ==
  /\ run = "drain"
  /\ run' = "ended"
  /\ UNCHANGED <<conns, seated, serving, settling, record>>

(* The wait for spectators ends: they left, 120 s passed, or a stop came.  *)
Drained ==
  /\ run = "drain"
  /\ run' = "ended"
  /\ should_exit' = TRUE
  /\ UNCHANGED <<conns, seated, stopping, stop, stops, settling, record>>

RunStep ==
  /\ ~exited
  /\ \/ EpisodeReturns \/ EpisodeFails
     \/ \E ok \in BOOLEAN : Truncate(ok)
     \/ Publish
     \/ SendFinals
     \/ \E ok, log_ok \in BOOLEAN : RecordFailure(ok, log_ok)
     \/ EnterFinally
     \/ \E ok \in BOOLEAN : Leave(ok)
     \/ Drained

-----------------------------------------------------------------------------
(* stop.                                                                   *)

(* CancelledError at the await _run is in: it is no Exception, so the      *)
(* handler is skipped; in the finally block it skips what is left of it,   *)
(* and a task that has not had its first step never runs.                  *)
AfterCancel ==
  CASE run \in {"none", "ended"} -> {run}
    [] run \in {"leaving", "drain"} -> {"ended"}
    [] run = "play" -> {"leaving", "ended"}
    [] OTHER -> {"leaving"}

RequestStop ==
  /\ ~stopping
  /\ stopping' = TRUE
  /\ run' \in AfterCancel

(* A signal: run_owned calls request_stop, once.                           *)
Signal ==
  /\ RequestStop
  /\ stop = "idle"
  /\ deadline' = IF deadline = "unset" THEN "running" ELSE deadline
  /\ IF run' = "leaving"
       THEN /\ cleanup' = IF cleanup = "none" THEN "settling" ELSE cleanup
            /\ owned' = IF cleanup = "none" THEN registered ELSE owned
       ELSE UNCHANGED <<cleanup, owned>>
  /\ UNCHANGED <<conns, seated, stop, stops, should_exit, acked, joined, record>>

(* The server leaves serve: after the signal, or because _run is over.     *)
BeginStop ==
  /\ stop = "idle"
  /\ should_exit \/ stopping
  /\ stop' = "join"
  /\ IF stopping THEN UNCHANGED <<stopping, run>> ELSE RequestStop
  /\ EnterJoin
  /\ UNCHANGED <<conns, seated, stops, should_exit, record>>

StopJoins ==
  /\ stop = "join"
  /\ \E verdict \in BOOLEAN : JoinReturns(verdict)
  /\ stop' = "settle"
  /\ UNCHANGED <<conns, seated, run, stopping, stops, should_exit, settling, record>>

(* Mutant: the shutdown joins again as long as _run has not ended.         *)
StopSettles_Again(ok) ==
  /\ stop = "settle"
  /\ run \in {"none", "ended"} \/ deadline = "past"
  /\ joined' = (joined /\ run \in {"none", "ended"})
  /\ IF started THEN WritePrivate("truncated", ok)
                ELSE ok /\ UNCHANGED <<private, write_failed>>
  /\ stop' = IF stops = 2 /\ run \in {"none", "ended"} THEN "finished" ELSE "join"
  /\ stops' = 2
  /\ UNCHANGED <<conns, seated, run, stopping, should_exit, deadline, cleanup,
                 owned, acked, published>>

(* Mutant: _run is trusted to have left a record.                          *)
StopSettles_NoRecord(ok) ==
  /\ stop = "settle"
  /\ run \in {"none", "ended"} \/ deadline = "past"
  /\ joined' = (joined /\ run \in {"none", "ended"})
  /\ ok
  /\ stop' = "finished"
  /\ stops' = 2
  /\ UNCHANGED <<conns, seated, run, stopping, should_exit, deadline, cleanup,
                 owned, acked, record>>

(* _run has ended or is given up; an episode without a record gets one.    *)
(* The application's shutdown calls stop, and serve_owned once more.       *)
StopSettles(ok) ==
  /\ stop = "settle"
  /\ run \in {"none", "ended"} \/ deadline = "past"
  /\ joined' = (joined /\ run \in {"none", "ended"})
  /\ IF started THEN WritePrivate("truncated", ok)
                ELSE ok /\ UNCHANGED <<private, write_failed>>
  /\ \/ stop' = "finished"
     \/ stops = 1 /\ stop' = "join"
  /\ stops' = 2
  /\ UNCHANGED <<conns, seated, run, stopping, should_exit, deadline, cleanup,
                 owned, acked, published>>

StopStep ==
  \/ BeginStop \/ StopJoins
  \/ \E ok \in BOOLEAN : StopSettles(ok)

-----------------------------------------------------------------------------
Next ==
  \/ ConnStep \/ StartEpisode
  \/ \E c \in Conns : Acknowledge(c)
  \/ Settle \/ DeadlinePasses
  \/ RunStep
  \/ Signal \/ StopStep

Spec == Init /\ [][Next]_vars

(* start_after_timeout fires, the episode has a timeout, every join has    *)
(* the owner's deadline, the drain has a cap: the server's own steps are   *)
(* taken.  Players and signals owe nothing.                                *)
Fairness ==
  /\ WF_vars(StartEpisode)
  /\ WF_vars(Settle)
  /\ WF_vars(DeadlinePasses)
  /\ WF_vars(RunStep)
  /\ WF_vars(StopStep)

FairSpec == Spec /\ Fairness

-----------------------------------------------------------------------------
(* Every connection ends as ConnectionEnd has it, under the one deadline   *)
(* and the one settlement of the server: however the connections came and  *)
(* replaced each other, none is vouched for that a SeatLink of its own     *)
(* could not have settled (app.py:145-194, 213-217, channel.py:252-273).   *)
Reader(c) ==
  CASE chan[c] \in {"none", "reading"} -> "reading"
    [] chan[c] \in {"lost", "replaced"} -> "lost"
    [] chan[c] = "broken" -> "broken"
Stage(c) ==
  CASE cleanup = "none" \/ c \notin owned -> "open"
    [] cleanup = "settling" /\ c \in owned -> "stopping"
    [] cleanup = "done" /\ c \in owned -> IF joined THEN "settled" ELSE "withheld"
Conn(c) == INSTANCE ConnectionEnd WITH
  reader <- Reader(c), clock <- deadline, stage <- Stage(c), acked <- c \in acked
Ends(c) == Conn(c)!Next \/ UNCHANGED <<Reader(c), deadline, Stage(c), c \in acked>>
ConnectionsEnd ==
  /\ \A c \in Conns : Conn(c)!Init
  /\ [][\A c \in Conns : Ends(c)]_vars

(* The private record is sealed once and never overwritten, whatever fails *)
(* after it, and public artifacts come only with a completed one           *)
(* (app.py:208-221, 239-249, 259-272).                                     *)
Outcome == INSTANCE EpisodeOutcome WITH
  record <- IF private = "none" THEN "open" ELSE private,
  public <- published
KeepsItsPromise == Outcome!Spec

(* A record sealed as completed has the acknowledgement of every           *)
(* connection the server ever accepted, replaced and lost ones included:   *)
(* no evidence can still be on its way (app.py:145-175, 239).              *)
CompletedIsWhole ==
  private = "completed" => registered \subseteq acked /\ cleanup = "done"

(* The settlement covers every accepted connection: none slips in between  *)
(* the list it took and the seal (app.py:149-152, 373-377).                *)
EveryConnectionOwned == cleanup # "none" => owned = registered

(* Nobody waits for what may never come: whoever waits in a join finds the *)
(* settlement there, and a deadline that nobody takes back; stop(), which  *)
(* also waits for _run, has that deadline too (app.py:178-202).            *)
WaitsAreBounded ==
  run \in {"join", "failing", "leaving"} \/ stop \in {"join", "settle"} =>
    cleanup # "none" /\ deadline # "unset"

(* The server cannot go round in circles: whatever it does by itself, and  *)
(* every signal, brings it nearer to its end, however _run, the two calls  *)
(* of stop and the settlement interleave.  With the waits bounded this is  *)
(* why it always exits; connections alone leave it where it is.            *)
RunLeft ==
  CASE run = "none" -> 9    [] run = "play" -> 8   [] run = "join" -> 7
    [] run = "final" -> 6   [] run = "sleep" -> 5  [] run = "failing" -> 4
    [] run = "fatal" -> 3   [] run = "leaving" -> 2
    [] run = "drain" -> 1   [] run = "ended" -> 0
StopLeft ==
  CASE stop = "idle" -> 5
    [] stop = "join" -> IF stops = 1 THEN 4 ELSE 2
    [] stop = "settle" -> IF stops = 1 THEN 3 ELSE 1
    [] stop = "finished" -> 0
SettlementLeft ==
  CASE cleanup = "none" -> 2 [] cleanup = "settling" -> 1 [] cleanup = "done" -> 0
DeadlineLeft ==
  CASE deadline = "unset" -> 2 [] deadline = "running" -> 1 [] deadline = "past" -> 0
Left == RunLeft + StopLeft + SettlementLeft + DeadlineLeft + (IF stopping THEN 0 ELSE 1)
Nearer == Left' \in 0 .. Left - 1
ServerAdvances ==
  [][Nearer]_<<seated, run, serving, deadline, cleanup, owned, joined, record>>

(* The process does not end with an episode that left no private record,   *)
(* unless its last attempt to write one failed (app.py:195-206, 271-272).  *)
ExitsSealed == exited /\ started => private # "none" \/ write_failed

(* The server always ends by itself: no silent player, lost connection,    *)
(* failed write or cancellation keeps the process up.                      *)
AlwaysExits == <>exited

(* ws_channel.py:4-5: "On disconnect every subsequent receive times out    *)
(* (defaults) until the app layer swaps in a reconnected channel."  While  *)
(* the episode plays, a seat it was given a connection for is played on    *)
(* the connection the app layer holds for that seat.                       *)
ReconnectIsHeard ==
  run = "play" => \A s \in Seats : seated[s] # None => seated[s] = channels[s]
=============================================================================
