-------------------------- MODULE GameServerProofs --------------------------
(***************************************************************************)
(* Proofs about GameServer, for any number of seats and of connections.    *)
(* The record is written from four places, by two tasks, after joins that  *)
(* may return early; Inv says what the settlement stands for once it is    *)
(* done (Settlement) and which task can still write (Ways): a stop finds   *)
(* _run on its way out, and an episode still being played has neither      *)
(* recorded nor published anything.                                        *)
(***************************************************************************)
EXTENDS GameServer, TLAPS

Settlement ==
  /\ cleanup = "none" => acked = {}
  /\ cleanup # "none" => owned = registered
  /\ joined => cleanup = "done" /\ owned = acked
  /\ private = "completed" => cleanup = "done" /\ owned = acked

Ways ==
  /\ stopping => run \in {"none", "leaving", "drain", "ended"}
  /\ stop # "idle" => stopping
  /\ run \in {"none", "play", "join"} => private = "none"
  /\ private = "none" => published = {}
  /\ exited /\ started => private # "none" \/ write_failed

Inv == TypeOK /\ Settlement /\ Ways

LEMMA InvInit == Init => Inv
BY DEF Init, Inv, TypeOK, Settlement, Ways, exited, started

-----------------------------------------------------------------------------
(* Helpers.                                                                *)

LEMMA WriteTypes ==
  ASSUME TypeOK, NEW status \in {"completed", "failed", "truncated"}, NEW ok \in BOOLEAN,
         WritePrivate(status, ok)
  PROVE  /\ private' \in {"none", "completed", "failed", "truncated"}
         /\ write_failed' \in BOOLEAN
         /\ private' # private => private = "none" /\ private' = status
         /\ private' = "none" => write_failed'
BY DEF WritePrivate, TypeOK

LEMMA EnterTypes ==
  ASSUME Inv, EnterJoin, registered' = registered
  PROVE  /\ cleanup' \in {"settling", "done"}
         /\ deadline' \in {"running", "past"}
         /\ owned' \subseteq Conns /\ acked' \subseteq owned' /\ joined' \in BOOLEAN
         /\ owned' = registered'
         /\ joined' => cleanup' = "done" /\ owned' = acked'
         /\ cleanup = "done" => cleanup' = "done" /\ owned' = owned /\ acked' = acked
BY DEF EnterJoin, Inv, TypeOK, Settlement

(* A join that returned True stands for the settlement of everything.      *)
LEMMA Returned ==
  ASSUME Inv, JoinReturns(TRUE)
  PROVE  joined /\ cleanup = "done" /\ owned = acked
BY DEF JoinReturns, Inv, Settlement

-----------------------------------------------------------------------------
(* Connections and the settlement.                                         *)

LEMMA ConnSteps == ASSUME Inv, ConnStep PROVE Inv'
<1>1. PICK c \in Conns : \/ Connect(c) \/ Replace(c) \/ ReplaceFails(c)
                         \/ Disconnect(c) \/ BreakReader(c)
  BY DEF ConnStep
<1>2. SeatOf[c] \in Seats
  BY SeatOfAssumption
<1>3. TypeOK'
  <2>1. CASE Connect(c)
    <3>1. channels[SeatOf[c]] \in Conns \cup {None}
      BY <1>2 DEF Inv, TypeOK
    <3> QED
      BY <1>2, <2>1, <3>1 DEF Connect, Inv, TypeOK, serving, settling, record
  <2>2. CASE Replace(c)
    <3>1. chan' \in [Conns -> {"none", "reading", "lost", "replaced", "broken"}]
      BY <2>2 DEF Replace, Inv, TypeOK
    <3> QED
      BY <1>2, <2>2, <3>1 DEF Replace, Inv, TypeOK, serving, settling, record
  <2>3. CASE ReplaceFails(c)
    BY <2>3 DEF ReplaceFails, Inv, TypeOK, serving, settling, record
  <2>4. CASE Disconnect(c) \/ BreakReader(c)
    BY <2>4 DEF Disconnect, BreakReader, Inv, TypeOK, serving, settling, record
  <2> QED
    BY <1>1, <2>1, <2>2, <2>3, <2>4
<1>4. /\ UNCHANGED <<run, serving, settling, record>>
      /\ registered' = registered \/ cleanup = "none"
  BY <1>1 DEF Connect, Replace, ReplaceFails, Disconnect, BreakReader
<1>5. Settlement' /\ Ways'
  BY <1>4 DEF serving, settling, record, Inv, Settlement, Ways, exited, started
<1> QED
  BY <1>3, <1>5 DEF Inv

LEMMA SettlingSteps ==
  ASSUME Inv, StartEpisode \/ (\E c \in Conns : Acknowledge(c)) \/ Settle \/ DeadlinePasses
  PROVE  Inv'
<1>1. CASE StartEpisode
  BY <1>1 DEF StartEpisode, Inv, TypeOK, Settlement, Ways, conns, serving, settling, record,
     exited, started
<1>2. ASSUME NEW c \in Conns, Acknowledge(c) PROVE Inv'
  <2>1. TypeOK'
    BY <1>2 DEF Acknowledge, Inv, TypeOK, conns, serving, record
  <2>2. Settlement'
    BY <1>2 DEF Acknowledge, Inv, Settlement, conns, record
  <2>3. Ways'
    BY <1>2 DEF Acknowledge, Inv, Ways, serving, record, exited, started
  <2> QED
    BY <2>1, <2>2, <2>3 DEF Inv
<1>3. CASE Settle
  <2>1. joined' \in BOOLEAN /\ (joined' => owned = acked)
    BY <1>3 DEF Settle
  <2>2. TypeOK'
    BY <1>3, <2>1 DEF Settle, Inv, TypeOK, conns, serving, record
  <2>3. Settlement'
    BY <1>3, <2>1 DEF Settle, Inv, Settlement, conns, record
  <2>4. Ways'
    BY <1>3 DEF Settle, Inv, Ways, serving, record, exited, started
  <2> QED
    BY <2>2, <2>3, <2>4 DEF Inv
<1>4. CASE DeadlinePasses
  BY <1>4 DEF DeadlinePasses, Inv, TypeOK, Settlement, Ways, conns, serving, record, exited,
     started
<1> QED
  BY <1>1, <1>2, <1>3, <1>4

-----------------------------------------------------------------------------
(* _run.                                                                   *)

(* A step of _run that enters the settlement and may write the record.     *)
LEMMA JoiningStep ==
  ASSUME Inv, EnterJoin, UNCHANGED <<conns, seated, serving>>, ~stopping,
         run \notin {"none"},
         run' \in {"join", "failing"},
         run' = "join" => private' = "none",
         private' \in {"none", "completed", "failed", "truncated"}, write_failed' \in BOOLEAN,
         published' \subseteq Artifacts, private' = "none" => published' = {},
         private' = "completed" => private = "completed" \/ (cleanup = "done" /\ owned = acked)
  PROVE  Inv'
<1>1. registered' = registered
  BY DEF conns
<1>2. TypeOK'
  BY <1>1, EnterTypes DEF Inv, TypeOK, conns, serving
<1>3. Settlement'
  BY <1>1, EnterTypes DEF Inv, Settlement
<1>4. Ways'
  BY DEF Inv, Ways, serving, exited, started
<1> QED
  BY <1>2, <1>3, <1>4 DEF Inv

(* A step of _run that leaves the settlement alone and writes no completed *)
(* record.                                                                 *)
LEMMA LeavingStep ==
  ASSUME Inv, UNCHANGED <<conns, seated, stopping, stop, stops, settling>>, ~exited,
         run \notin {"none"},
         run' \in {"final", "sleep", "fatal", "leaving", "drain", "ended"},
         should_exit' \in BOOLEAN,
         stopping => run' \in {"leaving", "drain", "ended"},
         private' \in {"none", "completed", "failed", "truncated"}, write_failed' \in BOOLEAN,
         published' \subseteq Artifacts, private' = "none" => published' = {},
         private' = "completed" => private = "completed" \/ (cleanup = "done" /\ owned = acked)
  PROVE  Inv'
<1>1. TypeOK'
  BY DEF Inv, TypeOK, conns, settling
<1>2. Settlement'
  BY DEF Inv, Settlement, conns, settling
<1>3. Ways'
  BY DEF Inv, Ways, exited, started
<1> QED
  BY <1>1, <1>2, <1>3 DEF Inv

LEMMA RunSteps == ASSUME Inv, RunStep PROVE Inv'
<1> USE DEF Inv, TypeOK, Ways
<1>1. CASE EpisodeReturns \/ EpisodeFails
  <2>1. /\ run = "play" /\ run' \in {"join", "failing"} /\ EnterJoin
        /\ UNCHANGED <<conns, seated, serving, record>>
    BY <1>1 DEF EpisodeReturns, EpisodeFails, Raise
  <2> QED
    BY <2>1, JoiningStep DEF record
<1>2. ASSUME NEW ok \in BOOLEAN, Truncate(ok) PROVE Inv'
  <2>1. run = "join" /\ run' = "failing" /\ EnterJoin /\ ~stopping
    BY <1>2 DEF Truncate, Raise
  <2>2. WritePrivate("truncated", ok) /\ UNCHANGED <<conns, seated, serving, published>>
    BY <1>2 DEF Truncate
  <2>3. /\ private' \in {"none", "completed", "failed", "truncated"} /\ write_failed' \in BOOLEAN
        /\ private' # private => private = "none" /\ private' = "truncated"
    BY <2>2, WriteTypes
  <2> QED
    BY <2>1, <2>2, <2>3, JoiningStep
<1>3. CASE Publish
  <2>1. run = "join" /\ private = "none" /\ published = {} /\ ~stopping
    BY <1>3 DEF Publish
  <2>2. cleanup = "done" /\ owned = acked
    BY <1>3, Returned DEF Publish
  <2>3. private' \in {"none", "completed"} /\ write_failed' \in BOOLEAN
        /\ published' \subseteq Artifacts /\ (private' = "none" => published' = {})
    BY <1>3, <2>1 DEF Publish, WritePrivate, Artifacts
  <2>4. CASE Raise
    BY <1>3, <2>1, <2>2, <2>3, <2>4, JoiningStep DEF Publish, Raise
  <2>5. CASE run' = "final" /\ UNCHANGED settling
    <3>1. ~exited
      BY DEF RunStep
    <3>2. UNCHANGED <<conns, seated, stopping, stop, stops, should_exit>>
      BY <1>3 DEF Publish, serving
    <3> QED
      BY <2>1, <2>2, <2>3, <2>5, <3>1, <3>2, LeavingStep
  <2> QED
    BY <1>3, <2>4, <2>5 DEF Publish
<1>4. CASE SendFinals
  <2>1. run = "final" /\ ~stopping /\ UNCHANGED <<conns, seated, serving, record>>
    BY <1>4 DEF SendFinals
  <2>2. CASE Raise
    BY <2>1, <2>2, JoiningStep DEF Raise, record
  <2>3. CASE run' = "sleep" /\ UNCHANGED settling
    BY <2>1, <2>3, LeavingStep DEF RunStep, record, serving
  <2> QED
    BY <1>4, <2>2, <2>3 DEF SendFinals
<1>5. ASSUME NEW ok \in BOOLEAN, NEW log_ok \in BOOLEAN, RecordFailure(ok, log_ok) PROVE Inv'
  <2>1. PICK status \in {"failed", "truncated"} : WritePrivate(status, ok)
    BY <1>5 DEF RecordFailure
  <2>2. /\ private' \in {"none", "completed", "failed", "truncated"} /\ write_failed' \in BOOLEAN
        /\ private' # private => private = "none" /\ private' = status
    BY <2>1, WriteTypes
  <2>3. run = "failing" /\ ~stopping /\ run' \in {"fatal", "leaving"}
    BY <1>5 DEF RecordFailure
  <2>4. UNCHANGED <<conns, seated, stopping, stop, stops, should_exit, settling, published>>
    BY <1>5 DEF RecordFailure, serving
  <2> QED
    BY <2>1, <2>2, <2>3, <2>4, LeavingStep DEF RunStep
<1>6. CASE EnterFinally
  <2>1. /\ run \in {"sleep", "fatal"} /\ run' = "leaving"
        /\ UNCHANGED <<conns, seated, stopping, stop, stops, should_exit, settling, record>>
    BY <1>6 DEF EnterFinally, serving
  <2> QED
    BY <2>1, LeavingStep DEF RunStep, record
<1>7. ASSUME NEW ok \in BOOLEAN, Leave(ok) PROVE Inv'
  <2>1. /\ run = "leaving" /\ run' \in {"drain", "ended"}
        /\ UNCHANGED <<conns, seated, stopping, stop, stops, should_exit, settling, published>>
    BY <1>7 DEF Leave, serving
  <2>2. /\ private' \in {"none", "completed", "failed", "truncated"} /\ write_failed' \in BOOLEAN
        /\ private' # private => private = "none" /\ private' = "truncated"
    BY <1>7, WriteTypes DEF Leave
  <2> QED
    BY <2>1, <2>2, LeavingStep DEF RunStep
<1>8. CASE Drained
  <2>1. /\ run = "drain" /\ run' = "ended" /\ should_exit' = TRUE
        /\ UNCHANGED <<conns, seated, stopping, stop, stops, settling, record>>
    BY <1>8 DEF Drained
  <2> QED
    BY <2>1, LeavingStep DEF RunStep, record
<1> QED
  BY <1>1, <1>2, <1>3, <1>4, <1>5, <1>6, <1>7, <1>8 DEF RunStep

-----------------------------------------------------------------------------
(* stop.                                                                   *)

(* A cancellation finds _run on its way out.                               *)
LEMMA Cancelled ==
  ASSUME Inv, RequestStop
  PROVE  /\ stopping' = TRUE /\ run' \in {"none", "leaving", "ended"}
         /\ run' = "none" <=> run = "none"
<1> USE DEF Inv, TypeOK, Ways
<1>1. CASE run \in {"none", "ended"}
  BY <1>1 DEF RequestStop, AfterCancel
<1>2. CASE run \in {"leaving", "drain"}
  BY <1>2 DEF RequestStop, AfterCancel
<1>3. CASE run = "play"
  BY <1>3 DEF RequestStop, AfterCancel
<1>4. CASE run \in {"join", "final", "sleep", "failing", "fatal"}
  BY <1>4 DEF RequestStop, AfterCancel
<1> QED
  BY <1>1, <1>2, <1>3, <1>4

LEMMA StopSteps == ASSUME Inv, Signal \/ StopStep PROVE Inv'
<1>1. CASE Signal
  <2>1. /\ stopping' = TRUE /\ run' \in {"none", "leaving", "ended"}
        /\ run' = "none" <=> run = "none"
    BY <1>1, Cancelled DEF Signal
  <2>2. TypeOK'
    BY <1>1, <2>1 DEF Signal, Inv, TypeOK, Settlement, conns, record
  <2>3. Settlement'
    BY <1>1 DEF Signal, Inv, Settlement, conns, record
  <2>4. Ways'
    BY <1>1, <2>1 DEF Signal, Inv, Ways, record, exited, started
  <2> QED
    BY <2>2, <2>3, <2>4 DEF Inv
<1>2. CASE BeginStop
  <2>1. /\ stopping' = TRUE /\ run' \in {"none", "leaving", "drain", "ended"}
        /\ run' = "none" <=> run = "none"
    BY <1>2, Cancelled DEF BeginStop, Inv, TypeOK, Ways
  <2>2. EnterJoin /\ stop' = "join" /\ UNCHANGED <<conns, seated, stops, should_exit, record>>
    BY <1>2 DEF BeginStop
  <2>3. registered' = registered
    BY <2>2 DEF conns
  <2>4. TypeOK'
    BY <2>1, <2>2, <2>3, EnterTypes DEF Inv, TypeOK, conns, record
  <2>5. Settlement'
    BY <2>2, <2>3, EnterTypes DEF Inv, Settlement, record
  <2>6. Ways'
    BY <2>1, <2>2 DEF Inv, Ways, record, exited, started
  <2> QED
    BY <2>4, <2>5, <2>6 DEF Inv
<1>3. CASE StopJoins
  BY <1>3 DEF StopJoins, Inv, TypeOK, Settlement, Ways, conns, settling, record, exited, started
<1>4. ASSUME NEW ok \in BOOLEAN, StopSettles(ok) PROVE Inv'
  <2>1. /\ private' \in {"none", "completed", "failed", "truncated"} /\ write_failed' \in BOOLEAN
        /\ private' # private => started /\ private = "none" /\ private' = "truncated"
        /\ started /\ private' = "none" => write_failed'
    BY <1>4, WriteTypes DEF StopSettles, Inv, TypeOK
  <2>2. /\ stop = "settle" /\ stop' \in {"finished", "join"} /\ stops' = 2
        /\ joined' \in BOOLEAN /\ (joined' => joined)
        /\ UNCHANGED <<conns, seated, run, stopping, should_exit, deadline, cleanup,
                       owned, acked, published>>
    BY <1>4 DEF StopSettles, Inv, TypeOK
  <2>3. TypeOK'
    BY <2>1, <2>2 DEF Inv, TypeOK, conns
  <2>4. Settlement'
    BY <2>1, <2>2 DEF Inv, Settlement, conns
  <2>5. Ways'
    BY <2>1, <2>2 DEF Inv, Ways, exited, started
  <2> QED
    BY <2>3, <2>4, <2>5 DEF Inv
<1> QED
  BY <1>1, <1>2, <1>3, <1>4 DEF StopStep

LEMMA InvStep == Inv /\ [Next]_vars => Inv'
<1> SUFFICES ASSUME Inv, [Next]_vars PROVE Inv'
  OBVIOUS
<1>1. CASE UNCHANGED vars
  BY <1>1 DEF vars, conns, serving, settling, record, Inv, TypeOK, Settlement, Ways, exited,
     started
<1> QED
  BY <1>1, ConnSteps, SettlingSteps, RunSteps, StopSteps DEF Next

LEMMA Invariance == Spec => []Inv
BY InvInit, InvStep, PTL DEF Spec

(* The server's state keeps its types for any number of connections.       *)
THEOREM ServerTyped == Spec => []TypeOK
<1>1. Inv => TypeOK
  BY DEF Inv
<1> QED
  BY <1>1, Invariance, PTL

(* No connection ever accepted is left out of the settlement.              *)
THEOREM ConnectionsOwned == Spec => []EveryConnectionOwned
<1>1. Inv => EveryConnectionOwned
  BY DEF Inv, Settlement, EveryConnectionOwned
<1> QED
  BY <1>1, Invariance, PTL

(* A record sealed as completed has every connection's acknowledgement,    *)
(* however the joins, the deadline, the stops and the writes fell.         *)
THEOREM CompletedWhole == Spec => []CompletedIsWhole
<1>1. Inv => CompletedIsWhole
  BY DEF Inv, Settlement, CompletedIsWhole
<1> QED
  BY <1>1, Invariance, PTL

(* The process never ends with an episode that left no record, unless the  *)
(* last attempt to write one failed.                                       *)
THEOREM SealedAtExit == Spec => []ExitsSealed
<1>1. Inv => ExitsSealed
  BY DEF Inv, Ways, ExitsSealed
<1> QED
  BY <1>1, Invariance, PTL

-----------------------------------------------------------------------------
(* The refinement.                                                         *)

sealing == IF private = "none" THEN "open" ELSE private

(* A step writes nothing, or a record together with what it publishes.     *)
LEMMA Sealing ==
  ASSUME Inv, [Next]_vars
  PROVE  \/ UNCHANGED <<private, published>>
         \/ /\ private = "none" /\ private' = "completed" /\ published = {}
            /\ published' \subseteq Artifacts
         \/ private = "none" /\ private' \in {"failed", "truncated"} /\ published' = published
<1> USE DEF Inv, TypeOK, Ways
<1>1. CASE RunStep
  <2>1. CASE EpisodeReturns \/ EpisodeFails \/ SendFinals \/ EnterFinally \/ Drained
    BY <2>1 DEF EpisodeReturns, EpisodeFails, SendFinals, EnterFinally, Drained, record
  <2>2. ASSUME NEW ok \in BOOLEAN, Truncate(ok) \/ Leave(ok)
        PROVE  \/ UNCHANGED <<private, published>>
               \/ private = "none" /\ private' = "truncated" /\ published' = published
    BY <2>2 DEF Truncate, Leave, WritePrivate
  <2>3. CASE Publish
    BY <2>3 DEF Publish, WritePrivate, Artifacts
  <2>4. ASSUME NEW ok \in BOOLEAN, NEW log_ok \in BOOLEAN, RecordFailure(ok, log_ok)
        PROVE  \/ UNCHANGED <<private, published>>
               \/ private = "none" /\ private' \in {"failed", "truncated"} /\ published' = published
    BY <2>4 DEF RecordFailure, WritePrivate
  <2> QED
    BY <1>1, <2>1, <2>2, <2>3, <2>4 DEF RunStep
<1>2. CASE StopStep
  <2>1. ASSUME NEW ok \in BOOLEAN, StopSettles(ok)
        PROVE  \/ UNCHANGED <<private, published>>
               \/ private = "none" /\ private' = "truncated" /\ published' = published
    BY <2>1 DEF StopSettles, WritePrivate
  <2> QED
    BY <1>2, <2>1 DEF StopStep, BeginStop, StopJoins, record
<1>3. CASE ConnStep \/ StartEpisode \/ (\E c \in Conns : Acknowledge(c)) \/ Settle
             \/ DeadlinePasses \/ Signal
  BY <1>3 DEF ConnStep, Connect, Replace, ReplaceFails, Disconnect, BreakReader, StartEpisode,
     Acknowledge, Settle, DeadlinePasses, Signal, record
<1>4. CASE UNCHANGED vars
  BY <1>4 DEF vars, record
<1> QED
  BY <1>1, <1>2, <1>3, <1>4 DEF Next

(* The server implements EpisodeOutcome: one record, sealed once, and      *)
(* public artifacts only together with a completed one, whatever fails.    *)
THEOREM PromiseKept == Spec => KeepsItsPromise
<1>1. Init => Outcome!Init
  BY DEF Init, Outcome!Init
<1>2. Inv /\ [Next]_vars => [Outcome!Next]_<<sealing, published>>
  <2> SUFFICES ASSUME Inv, [Next]_vars PROVE [Outcome!Next]_<<sealing, published>>
    OBVIOUS
  <2>1. CASE UNCHANGED <<private, published>>
    BY <2>1 DEF sealing
  <2>2. CASE /\ private = "none" /\ private' = "completed" /\ published = {}
             /\ published' \subseteq Artifacts
    BY <2>2 DEF Outcome!Next, Outcome!Complete, Outcome!Artifacts, Artifacts, sealing
  <2>3. CASE private = "none" /\ private' \in {"failed", "truncated"} /\ published' = published
    BY <2>3 DEF Outcome!Next, Outcome!Withhold, sealing
  <2> QED
    BY <2>1, <2>2, <2>3, Sealing
<1> QED
  BY <1>1, <1>2, Invariance, PTL DEF Spec, KeepsItsPromise, Outcome!Spec, sealing

-----------------------------------------------------------------------------
(* How every connection ends.                                              *)

Ending ==
  \A c \in Conns :
    /\ chan[c] \in {"none", "reading"} => Reader(c) = "reading"
    /\ chan[c] \in {"lost", "replaced"} => Reader(c) = "lost"
    /\ chan[c] = "broken" => Reader(c) = "broken"
    /\ cleanup = "none" \/ c \notin owned => Stage(c) = "open"
    /\ cleanup = "settling" /\ c \in owned => Stage(c) = "stopping"
    /\ cleanup = "done" /\ c \in owned /\ joined => Stage(c) = "settled"
    /\ cleanup = "done" /\ c \in owned /\ ~joined => Stage(c) = "withheld"

LEMMA Ended == Ending
BY Zenon DEF Ending, Reader, Stage

(* Nothing but its reader moves.                                           *)
LEMMA ReaderEnds ==
  ASSUME Inv, ConnStep, NEW c \in Conns
  PROVE  Ends(c)
<1>1. Ending /\ Ending'
  BY Ended, PTL
<1>2. UNCHANGED settling
  BY DEF ConnStep, Connect, Replace, ReplaceFails, Disconnect, BreakReader
<1>3. Stage(c)' = Stage(c) /\ deadline' = deadline /\ (c \in acked)' = (c \in acked)
  BY <1>2 DEF settling, Stage
<1>4. \/ chan'[c] = chan[c]
      \/ chan[c] = "none" /\ chan'[c] = "reading"
      \/ chan[c] = "reading" /\ chan'[c] \in {"lost", "replaced", "broken"}
  BY DEF ConnStep, Connect, Replace, ReplaceFails, Disconnect, BreakReader, Inv, TypeOK
<1>5. CASE chan'[c] = chan[c] \/ (chan[c] = "none" /\ chan'[c] = "reading")
  <2>1. Reader(c)' = Reader(c)
    BY <1>1, <1>5 DEF Ending, Reader
  <2> QED
    BY <1>3, <2>1 DEF Ends
<1>6. CASE chan[c] = "reading" /\ chan'[c] \in {"lost", "replaced", "broken"}
  <2>1. Reader(c) = "reading" /\ Reader(c)' \in {"lost", "broken"}
    BY <1>1, <1>6 DEF Ending
  <2> QED
    BY <1>3, <2>1 DEF Ends, Conn!Next, Conn!StopReading
<1> QED
  BY <1>4, <1>5, <1>6

(* The settlement is entered, or only its deadline is set, or neither.     *)
LEMMA JoinEnds ==
  ASSUME Inv, NEW c \in Conns, UNCHANGED <<chan, joined, acked>>,
         deadline' \in {deadline, IF deadline = "unset" THEN "running" ELSE deadline},
         \/ UNCHANGED <<cleanup, owned>>
         \/ cleanup = "none" /\ EnterJoin
  PROVE  Ends(c)
<1>1. Ending /\ Ending'
  BY Ended, PTL
<1>2. Reader(c)' = Reader(c) /\ (c \in acked)' = (c \in acked)
  BY DEF Reader
<1>3. CASE UNCHANGED <<cleanup, owned>>
  <2>1. Stage(c)' = Stage(c)
    BY <1>3 DEF Stage
  <2>2. CASE deadline' = deadline
    BY <1>2, <2>1, <2>2 DEF Ends
  <2>3. CASE deadline = "unset" /\ deadline' = "running"
    BY <1>2, <2>1, <2>3 DEF Ends, Conn!Next, Conn!SetDeadline
  <2> QED
    BY <2>2, <2>3
<1>4. CASE cleanup = "none" /\ EnterJoin
  <2>1. /\ cleanup = "none" /\ cleanup' = "settling" /\ owned' = registered
        /\ deadline' = IF deadline = "unset" THEN "running" ELSE deadline
    BY <1>4 DEF EnterJoin
  <2>2. Stage(c) = "open"
    BY <1>1, <2>1 DEF Ending
  <2>3. CASE c \in registered
    <3>1. Stage(c)' = "stopping"
      BY <1>1, <2>1, <2>3 DEF Ending
    <3> QED
      BY <1>2, <2>1, <2>2, <3>1 DEF Ends, Conn!Next, Conn!Stop
  <2>4. CASE c \notin registered
    <3>1. Stage(c)' = "open"
      BY <1>1, <2>1, <2>4 DEF Ending
    <3>2. CASE deadline = "unset"
      BY <1>2, <2>1, <2>2, <3>1, <3>2 DEF Ends, Conn!Next, Conn!SetDeadline
    <3>3. CASE deadline # "unset"
      BY <1>2, <2>1, <2>2, <3>1, <3>3 DEF Ends
    <3> QED
      BY <3>2, <3>3
  <2> QED
    BY <2>3, <2>4
<1> QED
  BY <1>3, <1>4

LEMMA SettleEnds ==
  ASSUME Inv, NEW c \in Conns,
         (\E d \in Conns : Acknowledge(d)) \/ Settle \/ DeadlinePasses
  PROVE  Ends(c)
<1>1. Ending /\ Ending'
  BY Ended, PTL
<1>2. UNCHANGED <<chan, owned>>
  BY DEF Acknowledge, Settle, DeadlinePasses, conns
<1>3. Reader(c)' = Reader(c)
  BY <1>2 DEF Reader
<1>4. ASSUME NEW d \in Conns, Acknowledge(d) PROVE Ends(c)
  <2>1. Stage(c)' = Stage(c) /\ deadline' = deadline
    BY <1>4 DEF Acknowledge, Stage
  <2>2. CASE c = d
    <3>1. cleanup = "settling" /\ c \in owned /\ c \notin acked /\ deadline = "running"
          /\ chan[c] = "reading" /\ c \in acked'
      BY <1>4, <2>2 DEF Acknowledge
    <3>2. Stage(c) = "stopping" /\ Reader(c) = "reading"
      BY <1>1, <3>1 DEF Ending
    <3>3. (c \in acked') = TRUE /\ ~ (c \in acked)
      BY <3>1
    <3> QED
      BY <1>3, <2>1, <3>1, <3>2, <3>3 DEF Ends, Conn!Next, Conn!Acknowledge
  <2>3. CASE c # d
    <3>1. (c \in acked)' = (c \in acked)
      BY <1>4, <2>3 DEF Acknowledge
    <3> QED
      BY <1>3, <2>1, <3>1 DEF Ends
  <2> QED
    BY <2>2, <2>3
<1>5. CASE Settle
  <2>1. /\ cleanup = "settling" /\ cleanup' = "done" /\ deadline' = deadline
        /\ joined' => /\ owned = acked /\ deadline = "running"
                      /\ \A d \in owned : chan[d] # "broken"
        /\ (c \in acked)' = (c \in acked)
    BY <1>5 DEF Settle
  <2>2. CASE c \notin owned
    <3>1. Stage(c) = "open" /\ Stage(c)' = "open"
      BY <1>1, <1>2, <2>2 DEF Ending
    <3> QED
      BY <1>3, <2>1, <3>1 DEF Ends
  <2>3. CASE c \in owned /\ joined'
    <3>1. Stage(c) = "stopping" /\ Stage(c)' = "settled"
      BY <1>1, <1>2, <2>1, <2>3 DEF Ending
    <3>2. c \in acked /\ Reader(c) # "broken"
      <4>1. c \in acked /\ chan[c] # "broken"
        BY <2>1, <2>3
      <4>2. chan[c] \in {"none", "reading", "lost", "replaced"}
        BY <4>1 DEF Inv, TypeOK
      <4> QED
        BY <1>1, <4>1, <4>2 DEF Ending
    <3> QED
      BY <1>3, <2>1, <2>3, <3>1, <3>2 DEF Ends, Conn!Next, Conn!Settle
  <2>4. CASE c \in owned /\ ~joined'
    <3>1. Stage(c) = "stopping" /\ Stage(c)' = "withheld"
      BY <1>1, <1>2, <2>1, <2>4 DEF Ending
    <3> QED
      BY <1>3, <2>1, <3>1 DEF Ends, Conn!Next, Conn!Withhold
  <2> QED
    BY <2>2, <2>3, <2>4
<1>6. CASE DeadlinePasses
  <2>1. /\ deadline = "running" /\ deadline' = "past"
        /\ Stage(c)' = Stage(c) /\ (c \in acked)' = (c \in acked)
    BY <1>6 DEF DeadlinePasses, Stage
  <2> QED
    BY <1>3, <2>1 DEF Ends, Conn!Next, Conn!DeadlinePasses
<1> QED
  BY <1>4, <1>5, <1>6

(* stop() may take back the verdict of the settlement.                     *)
LEMMA StopSettlesEnds ==
  ASSUME Inv, NEW c \in Conns, NEW ok \in BOOLEAN, StopSettles(ok)
  PROVE  Ends(c)
<1>1. Ending /\ Ending'
  BY Ended, PTL
<1>2. UNCHANGED <<chan, deadline, cleanup, owned, acked>> /\ (joined' => joined)
  BY DEF StopSettles, conns
<1>3. Reader(c)' = Reader(c) /\ (c \in acked)' = (c \in acked)
  BY <1>2 DEF Reader
<1>4. CASE c \in owned /\ joined /\ ~joined'
  <2>1. cleanup = "done"
    BY <1>4 DEF Inv, Settlement
  <2>2. Stage(c) = "settled" /\ Stage(c)' = "withheld"
    BY <1>1, <1>2, <1>4, <2>1 DEF Ending
  <2> QED
    BY <1>2, <1>3, <2>2 DEF Ends, Conn!Next, Conn!Withhold
<1>5. CASE joined' = joined
  <2>1. Stage(c)' = Stage(c)
    BY <1>2, <1>5 DEF Stage
  <2> QED
    BY <1>2, <1>3, <2>1 DEF Ends
<1>6. CASE c \notin owned
  <2>1. Stage(c) = "open" /\ Stage(c)' = "open"
    BY <1>1, <1>2, <1>6 DEF Ending
  <2> QED
    BY <1>2, <1>3, <2>1 DEF Ends
<1>7. joined \in BOOLEAN /\ joined' \in BOOLEAN
  BY DEF Inv, TypeOK, StopSettles
<1> QED
  BY <1>2, <1>4, <1>5, <1>6, <1>7

(* Joining twice is joining once: the first caller has set the deadline,   *)
(* or a later one sets it.                                                 *)
LEMMA EnterEnds ==
  ASSUME Inv, NEW c \in Conns, chan' = chan, EnterJoin
  PROVE  Ends(c)
<1>1. UNCHANGED <<joined, acked>>
      /\ deadline' \in {deadline, IF deadline = "unset" THEN "running" ELSE deadline}
  BY DEF EnterJoin
<1>2. UNCHANGED <<cleanup, owned>> \/ cleanup = "none"
  BY DEF EnterJoin
<1> QED
  BY <1>1, <1>2, JoinEnds

LEMMA RunEnds ==
  ASSUME Inv, NEW c \in Conns, RunStep \/ StopStep \/ Signal \/ StartEpisode \/ UNCHANGED vars
  PROVE  Ends(c)
<1>1. UNCHANGED <<chan, settling>> => Ends(c)
  BY DEF settling, Ends, Reader, Stage
<1>2. CASE RunStep
  <2>1. chan' = chan /\ (EnterJoin \/ UNCHANGED settling)
    BY <1>2 DEF RunStep, EpisodeReturns, EpisodeFails, Truncate, Publish, SendFinals,
       RecordFailure, EnterFinally, Leave, Drained, Raise, conns
  <2> QED
    BY <1>1, <2>1, EnterEnds
<1>3. CASE StopStep
  <2>1. CASE BeginStop \/ StopJoins
    <3>1. chan' = chan /\ (EnterJoin \/ UNCHANGED settling)
      BY <2>1 DEF BeginStop, StopJoins, conns
    <3> QED
      BY <1>1, <3>1, EnterEnds
  <2> QED
    BY <1>3, <2>1, StopSettlesEnds DEF StopStep
<1>4. CASE Signal
  <2>1. /\ UNCHANGED <<chan, joined, acked>>
        /\ deadline' = IF deadline = "unset" THEN "running" ELSE deadline
        /\ \/ UNCHANGED <<cleanup, owned>>
           \/ cleanup = "none" /\ cleanup' = "settling" /\ owned' = registered
    BY <1>4 DEF Signal, conns
  <2> QED
    BY <2>1, JoinEnds DEF EnterJoin
<1>5. CASE StartEpisode \/ UNCHANGED vars
  BY <1>1, <1>5 DEF StartEpisode, vars, conns
<1> QED
  BY <1>2, <1>3, <1>4, <1>5

(* Every connection of the server implements ConnectionEnd, for any number *)
(* of them: the one settlement that all callers join vouches for none that *)
(* a settlement of its own could not have vouched for.                     *)
THEOREM EveryConnectionEnds == Spec => ConnectionsEnd
<1>1. Init => \A c \in Conns : Conn(c)!Init
  <2> SUFFICES ASSUME Init, NEW c \in Conns PROVE Conn(c)!Init
    OBVIOUS
  <2>1. chan[c] = "none" /\ cleanup = "none" /\ deadline = "unset" /\ ~ (c \in acked)
    BY DEF Init
  <2>2. Reader(c) = "reading" /\ Stage(c) = "open"
    BY <2>1, Ended DEF Ending
  <2> QED
    BY <2>1, <2>2 DEF Conn!Init
<1>2. Inv /\ [Next]_vars => [\A c \in Conns : Ends(c)]_vars
  BY ReaderEnds, SettleEnds, RunEnds DEF Next
<1> QED
  BY <1>1, <1>2, Invariance, PTL DEF Spec, ConnectionsEnd

-----------------------------------------------------------------------------
(* Why the server comes to its end.                                        *)

(* The stages of _run that come after its join remember it.                *)
Waits ==
  /\ run \in {"join", "final", "sleep", "failing", "fatal", "leaving"} => cleanup # "none"
  /\ stop \in {"join", "settle"} => cleanup # "none"
  /\ cleanup # "none" \/ stopping => deadline # "unset"

LEMMA WaitsStep ==
  ASSUME Inv, Waits, [Next]_vars
  PROVE  Waits'
<1>1. CASE ConnStep
  <2>1. UNCHANGED <<run, stop, stopping, cleanup, deadline>>
    BY <1>1 DEF ConnStep, Connect, Replace, ReplaceFails, Disconnect, BreakReader, serving,
       settling
  <2> QED
    BY <2>1 DEF Waits
<1>2. CASE StartEpisode \/ (\E c \in Conns : Acknowledge(c)) \/ Settle \/ DeadlinePasses
  <2>1. /\ UNCHANGED <<stop, stopping>> /\ run' \in {run, "play"}
        /\ cleanup # "none" => cleanup' # "none"
        /\ deadline # "unset" => deadline' # "unset"
        /\ cleanup = "none" => cleanup' = "none"
    BY <1>2 DEF StartEpisode, Acknowledge, Settle, DeadlinePasses, serving, settling
  <2> QED
    BY <2>1 DEF Waits
<1>3. CASE RunStep
  <2>1. /\ UNCHANGED <<stop, stopping>>
        /\ \/ EnterJoin
           \/ /\ UNCHANGED settling
              /\ run' \in {"final", "sleep", "fatal", "leaving", "drain", "ended"}
    BY <1>3 DEF RunStep, EpisodeReturns, EpisodeFails, Truncate, Publish, SendFinals,
       RecordFailure, EnterFinally, Leave, Drained, Raise, serving
  <2>2. UNCHANGED settling /\ run' \in {"final", "sleep", "fatal", "leaving"}
          => run \in {"join", "final", "sleep", "failing", "fatal"}
    BY <1>3 DEF RunStep, EpisodeReturns, EpisodeFails, Truncate, Publish, SendFinals,
       RecordFailure, EnterFinally, Leave, Drained, Raise
  <2> QED
    BY <2>1, <2>2 DEF EnterJoin, settling, Waits
<1>4. CASE Signal
  <2>1. run' \in {"none", "leaving", "ended"} /\ stopping' = TRUE /\ stop' = stop /\ stop = "idle"
    BY <1>4, Cancelled DEF Signal
  <2> QED
    BY <1>4, <2>1 DEF Signal, Waits
<1>5. CASE BeginStop
  BY <1>5 DEF BeginStop, EnterJoin, Waits
<1>6. CASE StopJoins \/ (\E ok \in BOOLEAN : StopSettles(ok))
  BY <1>6 DEF StopJoins, StopSettles, settling, Waits
<1>7. CASE UNCHANGED vars
  BY <1>7 DEF vars, serving, settling, Waits
<1> QED
  BY <1>1, <1>2, <1>3, <1>4, <1>5, <1>6, <1>7 DEF Next, StopStep

(* Whatever _run and stop wait for exists and is bounded, for any number   *)
(* of connections.                                                         *)
THEOREM BoundedWaits == Spec => []WaitsAreBounded
<1>1. Init => Waits
  BY DEF Init, Waits
<1>2. Waits => WaitsAreBounded
  BY DEF Waits, WaitsAreBounded
<1> QED
  BY <1>1, <1>2, WaitsStep, Invariance, PTL DEF Spec

Counted ==
  /\ run = "none" => RunLeft = 9
  /\ run = "play" => RunLeft = 8
  /\ run = "join" => RunLeft = 7
  /\ run = "final" => RunLeft = 6
  /\ run = "sleep" => RunLeft = 5
  /\ run = "failing" => RunLeft = 4
  /\ run = "fatal" => RunLeft = 3
  /\ run = "leaving" => RunLeft = 2
  /\ run = "drain" => RunLeft = 1
  /\ run = "ended" => RunLeft = 0
  /\ stop = "idle" => StopLeft = 5
  /\ stop = "join" /\ stops = 1 => StopLeft = 4
  /\ stop = "join" /\ stops # 1 => StopLeft = 2
  /\ stop = "settle" /\ stops = 1 => StopLeft = 3
  /\ stop = "settle" /\ stops # 1 => StopLeft = 1
  /\ stop = "finished" => StopLeft = 0
  /\ cleanup = "none" => SettlementLeft = 2
  /\ cleanup = "settling" => SettlementLeft = 1
  /\ cleanup = "done" => SettlementLeft = 0
  /\ deadline = "unset" => DeadlineLeft = 2
  /\ deadline = "running" => DeadlineLeft = 1
  /\ deadline = "past" => DeadlineLeft = 0

LEMMA Counting == Counted
BY Zenon DEF Counted, RunLeft, StopLeft, SettlementLeft, DeadlineLeft

Sized ==
  /\ RunLeft \in Nat /\ StopLeft \in Nat
  /\ SettlementLeft \in Nat /\ DeadlineLeft \in Nat

LEMMA CountsNatural == Inv => Sized
BY Counting DEF Counted, Sized, Inv, TypeOK

LEMMA Summing ==
  ASSUME NEW a \in Nat, NEW b \in Nat, NEW c \in Nat, NEW d \in Nat, NEW e \in Nat,
         NEW v \in Nat, NEW w \in Nat, NEW x \in Nat, NEW y \in Nat, NEW z \in Nat,
         v <= a, w <= b, x <= c, y <= d, z <= e,
         v < a \/ w < b \/ x < c \/ y < d \/ z < e
  PROVE  v + w + x + y + z \in 0 .. (a + b + c + d + e) - 1
OBVIOUS

(* A step that takes no part back and moves one of them on is nearer.      *)
LEMMA PartsCount ==
  ASSUME Inv, Inv', stopping => stopping',
         RunLeft' <= RunLeft, StopLeft' <= StopLeft,
         SettlementLeft' <= SettlementLeft, DeadlineLeft' <= DeadlineLeft,
         \/ RunLeft' < RunLeft \/ StopLeft' < StopLeft \/ SettlementLeft' < SettlementLeft
         \/ DeadlineLeft' < DeadlineLeft \/ (~stopping /\ stopping')
  PROVE  Nearer
<1>1. /\ RunLeft \in Nat /\ StopLeft \in Nat /\ SettlementLeft \in Nat /\ DeadlineLeft \in Nat
      /\ RunLeft' \in Nat /\ StopLeft' \in Nat /\ SettlementLeft' \in Nat /\ DeadlineLeft' \in Nat
  <2>1. Sized /\ Sized'
    BY CountsNatural, PTL
  <2> QED
    BY <2>1 DEF Sized
<1>2. PICK e \in {0, 1} : e = IF stopping THEN 0 ELSE 1
  OBVIOUS
<1>3. PICK z \in {0, 1} : z = IF stopping' THEN 0 ELSE 1
  OBVIOUS
<1>4. z <= e /\ (~stopping /\ stopping' => z < e)
  BY <1>2, <1>3
<1>5. e \in Nat /\ z \in Nat
  OBVIOUS
<1>6. RunLeft' + StopLeft' + SettlementLeft' + DeadlineLeft' + z
        \in 0 .. (RunLeft + StopLeft + SettlementLeft + DeadlineLeft + e) - 1
  BY <1>1, <1>4, <1>5, Summing
<1>7. /\ Left = RunLeft + StopLeft + SettlementLeft + DeadlineLeft + e
      /\ Left' = RunLeft' + StopLeft' + SettlementLeft' + DeadlineLeft' + z
  BY <1>2, <1>3 DEF Left
<1> QED
  BY <1>6, <1>7 DEF Nearer

(* Entering the settlement takes neither of its clocks back.               *)
LEMMA EnterCounts ==
  ASSUME Inv,
         \/ EnterJoin
         \/ /\ cleanup' \in {cleanup, IF cleanup = "none" THEN "settling" ELSE cleanup}
            /\ deadline' \in {deadline, IF deadline = "unset" THEN "running" ELSE deadline}
  PROVE  SettlementLeft' <= SettlementLeft /\ DeadlineLeft' <= DeadlineLeft
<1>1. Counted /\ Counted'
  BY Counting, PTL
<1>2. cleanup \in {"none", "settling", "done"} /\ deadline \in {"unset", "running", "past"}
  BY DEF Inv, TypeOK
<1>3. cleanup' = cleanup \/ (cleanup = "none" /\ cleanup' = "settling")
  BY DEF EnterJoin
<1>4. deadline' = deadline \/ (deadline = "unset" /\ deadline' = "running")
  BY DEF EnterJoin
<1>5. SettlementLeft' <= SettlementLeft
  BY <1>1, <1>2, <1>3 DEF Counted
<1>6. DeadlineLeft' <= DeadlineLeft
  BY <1>1, <1>2, <1>4 DEF Counted
<1> QED
  BY <1>5, <1>6

LEMMA RunNearer == ASSUME Inv, Inv', RunStep PROVE Nearer
<1>1. Counted /\ Counted'
  BY Counting, PTL
<1>2. \/ run = "play" /\ run' \in {"join", "failing"}
      \/ run = "join" /\ run' \in {"final", "failing"}
      \/ run = "final" /\ run' \in {"sleep", "failing"}
      \/ run = "failing" /\ run' \in {"fatal", "leaving"}
      \/ run \in {"sleep", "fatal"} /\ run' = "leaving"
      \/ run = "leaving" /\ run' \in {"drain", "ended"}
      \/ run = "drain" /\ run' = "ended"
  BY DEF RunStep, EpisodeReturns, EpisodeFails, Truncate, Publish, SendFinals, RecordFailure,
     EnterFinally, Leave, Drained, Raise
<1>3. RunLeft' < RunLeft
  BY <1>1, <1>2 DEF Counted
<1>4. /\ UNCHANGED <<stop, stops, stopping>>
      /\ EnterJoin \/ UNCHANGED settling
  BY DEF RunStep, EpisodeReturns, EpisodeFails, Truncate, Publish, SendFinals, RecordFailure,
     EnterFinally, Leave, Drained, Raise, serving
<1>5. StopLeft' = StopLeft
  BY <1>4 DEF StopLeft
<1>6. SettlementLeft' <= SettlementLeft /\ DeadlineLeft' <= DeadlineLeft
  BY <1>4, EnterCounts DEF settling
<1>7. RunLeft' <= RunLeft /\ StopLeft' <= StopLeft
  <2>1. Sized /\ Sized'
    BY CountsNatural, PTL
  <2>2. RunLeft \in Nat /\ RunLeft' \in Nat /\ StopLeft \in Nat
    BY <2>1 DEF Sized
  <2> QED
    BY <1>3, <1>5, <2>2
<1> QED
  BY <1>3, <1>4, <1>6, <1>7, PartsCount

(* A cancellation moves _run on, or finds it where nothing is left to do.  *)
LEMMA CancelCounts == ASSUME Inv, RequestStop PROVE RunLeft' <= RunLeft
<1>1. Counted /\ Counted'
  BY Counting, PTL
<1>2. CASE run \in {"none", "ended"}
  <2>1. run' = run
    BY <1>2 DEF RequestStop, AfterCancel
  <2> QED
    BY <1>1, <1>2, <2>1 DEF Counted
<1>3. CASE run \in {"leaving", "drain"}
  <2>1. run' = "ended"
    BY <1>3 DEF RequestStop, AfterCancel
  <2> QED
    BY <1>1, <1>3, <2>1 DEF Counted
<1>4. CASE run \in {"play", "join", "final", "sleep", "failing", "fatal"}
  <2>1. run' \in {"leaving", "ended"}
    <3>1. CASE run = "play"
      BY <3>1 DEF RequestStop, AfterCancel
    <3>2. CASE run \in {"join", "final", "sleep", "failing", "fatal"}
      BY <3>2 DEF RequestStop, AfterCancel
    <3> QED
      BY <1>4, <3>1, <3>2
  <2> QED
    BY <1>1, <1>4, <2>1 DEF Counted
<1> QED
  BY <1>2, <1>3, <1>4 DEF Inv, TypeOK

LEMMA StopNearer == ASSUME Inv, Inv', Signal \/ StopStep PROVE Nearer
<1>1. Counted /\ Counted'
  BY Counting, PTL
<1>2. /\ RunLeft \in Nat /\ StopLeft \in Nat /\ SettlementLeft \in Nat /\ DeadlineLeft \in Nat
      /\ StopLeft' \in Nat
  <2>1. Sized /\ Sized'
    BY CountsNatural, PTL
  <2> QED
    BY <2>1 DEF Sized
<1>3. CASE Signal
  <2>1. RunLeft' <= RunLeft /\ ~stopping /\ stopping'
    BY <1>3, CancelCounts DEF Signal, RequestStop
  <2>2. StopLeft' = StopLeft
    BY <1>3 DEF Signal, StopLeft
  <2>3. SettlementLeft' <= SettlementLeft /\ DeadlineLeft' <= DeadlineLeft
    BY <1>3, EnterCounts DEF Signal
  <2> QED
    BY <1>2, <2>1, <2>2, <2>3, PartsCount
<1>4. CASE BeginStop
  <2>1. RunLeft' <= RunLeft /\ (stopping => stopping')
    <3>1. CASE stopping
      <4>1. run' = run /\ stopping' = stopping
        BY <1>4, <3>1 DEF BeginStop
      <4>2. RunLeft' = RunLeft
        BY <4>1 DEF RunLeft
      <4> QED
        BY <1>2, <4>1, <4>2
    <3>2. CASE ~stopping
      BY <1>4, <3>2, CancelCounts DEF BeginStop
    <3> QED
      BY <3>1, <3>2
  <2>2. StopLeft' < StopLeft
    BY <1>1, <1>4 DEF BeginStop, Counted
  <2>3. SettlementLeft' <= SettlementLeft /\ DeadlineLeft' <= DeadlineLeft
    BY <1>4, EnterCounts DEF BeginStop
  <2> QED
    BY <1>2, <2>1, <2>2, <2>3, PartsCount
<1>5. CASE StopJoins \/ (\E ok \in BOOLEAN : StopSettles(ok))
  <2>1. /\ UNCHANGED <<run, stopping, deadline, cleanup>>
        /\ \/ stop = "join" /\ stop' = "settle" /\ stops' = stops
           \/ stop = "settle" /\ stop' = "finished"
           \/ stop = "settle" /\ stops = 1 /\ stop' = "join" /\ stops' = 2
    BY <1>5 DEF StopJoins, StopSettles, settling
  <2>2. StopLeft' < StopLeft
    BY <1>1, <2>1 DEF Counted
  <2>3. RunLeft' = RunLeft /\ SettlementLeft' = SettlementLeft /\ DeadlineLeft' = DeadlineLeft
    BY <2>1 DEF RunLeft, SettlementLeft, DeadlineLeft
  <2> QED
    BY <1>2, <2>1, <2>2, <2>3, PartsCount
<1> QED
  BY <1>3, <1>4, <1>5 DEF StopStep

LEMMA SettlingNearer == ASSUME Inv, Inv', StartEpisode \/ Settle \/ DeadlinePasses PROVE Nearer
<1>1. Counted /\ Counted'
  BY Counting, PTL
<1>2. RunLeft \in Nat /\ StopLeft \in Nat /\ SettlementLeft \in Nat /\ DeadlineLeft \in Nat
  BY CountsNatural DEF Sized
<1>3. stop' = stop /\ stops' = stops /\ stopping' = stopping
  BY DEF StartEpisode, Settle, DeadlinePasses, serving
<1>4. StopLeft' = StopLeft
  BY <1>3 DEF StopLeft
<1>5. CASE StartEpisode
  <2>1. run = "none" /\ run' = "play" /\ cleanup' = cleanup /\ deadline' = deadline
    BY <1>5 DEF StartEpisode, started, settling
  <2>2. RunLeft' < RunLeft
    BY <1>1, <2>1 DEF Counted
  <2>3. SettlementLeft' = SettlementLeft /\ DeadlineLeft' = DeadlineLeft
    BY <2>1 DEF SettlementLeft, DeadlineLeft
  <2>4. RunLeft' <= RunLeft
    BY <1>1, <2>1 DEF Counted
  <2> QED
    BY <1>2, <1>3, <1>4, <2>2, <2>3, <2>4, PartsCount
<1>6. CASE Settle
  <2>1. cleanup = "settling" /\ cleanup' = "done" /\ run' = run /\ deadline' = deadline
    BY <1>6 DEF Settle
  <2>2. SettlementLeft = 1 /\ SettlementLeft' = 0
    BY <1>1, <2>1 DEF Counted
  <2>3. RunLeft' = RunLeft /\ DeadlineLeft' = DeadlineLeft
    BY <2>1 DEF RunLeft, DeadlineLeft
  <2> QED
    BY <1>2, <1>3, <1>4, <2>2, <2>3, PartsCount
<1>7. CASE DeadlinePasses
  <2>1. deadline = "running" /\ deadline' = "past" /\ run' = run /\ cleanup' = cleanup
    BY <1>7 DEF DeadlinePasses
  <2>2. DeadlineLeft = 1 /\ DeadlineLeft' = 0
    BY <1>1, <2>1 DEF Counted
  <2>3. RunLeft' = RunLeft /\ SettlementLeft' = SettlementLeft
    BY <2>1 DEF RunLeft, SettlementLeft
  <2> QED
    BY <1>2, <1>3, <1>4, <2>2, <2>3, PartsCount
<1> QED
  BY <1>5, <1>6, <1>7

(* Every step the server takes by itself, and every signal, brings it      *)
(* nearer to its end: however many connections come and go, it takes fewer *)
(* than twenty of them.                                                    *)
THEOREM NothingRepeats == Spec => ServerAdvances
<1> DEFINE own == <<seated, run, serving, deadline, cleanup, owned, joined, record>>
<1>1. Inv /\ Inv' /\ [Next]_vars => [Nearer]_own
  <2> SUFFICES ASSUME Inv, Inv', [Next]_vars PROVE Nearer \/ UNCHANGED own
    OBVIOUS
  <2>1. CASE ConnStep
    BY <2>1 DEF ConnStep, Connect, Replace, ReplaceFails, Disconnect, BreakReader, settling
  <2>2. CASE \E c \in Conns : Acknowledge(c)
    BY <2>2 DEF Acknowledge
  <2>3. CASE UNCHANGED vars
    BY <2>3 DEF vars, settling
  <2> QED
    BY <2>1, <2>2, <2>3, RunNearer, StopNearer, SettlingNearer DEF Next
<1> QED
  BY <1>1, Invariance, PTL DEF Spec, ServerAdvances
=============================================================================
