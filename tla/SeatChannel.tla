---------------------------- MODULE SeatChannel -----------------------------
(***************************************************************************)
(* The server's end of one player connection: WebSocketSeatChannel with    *)
(* QueueChannelMixin, the orchestrator's window on it (recv_reply), and    *)
(* settle_channels, which ends it.  Three tasks share the channel: the     *)
(* reader drains the socket, the episode asks and waits, and the owner     *)
(* stops, seals and joins, and writes the private record (Capture).        *)
(***************************************************************************)
EXTENDS Capture

VARIABLES connected,  \* SeatChannel.connected
          reader,     \* the _reader task: reading, left, broken or joined
          active,     \* active_rid
          waiting,    \* the rid recv_reply waits for, 0 when nobody waits
          answer,     \* what became of each window
          queue,      \* _queue
          journal,    \* progress
          ended,      \* the episode ran to its end before it was stopped
          phase,      \* how far settle_channels is
          told,       \* stop_player found the channel connected
          clock,      \* the stop deadline: unset, running or past
          stopped,    \* the stopped event
          settled     \* what settle_channels returned

window == <<active, waiting, answer, queue>>
owner == <<phase, ended, told, clock, settled>>
channel == <<connected, reader, window, journal, owner, stopped, capture>>

Outcomes == {"unasked", "asked", "reply", "default", "abandoned"}

ChannelTypeOK ==
  /\ connected \in BOOLEAN
  /\ reader \in {"reading", "left", "broken", "joined"}
  /\ active \in 0 .. Windows
  /\ waiting \in 0 .. Windows
  /\ answer \in [Rids -> Outcomes]
  /\ queue \in Seq(Rids)
  /\ journal \in [Attempts -> {"none"} \cup Evidence]
  /\ ended \in BOOLEAN
  /\ phase \in {"play", "stopping", "sealed", "done", "over"}
  /\ told \in BOOLEAN
  /\ clock \in {"unset", "running", "past"}
  /\ stopped \in BOOLEAN
  /\ settled \in {"no", "yes", "withheld"}

ChannelInit ==
  /\ connected = TRUE
  /\ reader = "reading"
  /\ active = 0
  /\ waiting = 0
  /\ answer = [r \in Rids |-> "unasked"]
  /\ queue = << >>
  /\ journal = [a \in Attempts |-> "none"]
  /\ ended = FALSE
  /\ phase = "play"
  /\ told = FALSE
  /\ clock = "unset"
  /\ stopped = FALSE
  /\ settled = "no"

stop_id_set == phase # "play"
sealed == phase \in {"sealed", "done", "over"}

-----------------------------------------------------------------------------
(* The reader: one frame of the socket through consume_progress.           *)

(* Evidence may complete what is recorded, never take any of it back.      *)
Extends(before, attempt) ==
  \/ before \in {"none", "started", attempt}
  \/ before = "open" /\ attempt \in {"whole", "torn", "unjoined"}

(* Mutants: the journal, or the deadline, is not consulted.                *)
StoppedRejected_Trusting(m) ==
  ~stop_id_set \/ ~m.ours \/ clock = "past" \/ stopped

StoppedRejected_Late(m) ==
  \/ ~stop_id_set \/ ~m.ours \/ stopped
  \/ \E a \in Attempts : journal[a] \in Unsettled

StoppedRejected(m) ==
  \/ ~stop_id_set
  \/ ~m.ours
  \/ clock = "past"
  \/ stopped
  \/ \E a \in Attempts : journal[a] \in Unsettled

(* Mutant: an attempt in progress is not completed outside its window.     *)
EvidenceRejected_Active(m) ==
  m.id[1] # active \/ ~Extends(journal[m.id], m.attempt)

EvidenceRejected(m) ==
  \/ m.id[1] # active /\ journal[m.id] = "none"
  \/ ~Extends(journal[m.id], m.attempt)

(* consume_progress raises ValueError, which _read_loop does not catch.    *)
Rejected(m) ==
  \/ m.type = "stopped" /\ StoppedRejected(m)
  \/ m.type # "stopped" /\ stopped
  \/ m.type = "private_attempt" /\ EvidenceRejected(m)

Receive(m) ==
  /\ reader = "reading"
  /\ up' = Tail(up)
  /\ UNCHANGED <<down, link>>

IgnoreFrame(m) ==
  /\ Receive(m)
  /\ sealed
  /\ UNCHANGED channel

(* The exception ends the reader task; connected stays as it was.          *)
RejectFrame(m) ==
  /\ Receive(m)
  /\ ~sealed
  /\ Rejected(m)
  /\ reader' = "broken"
  /\ UNCHANGED <<connected, window, journal, owner, stopped, capture>>

AcceptStopped(m) ==
  /\ Receive(m)
  /\ ~sealed
  /\ m.type = "stopped" /\ ~Rejected(m)
  /\ stopped' = TRUE
  /\ UNCHANGED <<connected, reader, window, journal, owner, capture>>

AcceptEvidence(m) ==
  /\ Receive(m)
  /\ ~sealed
  /\ m.type = "private_attempt" /\ ~Rejected(m)
  /\ receive(m)
  /\ journal' = [journal EXCEPT ![m.id] = m.attempt]
  /\ UNCHANGED <<connected, reader, window, owner, stopped>>

(* Once stop_id is set a reply is consumed without reaching the queue.     *)
AcceptReply(m) ==
  /\ Receive(m)
  /\ ~sealed
  /\ m.type = "reply" /\ ~Rejected(m)
  /\ queue' = IF stop_id_set THEN queue ELSE Append(queue, m.rid)
  /\ UNCHANGED <<connected, reader, active, waiting, answer, journal, owner,
                 stopped, capture>>

(* receive_text raises WebSocketDisconnect after the last frame.           *)
LoseConnection ==
  /\ reader = "reading"
  /\ link = "cut" /\ up = << >>
  /\ reader' = "left"
  /\ connected' = FALSE
  /\ UNCHANGED <<wire, window, journal, owner, stopped, capture>>

ReaderStep ==
  \/ /\ up # << >>
     /\ LET m == Head(up) IN
          \/ IgnoreFrame(m)
          \/ RejectFrame(m)
          \/ AcceptStopped(m)
          \/ AcceptEvidence(m)
          \/ AcceptReply(m)
  \/ LoseConnection

-----------------------------------------------------------------------------
(* The orchestrator: _send, register_window, recv_reply.                   *)

(* WebSocketSeatChannel.send: nothing when disconnected; sending into a    *)
(* connection that is gone may be what reveals it.                         *)
send(m) ==
  /\ down' = IF connected THEN Put(down, m) ELSE down
  /\ connected' \in IF link = "cut" THEN {FALSE, connected} ELSE {connected}
  /\ UNCHANGED <<up, link>>

Idle == waiting = 0 /\ active \in closed \cup {0}

Ask(r) ==
  /\ phase = "play"
  /\ Idle
  /\ r = active + 1
  /\ active' = r
  /\ waiting' = r
  /\ answer' = [answer EXCEPT ![r] = "asked"]
  /\ delivered
  /\ send([type |-> "ask", rid |-> r])
  /\ UNCHANGED <<reader, queue, journal, owner, stopped>>

(* Mutant: the head of the queue is taken for the answer.                  *)
TakeReply_Any ==
  /\ waiting # 0
  /\ queue # << >>
  /\ queue' = Tail(queue)
  /\ answer' = [answer EXCEPT ![waiting] = "reply"]
  /\ waiting' = 0
  /\ UNCHANGED <<wire, connected, reader, active, journal, owner, stopped, capture>>

(* A queued reply answers its own window; any other is dropped.            *)
TakeReply ==
  /\ waiting # 0
  /\ queue # << >>
  /\ queue' = Tail(queue)
  /\ IF Head(queue) = waiting
       THEN /\ answer' = [answer EXCEPT ![waiting] = "reply"]
            /\ waiting' = 0
       ELSE UNCHANGED <<answer, waiting>>
  /\ UNCHANGED <<wire, connected, reader, active, journal, owner, stopped, capture>>

(* Mutant: a connected player is waited for.                               *)
WindowTimeout_Patient ==
  /\ waiting # 0
  /\ ~connected
  /\ answer' = [answer EXCEPT ![waiting] = "default"]
  /\ waiting' = 0
  /\ UNCHANGED <<wire, connected, reader, active, queue, journal, owner,
                 stopped, capture>>

(* The record's deadline, set before the send, passes before this one.     *)
WindowTimeout ==
  /\ waiting # 0
  /\ overdue
  /\ answer' = [answer EXCEPT ![waiting] = "default"]
  /\ waiting' = 0
  /\ UNCHANGED <<wire, connected, reader, active, queue, journal, owner,
                 stopped, capture>>

(* The engine task acts on the answer, or on the default.                  *)
Consume ==
  /\ phase = "play"
  /\ waiting = 0 /\ ~Idle
  /\ consumed(active)
  /\ UNCHANGED <<wire, connected, reader, window, journal, owner, stopped>>

Expire ==
  /\ phase = "play"
  /\ active # 0
  /\ WindowExpires(active)
  /\ UNCHANGED <<wire, connected, reader, window, journal, owner, stopped>>

-----------------------------------------------------------------------------
(* The owner: stop_player, seal, close_reader in settle_channels, and the  *)
(* record and final of GameServer._run.                                    *)

(* The episode is over, or was just cancelled and drops its open window.   *)
StopPlayer(over) ==
  /\ phase = "play"
  /\ over => Idle
  /\ ended' = over
  /\ phase' = "stopping"
  /\ clock' = "running"
  /\ told' = connected
  /\ send([type |-> "stop"])
  /\ answer' = [r \in Rids |-> IF r = waiting THEN "abandoned" ELSE answer[r]]
  /\ waiting' = 0
  /\ UNCHANGED <<reader, active, queue, journal, stopped, settled, capture>>

DeadlinePasses ==
  /\ clock = "running"
  /\ phase \in {"stopping", "sealed"}
  /\ clock' = "past"
  /\ UNCHANGED <<wire, connected, reader, window, journal, phase, ended, told,
                 stopped, settled, capture>>

(* Mutant: the acknowledgement is awaited without a deadline.              *)
Seal_Unbounded ==
  /\ phase = "stopping"
  /\ stopped \/ ~told
  /\ phase' = "sealed"
  /\ UNCHANGED <<wire, connected, reader, window, journal, ended, told, clock,
                 stopped, settled, capture>>

Seal ==
  /\ phase = "stopping"
  /\ stopped \/ ~told \/ clock = "past"
  /\ phase' = "sealed"
  /\ UNCHANGED <<wire, connected, reader, window, journal, ended, told, clock,
                 stopped, settled, capture>>

(* close_reader cancels the reader and re-raises what had broken it; the   *)
(* record is sealed with what the settlement came to.                      *)
JoinReader ==
  /\ phase = "sealed"
  /\ phase' = "done"
  /\ reader' = IF reader = "reading" THEN "joined" ELSE reader
  /\ settled' = IF stopped /\ reader # "broken" /\ clock = "running"
                  THEN "yes" ELSE "withheld"
  /\ \/ ended /\ settled' = "yes" /\ finish("completed")
     \/ ~ended /\ settled' = "yes" /\ finish("failed")
     \/ ~ (ended /\ settled' = "yes") /\ finish("truncated")
  /\ UNCHANGED <<wire, connected, window, journal, ended, told, clock, stopped>>

SendFinal ==
  /\ phase = "done" /\ record = "completed"
  /\ phase' = "over"
  /\ send([type |-> "final"])
  /\ UNCHANGED <<reader, window, journal, ended, told, clock, stopped, settled, capture>>

(* The server process exits and closes its sockets.                        *)
HangUp ==
  /\ link = "up"
  /\ phase = "over" \/ (phase = "done" /\ record # "completed")
  /\ link' = "cut"
  /\ UNCHANGED <<up, down, channel>>

OwnerStep == Seal \/ JoinReader \/ SendFinal \/ HangUp

ServerStep ==
  \/ ReaderStep
  \/ \E r \in Rids : Ask(r)
  \/ TakeReply \/ WindowTimeout \/ Consume \/ Expire
  \/ \E over \in BOOLEAN : StopPlayer(over)
  \/ DeadlinePasses \/ OwnerStep
=============================================================================
