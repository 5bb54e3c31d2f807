----------------------------- MODULE PlayerLoop -----------------------------
(***************************************************************************)
(* The player's end: player_loop of gnomic/lifecycle.py around the         *)
(* callbacks of a policy and the native calls a callback may make.         *)
(* Requests queue behind the running callback; a stop cancels it, and is   *)
(* acknowledged when it and its children have ended.                       *)
(***************************************************************************)
EXTENDS SeatWire

CONSTANT Policies  \* the bundled policies the seat may run

ASSUME PoliciesAssumption == Policies \subseteq {"scripted", "haiku", "native", "opus", "foreign"}

VARIABLES policy,   \* the policy of this player
          loop,     \* running, stopping, acked, then final, stopped or failed
          backlog,  \* requests behind the running callback
          call,     \* rid of the running callback, 0 for none
          truth,    \* what really became of each native call
          replied   \* history: rids a reply was sent for

player == <<policy, loop, backlog, call, truth, replied>>

Exited == {"final", "stopped", "failed"}
InFlight == {"started", "open"}

PlayerTypeOK ==
  /\ policy \in Policies
  /\ loop \in {"running", "stopping", "acked"} \cup Exited
  /\ backlog \in Seq(Rids)
  /\ call \in 0 .. Windows
  /\ truth \in [Attempts -> {"none"} \cup Evidence]
  /\ replied \subseteq Rids

PlayerInit ==
  /\ policy \in Policies
  /\ loop = "running"
  /\ backlog = << >>
  /\ call = 0
  /\ truth = [a \in Attempts |-> "none"]
  /\ replied = {}

(* The loop starts the oldest waiting request when no callback runs.       *)
Dispatch(running, waitlist) ==
  IF running = 0 /\ waitlist # << >>
    THEN call' = Head(waitlist) /\ backlog' = Tail(waitlist)
    ELSE call' = running /\ backlog' = waitlist

TakeRequest(m) ==
  /\ loop = "running"
  /\ m.type = "ask"
  /\ down' = Tail(down)
  /\ Dispatch(call, Append(backlog, m.rid))
  /\ UNCHANGED <<up, link, policy, loop, truth, replied>>

TakeStop(m) ==
  /\ loop = "running"
  /\ m.type = "stop"
  /\ down' = Tail(down)
  /\ loop' = "stopping"
  /\ backlog' = << >>
  /\ UNCHANGED <<up, link, policy, call, truth, replied>>

(* The final callback runs and the process leaves.                         *)
TakeFinal(m) ==
  /\ loop = "acked"
  /\ m.type = "final"
  /\ down' = Tail(down)
  /\ loop' = "final"
  /\ link' = "cut"
  /\ UNCHANGED <<up, policy, backlog, call, truth, replied>>

-----------------------------------------------------------------------------
(* The callback and its native calls.  A scripted policy (Baseline, Scribe) *)
(* makes none, Haiku and Native make one, Opus asks once more when the     *)
(* first response cannot be used.                                          *)

MostCalls == [scripted |-> 0, haiku |-> 1, native |-> 1, opus |-> 2]

Begun == {n \in 1 .. Calls : call # 0 /\ truth[<<call, n>>] # "none"}
latest == <<call, Cardinality(Begun)>>
fate == IF Begun = {} THEN "none" ELSE truth[latest]
busy == fate \in InFlight

(* Opus takes every exception for a response it cannot use, and falls      *)
(* back; the others let OwnershipUnsettled through.                        *)
swallows == policy = "opus"

(* Native answers with what the model said and with nothing else.          *)
usable == policy = "native" => fate = "whole"

Publish(a, attempt) ==
  /\ Room
  /\ truth' = [truth EXCEPT ![a] = attempt]
  /\ up' = Put(up, [type |-> "private_attempt", id |-> a, attempt |-> attempt])

BeginCall ==
  /\ loop = "running"
  /\ call # 0
  /\ fate \in {"none", "whole", "torn"}
  /\ Cardinality(Begun) < MostCalls[policy] /\ Cardinality(Begun) < Calls
  /\ Publish(<<call, Cardinality(Begun) + 1>>, "started")
  /\ UNCHANGED <<down, link, policy, loop, backlog, call, replied>>

ReceiveResponse ==
  /\ loop = "running"
  /\ fate = "started"
  /\ Publish(latest, "open")
  /\ UNCHANGED <<down, link, policy, loop, backlog, call, replied>>

(* The finally of complete_native: the outcome is published whether the    *)
(* call completed, failed, timed out or was cancelled by a stop, perhaps   *)
(* before the response just received could be told of.                     *)
FinishCall ==
  /\ loop \in {"running", "stopping"}
  /\ \/ fate = "started" /\ \E e \in {"ended", "torn"} : Publish(latest, e)
     \/ fate = "open" /\ \E e \in {"whole", "torn"} : Publish(latest, e)
  /\ UNCHANGED <<down, link, policy, loop, backlog, call, replied>>

(* The transport would not close: OwnershipUnsettled.  It ends a running   *)
(* loop unless the policy swallows it; during a stop settle drops it like  *)
(* any other failure.                                                      *)
AbandonCall ==
  /\ loop \in {"running", "stopping"}
  /\ \/ fate = "started" /\ Publish(latest, "ended")
     \/ fate = "open" /\ Publish(latest, "unjoined")
  /\ IF loop = "running" /\ ~swallows
       THEN loop' = "failed" /\ link' = "cut"
       ELSE UNCHANGED <<loop, link>>
  /\ UNCHANGED <<down, policy, backlog, call, replied>>

(* Opus, cancelled over a transport that would not close, answers still.   *)
Reply ==
  /\ call # 0 /\ ~busy
  /\ usable
  /\ loop = "stopping" => swallows /\ fate \in {"ended", "unjoined"}
  /\ loop \in {"running", "stopping"}
  /\ Room
  /\ up' = Put(up, [type |-> "reply", rid |-> call])
  /\ replied' = replied \cup {call}
  /\ Dispatch(0, backlog)
  /\ UNCHANGED <<down, link, policy, loop, truth>>

(* The callback timed out, raised or returned nothing usable: no reply.    *)
GiveUp ==
  /\ loop = "running"
  /\ call # 0 /\ ~busy
  /\ policy \in {"haiku", "native", "opus"}
  /\ Dispatch(0, backlog)
  /\ UNCHANGED <<wire, policy, loop, truth, replied>>

-----------------------------------------------------------------------------
(* The stop handshake and the ways out.                                    *)

(* Mutant: the callback is cancelled but not awaited.                      *)
Acknowledge_Early ==
  /\ loop = "stopping"
  /\ link = "up" /\ Room
  /\ up' = Append(up, [type |-> "stopped", ours |-> TRUE])
  /\ loop' = "acked"
  /\ call' = 0
  /\ UNCHANGED <<down, link, policy, backlog, truth, replied>>

Acknowledge ==
  /\ loop = "stopping"
  /\ ~busy
  /\ link = "up" /\ Room
  /\ up' = Append(up, [type |-> "stopped", ours |-> TRUE])
  /\ loop' = "acked"
  /\ call' = 0
  /\ UNCHANGED <<down, link, policy, backlog, truth, replied>>

(* Mutant: a failed send of the acknowledgement is not a failure.          *)
Withhold_CallbackOnly ==
  /\ loop = "stopping"
  /\ call # 0
  /\ loop' = "failed"
  /\ link' = "cut"
  /\ UNCHANGED <<up, down, policy, backlog, call, truth, replied>>

(* The callback outlives the deadline, or the frame cannot be sent.        *)
Withhold ==
  /\ loop = "stopping"
  /\ call # 0 \/ link = "cut" \/ ~Room
  /\ loop' = "failed"
  /\ link' = "cut"
  /\ UNCHANGED <<up, down, policy, backlog, call, truth, replied>>

(* After the acknowledgement the player waits only so long for final.      *)
StopWaiting ==
  /\ loop = "acked"
  /\ loop' = "stopped"
  /\ link' = "cut"
  /\ UNCHANGED <<up, down, policy, backlog, call, truth, replied>>

SeeClose ==
  /\ loop \in {"running", "acked"}
  /\ link = "cut" /\ down = << >>
  /\ loop' = IF loop = "acked" THEN "stopped" ELSE "failed"
  /\ UNCHANGED <<wire, policy, backlog, call, truth, replied>>

PlayerStep ==
  /\ policy # "foreign"
  /\ \/ /\ down # << >>
        /\ LET m == Head(down) IN TakeRequest(m) \/ TakeStop(m) \/ TakeFinal(m)
     \/ BeginCall \/ ReceiveResponse \/ FinishCall \/ AbandonCall
     \/ Reply \/ GiveUp
     \/ Acknowledge \/ Withhold \/ StopWaiting \/ SeeClose
=============================================================================
