------------------------------ MODULE SeatLink ------------------------------
(***************************************************************************)
(* One seat's connection, both ends: SeatChannel and PlayerLoop on a       *)
(* SeatWire.  A player built on the SDK sends what PlayerLoop sends; the   *)
(* protocol is open to other players too, whose frames are arbitrary: up   *)
(* to Strays of them are injected, in any order.                           *)
(***************************************************************************)
EXTENDS SeatChannel, PlayerLoop

CONSTANT Strays  \* frames a player may send beyond the SDK's

ASSUME StraysAssumption == Strays \in Nat

VARIABLE strays  \* stray frames sent so far

vars == <<wire, channel, player, strays>>

Init ==
  /\ WireInit
  /\ ChannelInit
  /\ CaptureInit
  /\ PlayerInit
  /\ strays = 0

(* The stop_id is unknown until the stop has been sent.                    *)
Stray(m) ==
  /\ policy = "foreign"
  /\ strays < Strays
  /\ link = "up"
  /\ (m.type = "stopped" /\ m.ours) => stop_id_set
  /\ strays' = strays + 1
  /\ up' = Append(up, m)
  /\ replied' = IF m.type = "reply" THEN replied \cup {m.rid} ELSE replied
  /\ UNCHANGED <<down, link, channel, policy, loop, backlog, call, truth>>

Next ==
  \/ ServerStep /\ UNCHANGED <<player, strays>>
  \/ PlayerStep /\ UNCHANGED <<channel, strays>>
  \/ \E m \in PlayerFrames : Stray(m)
  \/ Cut /\ UNCHANGED <<channel, player, strays>>

Spec == Init /\ [][Next]_vars

(* The server's tasks are scheduled by one event loop and its timers fire; *)
(* a player loop past a stop runs against its own deadlines.  When the     *)
(* episode stops, whether the link breaks and what a running callback does *)
(* is not forced.                                                          *)
ServerFairness ==
  /\ WF_vars(ReaderStep /\ UNCHANGED <<player, strays>>)
  /\ WF_vars((TakeReply \/ Expire \/ WindowTimeout \/ Consume) /\ UNCHANGED <<player, strays>>)
  /\ WF_vars(DeadlinePasses /\ UNCHANGED <<player, strays>>)
  /\ WF_vars(OwnerStep /\ UNCHANGED <<player, strays>>)

PlayerFairness ==
  /\ WF_vars(policy # "foreign" /\ (Acknowledge \/ Withhold) /\ UNCHANGED <<channel, strays>>)
  /\ WF_vars(policy # "foreign" /\ (StopWaiting \/ SeeClose) /\ UNCHANGED <<channel, strays>>)

FairSpec == Spec /\ ServerFairness /\ PlayerFairness

-----------------------------------------------------------------------------
(* Every variable stays in its type.                                       *)
TypeOK ==
  /\ WireTypeOK
  /\ ChannelTypeOK
  /\ CaptureTypeOK
  /\ PlayerTypeOK
  /\ strays \in 0 .. Strays

(* No acknowledgement stands over a native reader the server has seen open *)
(* or unjoined, whatever the player sends and in whatever order            *)
(* (channel.py:114-121, 124-125).                                          *)
AckMeansJoined ==
  stopped => \A a \in Attempts : journal[a] \notin Unsettled

(* The frames of an SDK player break its connection in three cases only: a *)
(* call began after its window had been superseded, the acknowledgement    *)
(* came past the deadline, or it came over a transport that would not      *)
(* close.  Evidence repeated and completed while later windows open, and   *)
(* replies nobody waits for, never do (channel.py:101-183).                *)
BreaksLate ==
  policy # "foreign" /\ reader = "broken" =>
    \/ clock = "past"
    \/ \E a \in Attempts : journal[a] = "unjoined"
    \/ \E a \in Attempts : a[1] < active /\ journal[a] = "none" /\ truth[a] # "none"

(* A window answered with a reply was answered by this window's own reply, *)
(* never by one left over from an earlier window or a closed one           *)
(* (channel.py:203-220).                                                   *)
AnswersAreOwn == \A r \in Rids : answer[r] = "reply" => r \in replied

(* What became of a window is decided once: no late reply, stop or         *)
(* disconnection changes an outcome the turn has already used.             *)
Decides ==
  \A r \in Rids :
    answer[r] \notin {"unasked", "asked"} => answer'[r] = answer[r]
OutcomesStand == [][Decides]_vars

(* When settle_channels returns True for an SDK player, the server holds   *)
(* the complete evidence of every call the player made, every call has     *)
(* ended with its reader joined, and the player has no work left: the      *)
(* premise on which _run publishes results and a "completed" record.       *)
SettledIsWhole ==
  settled = "yes" /\ policy # "foreign" =>
    /\ journal = truth
    /\ \A a \in Attempts : truth[a] \in {"none", "ended", "whole", "torn"}
    /\ call = 0 /\ backlog = << >>

(* The record and the channel keep two journals of the same frames under   *)
(* two sets of rules (training.py:107-145, channel.py:128-183).  They      *)
(* differ only where the record turned a whole attempt away, and then it   *)
(* says so.                                                                *)
RecordFollowsJournal ==
  \A a \in Attempts :
    kept[a] # journal[a] => kept[a] = "none" /\ "out-of-window-attempt" \in issues

(* A completed record without an ingress issue is exact: it holds every    *)
(* native call an SDK player really made, each ended with its whole body   *)
(* read or without a response, and the player is idle.  This is what a     *)
(* corpus built from "completed" episodes takes for granted                *)
(* (training.py:183-218, app.py:240-248).                                  *)
CompletedIsExact ==
  policy # "foreign" /\ record = "completed" /\ issues = {} =>
    /\ kept = truth
    /\ \A a \in Attempts : truth[a] \in {"none", "ended", "whole"}
    /\ closed = 1 .. active /\ call = 0

(* A stop is always resolved one way or the other, whatever the player and *)
(* the link do (channel.py:252-273, one absolute deadline).                *)
StopResolves == phase = "stopping" ~> settled # "no"

(* An opened window always closes: a silent or lost player cannot hold the *)
(* turn (channel.py:203-213).                                              *)
WindowsClose == \A r \in Rids : answer[r] = "asked" ~> answer[r] # "asked"

(* A player that took the stop leaves, with or without a final             *)
(* (lifecycle.py:99-120, 139-144).                                         *)
StoppedPlayerLeaves == loop \in {"stopping", "acked"} ~> loop \in Exited

(* The connection ends as ConnectionEnd has it: it counts as settled only  *)
(* after an acknowledgement of this stop, read before the deadline by a    *)
(* reader that no frame had broken by the time it was joined               *)
(* (channel.py:101-126, 252-273, ws_channel.py:63-69).                     *)
Reader ==
  CASE reader \in {"reading", "joined"} -> "reading"
    [] reader = "left" -> "lost"
    [] reader = "broken" -> "broken"
Stage ==
  CASE phase = "play" -> "open"
    [] phase \in {"stopping", "sealed"} -> "stopping"
    [] phase \in {"done", "over"} -> IF settled = "yes" THEN "settled" ELSE "withheld"
Ending == INSTANCE ConnectionEnd WITH reader <- Reader, stage <- Stage, acked <- stopped
EndsAsPromised == Ending!Spec

(* docs/player_protocol.md:4-5: "Late, malformed, or missing actions       *)
(* receive deterministic defaults."  Lateness costs an SDK player its late *)
(* window only: while the game is on, the server reads its connection.      *)
LateIsOnlyDefaulted == phase = "play" => reader # "broken"
=============================================================================
