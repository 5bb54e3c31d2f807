------------------------------ MODULE SeatWire ------------------------------
(***************************************************************************)
(* The WebSocket between one seat's channel in the game server and the     *)
(* player process: two first-in first-out streams of frames that can be    *)
(* cut, after which a prefix of what was in flight still arrives.  A frame *)
(* carries what the two ends tell apart; texts and identities are left     *)
(* out.  A policy may make several native calls in one decision window; an *)
(* attempt is named by its window and its number there.                    *)
(***************************************************************************)
EXTENDS Naturals, SequencesExt, FiniteSetsExt

CONSTANTS Windows,  \* decision windows the episode may open on this seat
          Calls,    \* native calls the evidence of one window may tell of
          Depth     \* frames towards the server before a send waits

ASSUME WireAssumption == Windows \in Nat /\ Calls \in Nat /\ Depth \in Nat

Rids == 1 .. Windows
Attempts == Rids \X (1 .. Calls)

(* What an Attempt says of its native call: started (no response yet),     *)
(* open (response_reader_joined is False and latency_ms is None), and the  *)
(* ends, which set latency_ms: ended (no response was received), whole and *)
(* torn (the reader joined, after a complete or a partial body), unjoined  *)
(* (the reader did not join).                                              *)
Finished == {"ended", "whole", "torn", "unjoined"}
Evidence == {"started", "open"} \cup Finished
Unsettled == {"open", "unjoined"}

Requests == [type : {"ask"}, rid : Rids]
ServerFrames == Requests \cup [type : {"stop", "final"}]
Replies == [type : {"reply"}, rid : Rids]
Publications == [type : {"private_attempt"}, id : Attempts, attempt : Evidence]
Acks == [type : {"stopped"}, ours : BOOLEAN]  \* ours: stop_id matches
PlayerFrames == Replies \cup Publications \cup Acks

VARIABLES up,    \* frames on their way to the server
          down,  \* frames on their way to the player
          link   \* "up" or "cut"

wire == <<up, down, link>>

WireTypeOK ==
  /\ up \in Seq(PlayerFrames)
  /\ down \in Seq(ServerFrames)
  /\ link \in {"up", "cut"}

WireInit == up = << >> /\ down = << >> /\ link = "up"

(* Frames handed to a cut connection are lost.                             *)
Put(stream, m) == IF link = "up" THEN Append(stream, m) ELSE stream

(* A send of the player's waits while the connection drains too slowly.    *)
Room == link = "cut" \/ Len(up) < Depth

(* The connection breaks: each end may still read a prefix.                *)
Cut ==
  /\ link = "up"
  /\ link' = "cut"
  /\ up' \in Prefixes(up)
  /\ down' \in Prefixes(down)
=============================================================================
