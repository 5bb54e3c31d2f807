---------------------------- MODULE MCGameServer ----------------------------
(* Two seats and three connections: the first seat can reconnect.          *)
EXTENDS GameServer, TLC

CONSTANTS s1, s2, c1, c2, c3

TwoSeats == {s1, s2}
ThreeConns == {c1, c2, c3}
Slots == c1 :> s1 @@ c2 :> s1 @@ c3 :> s2
=============================================================================
