-------------------------- MODULE SpectatorsProofs --------------------------
(***************************************************************************)
(* Proofs about Spectators, for any number of viewers and of events.  A    *)
(* viewer's events come from two loops that know nothing of each other;    *)
(* Covered says that at any moment what it was sent, what it has still to  *)
(* be replayed and the event it has still to be visited for make up the    *)
(* log, but for events whose broadcast was cut short; Listed says that a   *)
(* viewer still there is never taken from the set.                         *)
(***************************************************************************)
EXTENDS Spectators, FiniteSetTheorems, SequenceTheorems, TLAPS

Pending(v) == IF sending /\ v \in todo THEN {logged} ELSE {}

Listed ==
  \A v \in Viewers \ left :
    place[v] \in {"hello", "replay", "live"} => v \in spectators

Covered ==
  \A v \in Viewers \ left :
    place[v] \in {"replay", "live"} =>
      1 .. logged \subseteq
        ToSet(got[v]) \cup ToSet(behind[v]) \cup Pending(v) \cup interrupted

Shape ==
  /\ sending => logged > 0
  /\ run = "play" => logged <= Events
  /\ run = "play" /\ fatal => ~sending
  /\ \A v \in Viewers : place[v] = "live" => behind[v] = << >>

Inv == TypeOK /\ Shape /\ Listed /\ Covered

-----------------------------------------------------------------------------
(* Helpers.                                                                *)

LEMMA CountTo ==
  ASSUME NEW n \in 0 .. Events + 1
  PROVE  /\ [i \in 1 .. n |-> i] \in Seq(1 .. Events + 1)
         /\ ToSet([i \in 1 .. n |-> i]) = 1 .. n
<1>1. [i \in 1 .. n |-> i] \in Seq(1 .. Events + 1)
  BY EventsAssumption
<1>2. ToSet([i \in 1 .. n |-> i]) = 1 .. n
  BY DEF ToSet
<1> QED
  BY <1>1, <1>2

LEMMA SentTo ==
  ASSUME NEW S, NEW q \in Seq(S), NEW e \in S
  PROVE  Append(q, e) \in Seq(S) /\ ToSet(Append(q, e)) = ToSet(q) \cup {e}
<1>1. /\ Append(q, e) \in Seq(S)
      /\ Len(Append(q, e)) = Len(q) + 1
      /\ \A i \in 1 .. Len(q) : Append(q, e)[i] = q[i]
      /\ Append(q, e)[Len(q) + 1] = e
  BY AppendProperties
<1>2. /\ DOMAIN q = 1 .. Len(q) /\ Len(q) \in Nat
      /\ DOMAIN Append(q, e) = 1 .. Len(q) + 1
  BY <1>1
<1>3. \A i \in 1 .. Len(q) + 1 : Append(q, e)[i] \in ToSet(q) \cup {e}
  BY <1>1, <1>2 DEF ToSet
<1>4. \A x \in ToSet(q) : \E i \in 1 .. Len(q) + 1 : Append(q, e)[i] = x
  BY <1>1, <1>2 DEF ToSet
<1>5. Len(q) + 1 \in 1 .. Len(q) + 1
  BY <1>2
<1> QED
  BY <1>1, <1>2, <1>3, <1>4, <1>5 DEF ToSet

LEMMA Replayed ==
  ASSUME NEW S, NEW q \in Seq(S), q # << >>
  PROVE  /\ Head(q) \in S /\ Tail(q) \in Seq(S)
         /\ ToSet(q) = {Head(q)} \cup ToSet(Tail(q))
<1>1. /\ Tail(q) \in Seq(S) /\ Head(q) = q[1]
      /\ Len(q) \in Nat /\ Len(q) > 0 /\ Len(Tail(q)) = Len(q) - 1
      /\ \A i \in 1 .. Len(Tail(q)) : Tail(q)[i] = q[i + 1]
      /\ DOMAIN q = 1 .. Len(q) /\ DOMAIN Tail(q) = 1 .. Len(q) - 1
  BY HeadTailProperties, EmptySeq, SMT
<1>2. \A i \in 1 .. Len(q) : q[i] \in {Head(q)} \cup ToSet(Tail(q))
  <2> SUFFICES ASSUME NEW i \in 1 .. Len(q), i # 1 PROVE q[i] \in ToSet(Tail(q))
    BY <1>1
  <2>1. i - 1 \in 1 .. Len(q) - 1 /\ Tail(q)[i - 1] = q[i]
    BY <1>1
  <2> QED
    BY <2>1, <1>1 DEF ToSet
<1>3. \A i \in 1 .. Len(q) - 1 : i + 1 \in 1 .. Len(q) /\ Tail(q)[i] = q[i + 1]
  BY <1>1
<1>4. 1 \in 1 .. Len(q) /\ Head(q) \in S
  BY <1>1
<1> QED
  BY <1>1, <1>2, <1>3, <1>4 DEF ToSet

LEMMA SizeType == spectators \subseteq Viewers => Cardinality(spectators) \in 0 .. Cardinality(Viewers)
BY ViewersAssumption, FS_Subset, FS_CardinalityType, SMT

-----------------------------------------------------------------------------
LEMMA InvInit == Init => Inv
<1> SUFFICES ASSUME Init PROVE Inv
  OBVIOUS
<1>1. << >> \in Seq(1 .. Events + 1)
  OBVIOUS
<1>2. 0 \in 0 .. Cardinality(Viewers) /\ 0 \in 0 .. Events + 1
  BY ViewersAssumption, EventsAssumption, FS_CardinalityType
<1>3. TypeOK
  BY <1>1, <1>2 DEF Init, TypeOK
<1> QED
  BY <1>3, EventsAssumption DEF Init, Inv, Shape, Listed, Covered

(* The event of a broadcast cut short is the one its viewers were pending  *)
(* for.                                                                    *)
LEMMA AbandonStep == ASSUME Inv, IterationRaises \/ EpisodeFails \/ SkipDrain PROVE Inv'
<1>1. /\ Abandon
      /\ \/ fatal' = TRUE /\ run' = run
         \/ fatal' = fatal /\ run' = "stopped"
  BY DEF IterationRaises, EpisodeFails, SkipDrain
<1>2. /\ sending' = FALSE /\ todo' = {} /\ dead' = {} /\ size' = 0
      /\ interrupted' = IF sending THEN interrupted \cup {logged} ELSE interrupted
      /\ UNCHANGED <<logged, spectators, place, left, behind, got>>
  BY <1>1 DEF Abandon, viewing
<1>3. 0 \in 0 .. Cardinality(Viewers)
  BY ViewersAssumption, FS_CardinalityType
<1>4. sending => logged \in 1 .. Events + 1
  BY EventsAssumption DEF Inv, TypeOK, Shape
<1>5. TypeOK'
  BY <1>1, <1>2, <1>3, <1>4 DEF Inv, TypeOK
<1>6. Shape'
  <2>1. run' = "play" => run = "play" /\ fatal'
    BY <1>1
  <2>2. run = "play" => logged <= Events
    BY DEF Inv, Shape
  <2> QED
    BY <1>2, <2>1, <2>2 DEF Inv, Shape
<1>7. Listed'
  BY <1>2 DEF Inv, Listed
<1>8. Covered'
  <2>1. \A v \in Viewers : Pending(v) \cup interrupted \subseteq interrupted'
    BY <1>2 DEF Pending
  <2> QED
    BY <1>2, <2>1 DEF Inv, Covered, Pending
<1> QED
  BY <1>5, <1>6, <1>7, <1>8 DEF Inv

(* The steps that send nothing.                                            *)
LEMMA QuietSteps ==
  ASSUME Inv,
         \/ \E v \in Viewers : Join(v) \/ GoLive(v) \/ Close(v) \/ Leave(v) \/ ReplayRaises(v)
         \/ IterationRaises \/ EpisodeFails \/ Finish
         \/ EnterDrain \/ LeaveDrain \/ CapDrain \/ SkipDrain
  PROVE  Inv'
<1> USE DEF Inv, TypeOK, Shape, Listed, Covered, Pending, viewing, broadcast
<1>1. ASSUME NEW v \in Viewers, Join(v) PROVE Inv'
  BY <1>1 DEF Join
<1>2. ASSUME NEW v \in Viewers, GoLive(v) PROVE Inv'
  BY <1>2 DEF GoLive
<1>3. ASSUME NEW v \in Viewers, Close(v) PROVE Inv'
  BY <1>3 DEF Close
<1>4. ASSUME NEW v \in Viewers, Leave(v) PROVE Inv'
  BY <1>4 DEF Leave
<1>5. ASSUME NEW v \in Viewers, ReplayRaises(v) PROVE Inv'
  BY <1>5 DEF ReplayRaises
<1>6. CASE Finish
  <2>1. 0 \in 0 .. Cardinality(Viewers)
    BY ViewersAssumption, FS_CardinalityType
  <2> QED
    BY <1>6, <2>1 DEF Finish
<1>7. CASE EnterDrain \/ LeaveDrain \/ CapDrain
  <2>1. /\ run' \in {"drain", "left", "capped"}
        /\ UNCHANGED <<logged, spectators, place, left, behind, got>>
        /\ UNCHANGED <<sending, todo, size, dead, fatal, interrupted>>
    BY <1>7 DEF EnterDrain, LeaveDrain, CapDrain
  <2> QED
    BY <2>1
<1>8. CASE IterationRaises \/ EpisodeFails \/ SkipDrain
  BY <1>8, AbandonStep
<1> QED
  BY <1>1, <1>2, <1>3, <1>4, <1>5, <1>6, <1>7, <1>8

LEMMA IterateStep == ASSUME Inv, Begin \/ BeginFatal PROVE Inv'
<1>1. /\ Iterate /\ logged <= Events
      /\ run' \in {"play", "except"}
      /\ run' = "play" => logged < Events /\ ~fatal
  BY DEF Begin, BeginFatal, Inv, TypeOK, Shape
<1>2. /\ logged' = logged + 1 /\ logged' \in 0 .. Events + 1 /\ logged' > 0
      /\ logged \in Nat /\ Events \in Nat
  BY <1>1, EventsAssumption DEF Iterate, Inv, TypeOK
<1>3. Cardinality(spectators) \in 0 .. Cardinality(Viewers)
  BY SizeType DEF Inv, TypeOK
<1>4. TypeOK'
  BY <1>1, <1>2, <1>3 DEF Iterate, Inv, TypeOK, viewing
<1>5. Shape'
  BY <1>1, <1>2 DEF Iterate, Inv, Shape, viewing
<1>6. Listed'
  BY <1>1 DEF Iterate, Inv, Listed, viewing
<1>7. Covered'
  <2> SUFFICES ASSUME NEW v \in Viewers \ left, place[v] \in {"replay", "live"},
                      NEW n \in 1 .. logged + 1
               PROVE  /\ n \in ToSet(got[v]) \cup ToSet(behind[v]) \cup {logged + 1} \cup interrupted
                      /\ v \in spectators
    BY <1>1, <1>2 DEF Iterate, Covered, Pending, viewing
  <2>1. v \in spectators
    BY DEF Inv, Listed
  <2>2. n \in 1 .. logged \/ n = logged + 1
    BY <1>2
  <2>3. Pending(v) = {}
    BY <1>1 DEF Iterate, Pending
  <2> QED
    BY <2>1, <2>2, <2>3 DEF Inv, Covered
<1> QED
  BY <1>4, <1>5, <1>6, <1>7 DEF Inv

(* The steps by which a viewer comes by events.                            *)
LEMMA SendingSteps ==
  ASSUME Inv, NEW v \in Viewers, CopyLog(v) \/ Replay(v) \/ SendTo(v)
  PROVE  Inv'
<1> USE DEF Inv, TypeOK, Shape, Listed, Covered, Pending, viewing, broadcast
<1>1. CASE CopyLog(v)
  <2>1. /\ [n \in 1 .. logged |-> n] \in Seq(1 .. Events + 1)
        /\ ToSet([n \in 1 .. logged |-> n]) = 1 .. logged
    BY CountTo
  <2> QED
    BY <1>1, <2>1 DEF CopyLog
<1>2. CASE Replay(v)
  <2>1. /\ behind[v] \in Seq(1 .. Events + 1) /\ behind[v] # << >>
        /\ got[v] \in Seq(1 .. Events + 1)
    BY <1>2 DEF Replay
  <2> DEFINE event == Head(behind[v])
             rest == Tail(behind[v])
             sent == Append(got[v], event)
  <2>2. /\ event \in 1 .. Events + 1 /\ rest \in Seq(1 .. Events + 1)
        /\ ToSet(behind[v]) = {event} \cup ToSet(rest)
    BY <2>1, Replayed
  <2>3. sent \in Seq(1 .. Events + 1) /\ ToSet(sent) = ToSet(got[v]) \cup {event}
    BY <2>1, <2>2, SentTo
  <2>4. /\ got' = [got EXCEPT ![v] = sent] /\ behind' = [behind EXCEPT ![v] = rest]
        /\ place[v] = "replay"
        /\ UNCHANGED <<logged, spectators, place, left, sending, todo, size, dead, fatal, interrupted, run>>
    BY <1>2 DEF Replay
  <2> HIDE DEF event, rest, sent
  <2>5. TypeOK' /\ Shape' /\ Listed'
    BY <2>2, <2>3, <2>4
  <2>6. Covered'
    BY <2>2, <2>3, <2>4
  <2> QED
    BY <2>5, <2>6
<1>3. CASE SendTo(v) /\ v \in left
  BY <1>3 DEF SendTo
<1>4. CASE SendTo(v) /\ v \notin left
  <2> DEFINE sent == Append(got[v], logged)
             Numbers == 1 .. Events + 1
  <2>1. got[v] \in Seq(Numbers) /\ logged \in Numbers
    BY <1>4 DEF SendTo
  <2> HIDE DEF Numbers
  <2>2. sent \in Seq(Numbers) /\ ToSet(sent) = ToSet(got[v]) \cup {logged}
    BY ONLY <2>1, SentTo
  <2>3. /\ got' = [got EXCEPT ![v] = sent] /\ todo' = todo \ {v} /\ sending
        /\ UNCHANGED <<logged, spectators, place, left, behind, sending, size, dead, fatal, interrupted, run>>
    BY <1>4 DEF SendTo
  <2> HIDE DEF sent
  <2>4. TypeOK' /\ Shape' /\ Listed'
    BY <2>2, <2>3 DEF Numbers
  <2>5. Covered'
    BY <2>2, <2>3
  <2> QED
    BY <2>4, <2>5
<1> QED
  BY <1>1, <1>2, <1>3, <1>4

LEMMA InvStep == Inv /\ [Next]_vars => Inv'
<1> SUFFICES ASSUME Inv, [Next]_vars PROVE Inv'
  OBVIOUS
<1>1. CASE UNCHANGED vars
  BY <1>1 DEF vars, viewing, broadcast, Inv, TypeOK, Shape, Listed, Covered, Pending
<1> QED
  BY <1>1, QuietSteps, IterateStep, SendingSteps DEF Next

LEMMA Invariance == Spec => []Inv
BY InvInit, InvStep, PTL DEF Spec

(* The types of the event stream, for any number of viewers and events.    *)
THEOREM StreamTyped == Spec => []TypeOK
<1>1. Inv => TypeOK
  BY DEF Inv
<1> QED
  BY <1>1, Invariance, PTL

(* Whenever a viewer joins, it is sent every event whose broadcast ran to  *)
(* its end: what the live loop skips is in the log it copies.              *)
THEOREM NobodyMissesAnEvent == Spec => []NothingMissed
<1>1. Inv => NothingMissed
  <2> SUFFICES ASSUME Inv, ~sending, NEW v \in Viewers \ left, place[v] = "live"
               PROVE  (1 .. logged) \ interrupted \subseteq ToSet(got[v])
    BY DEF NothingMissed
  <2>1. Pending(v) = {} /\ behind[v] = << >>
    BY DEF Inv, Shape, Pending
  <2>2. ToSet(<< >>) = {}
    BY DEF ToSet
  <2> QED
    BY <2>1, <2>2 DEF Inv, Covered
<1> QED
  BY <1>1, Invariance, PTL

(* A finished game leaves before the cap only when every viewer has closed *)
(* its connection, whatever was interrupted or found dead before.          *)
THEOREM NobodyIsCutOff == Spec => NobodyCutOff
<1>1. Inv /\ [Next]_vars => [WaitsForViewers]_vars
  <2> SUFFICES ASSUME Inv, Next, run = "drain", run' = "left"
               PROVE  \A v \in Viewers : ~Present(v)
    BY DEF WaitsForViewers, vars
  <2>1. CASE LeaveDrain
    BY <2>1 DEF LeaveDrain, Inv, Listed, Present
  <2>2. CASE \E v \in Viewers : \/ Join(v) \/ CopyLog(v) \/ Replay(v) \/ GoLive(v)
                                \/ Close(v) \/ Leave(v) \/ ReplayRaises(v) \/ SendTo(v)
    BY <2>2 DEF Join, CopyLog, Replay, GoLive, Close, Leave, ReplayRaises, SendTo
  <2>3. CASE Begin \/ BeginFatal \/ IterationRaises \/ EpisodeFails \/ Finish
    BY <2>3 DEF Begin, BeginFatal, IterationRaises, EpisodeFails, Finish
  <2>4. CASE EnterDrain \/ CapDrain \/ SkipDrain
    BY <2>4 DEF EnterDrain, CapDrain, SkipDrain
  <2> QED
    BY <2>1, <2>2, <2>3, <2>4 DEF Next
<1> QED
  BY <1>1, Invariance, PTL DEF Spec, NobodyCutOff
=============================================================================
