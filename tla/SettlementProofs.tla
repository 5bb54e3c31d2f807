-------------------------- MODULE SettlementProofs --------------------------
(***************************************************************************)
(* What a settled episode stands on: when an SDK player acknowledged its   *)
(* stop in time, the server holds the whole truth about its native calls,  *)
(* and a completed record holds no less.  The argument follows a call from *)
(* the callback (PlayerInv) through the stream (StreamInv) to the record   *)
(* (Books): evidence is sent in the order it becomes true and the          *)
(* acknowledgement after all of it, so that a stream which still brings    *)
(* the acknowledgement has lost nothing before it.                         *)
(***************************************************************************)
EXTENDS SeatLinkProofs

(* The calls of a window are numbered without a gap, and only the latest   *)
(* of the running callback is in flight.                                   *)
Numbered ==
  \A r \in Rids : \A n \in 1 .. Calls :
    truth[<<r, n>>] # "none" => \A m \in 1 .. n : truth[<<r, m>>] # "none"
OneInFlight == \A a \in Attempts : truth[a] \in InFlight => busy /\ a = latest

(* The ways of a player that has acknowledged a stop.                      *)
Rested == {"acked", "final", "stopped"}
Resting ==
  /\ loop \in Rested => call = 0
  /\ loop \in Rested \cup {"stopping"} => backlog = << >>

Tells(m, a) == m.type = "private_attempt" /\ m.id = a

(* The last the server has heard of a call, or has on its way, is true.    *)
Agreed(a) ==
  \/ /\ journal[a] = truth[a]
     /\ \A i \in DOMAIN up : ~ Tells(up[i], a)
  \/ \E i \in DOMAIN up :
       /\ Tells(up[i], a) /\ up[i].attempt = truth[a]
       /\ \A j \in DOMAIN up : j > i => ~ Tells(up[j], a)

(* An acknowledgement is the last word of a player at rest.                *)
AckLast == \A i \in DOMAIN up : up[i].type = "stopped" => i = Len(up) /\ loop \in Rested
AckSent == \E i \in DOMAIN up : up[i].type = "stopped"

(* Until the acknowledgement is in, nothing is lost from a stream that can *)
(* still bring it.                                                         *)
Faithful ==
  reader = "reading" /\ ~stopped /\ ~sealed /\ (link = "up" \/ AckSent) =>
    \A a \in Attempts : Agreed(a)
Whole == stopped => journal = truth /\ up = << >> /\ loop \in Rested

(* The two ends of what an SDK player says.  A foreign one says anything.  *)
PlayerInv == policy # "foreign" => Numbered /\ OneInFlight /\ Resting
StreamInv == policy # "foreign" => AckLast /\ Faithful /\ Whole

(* What the record and the settlement stand on.                            *)
Books ==
  /\ phase \notin {"done", "over"} => record = "open" /\ settled = "no"
  /\ settled = "yes" => stopped
  /\ record = "completed" => settled = "yes" /\ ended /\ ~incomplete
  /\ ended => active \in closed \cup {0}
  /\ closed \in {1 .. active, 1 .. active - 1}
  /\ ended => phase # "play"

-----------------------------------------------------------------------------
(* The callback.                                                           *)

LEMMA BegunIsPrefix ==
  ASSUME Numbered, call \in Rids
  PROVE  Begun = 1 .. Cardinality(Begun)
<1> DEFINE k == Cardinality(Begun)
<1>1. k \in 0 .. Calls /\ Calls \in Nat /\ k \in Nat /\ IsFiniteSet(Begun)
  BY BegunFinite, WireAssumption
<1>2. \A n \in Begun : 1 .. n \subseteq Begun
  BY <1>1 DEF Begun, Numbered
<1>3. Begun \subseteq 1 .. Calls
  BY DEF Begun
<1>4. \A n \in Nat : IsFiniteSet(1 .. n) /\ Cardinality(1 .. n) = n
  BY FS_Interval
<1> HIDE DEF k
<1>5. ASSUME NEW n \in 1 .. k, n \notin Begun PROVE FALSE
  <2>1. n - 1 \in Nat /\ n - 1 < k
    BY <1>1
  <2>2. Begun \subseteq 1 .. n - 1
    <3> SUFFICES ASSUME NEW b \in Begun PROVE b \in 1 .. n - 1
      OBVIOUS
    <3>1. b \in 1 .. Calls /\ 1 .. b \subseteq Begun
      BY <1>2, <1>3
    <3>2. ~ (n <= b)
      BY <1>1, <1>5, <3>1
    <3> QED
      BY <1>1, <3>1, <3>2
  <2>3. Cardinality(Begun) <= n - 1
    <3> DEFINE below == 1 .. n - 1
    <3>1. IsFiniteSet(below) /\ Cardinality(below) = n - 1 /\ Begun \subseteq below
      BY <1>4, <2>1, <2>2
    <3> HIDE DEF below
    <3> QED
      BY ONLY <3>1, FS_Subset
  <2> QED
    BY <1>1, <2>1, <2>3 DEF k
<1>6. ASSUME NEW n \in Begun PROVE n \in 1 .. k
  <2>1. n \in 1 .. Calls /\ n \in Nat /\ 1 .. n \subseteq Begun
    BY <1>1, <1>2, <1>3, <1>6
  <2>2. n <= Cardinality(Begun)
    BY <1>1, <1>4, <2>1, FS_Subset
  <2> QED
    BY <1>1, <2>1, <2>2 DEF k
<1> QED
  BY <1>5, <1>6 DEF k

LEMMA IdleCall == call = 0 => ~busy
BY DEF busy, fate, Begun, InFlight

(* No call is begun or ended while the callback's own state stays.         *)
LEMMA SameCall ==
  UNCHANGED <<call, truth>> => (busy <=> busy') /\ latest' = latest /\ Begun' = Begun
BY DEF busy, fate, latest, Begun

LEMMA PlayerStarts == Init => PlayerInv
BY DEF Init, PlayerInit, PlayerInv, Numbered, OneInFlight, Resting, Rested, Attempts, InFlight

LEMMA AttemptsOf ==
  /\ Windows \in Nat /\ Calls \in Nat
  /\ \A r \in Rids, n \in 1 .. Calls : <<r, n>> \in Attempts
  /\ \A a \in Attempts : \E r \in Rids, n \in 1 .. Calls : a = <<r, n>>
BY WireAssumption DEF Attempts

(* The call in flight goes on or ends.                                     *)
LEMMA LatestTold ==
  ASSUME TypeOK, Numbered, OneInFlight, busy, call' = call,
         NEW e \in Evidence, truth' = [truth EXCEPT ![latest] = e]
  PROVE  Numbered' /\ OneInFlight'
<1>1. latest \in Attempts /\ truth \in [Attempts -> {"none"} \cup Evidence]
  BY LatestIsAttempt DEF TypeOK, PlayerTypeOK, busy
<1>2. truth[latest] # "none" /\ e # "none" /\ truth[latest] \in InFlight
  BY DEF busy, fate, InFlight, Evidence, Finished
<1>3. \A a \in Attempts : truth'[a] = IF a = latest THEN e ELSE truth[a]
  BY <1>1
<1>4. \A a \in Attempts : truth'[a] # "none" <=> truth[a] # "none"
  BY <1>2, <1>3
<1>5. Begun' = Begun
  <2>1. call # 0 => call \in Rids
    BY WireAssumption DEF TypeOK, PlayerTypeOK, Rids
  <2>2. call # 0 => \A n \in 1 .. Calls : <<call, n>> \in Attempts
    BY <2>1, AttemptsOf
  <2> QED
    BY <1>4, <2>2 DEF Begun
<1>6. latest' = latest
  BY <1>5 DEF latest
<1>7. Begun # {}
  BY DEF busy, fate, InFlight
<1>8. Numbered'
  <2>1. \A r \in Rids : \A n \in 1 .. Calls : \A m \in 1 .. n : <<r, m>> \in Attempts
    BY AttemptsOf
  <2> QED
    BY <1>4, <2>1, AttemptsOf DEF Numbered
<1>9. OneInFlight'
  <2> SUFFICES ASSUME NEW a \in Attempts, truth'[a] \in InFlight
               PROVE  busy' /\ a = latest
    BY <1>6 DEF OneInFlight
  <2>1. a = latest
    BY <1>3 DEF OneInFlight
  <2>2. fate' = truth'[latest]
    BY <1>5, <1>6, <1>7 DEF fate
  <2> QED
    BY <2>1, <2>2 DEF busy
<1> QED
  BY <1>8, <1>9

(* One more call begins when none is in flight.                            *)
LEMMA OneMoreTold ==
  ASSUME TypeOK, Numbered, OneInFlight, ~busy, call # 0, Cardinality(Begun) < Calls,
         call' = call,
         truth' = [truth EXCEPT ![<<call, Cardinality(Begun) + 1>>] = "started"]
  PROVE  Numbered' /\ OneInFlight'
<1> DEFINE k == Cardinality(Begun)
           fresh == <<call, k + 1>>
<1>1. /\ call \in Rids /\ k \in Nat /\ k + 1 \in 1 .. Calls
      /\ fresh \in Attempts /\ truth \in [Attempts -> {"none"} \cup Evidence]
  BY WireAssumption, BegunFinite, FreshIsAttempt DEF TypeOK, PlayerTypeOK, Rids
<1>2. \A a \in Attempts : truth'[a] = IF a = fresh THEN "started" ELSE truth[a]
  BY <1>1
<1>3. Begun = 1 .. k
  BY <1>1, BegunIsPrefix
<1>4. \A n \in 1 .. Calls : truth[<<call, n>>] # "none" <=> n \in 1 .. k
  BY <1>1, <1>3 DEF Begun
<1>5. \A n \in 1 .. Calls : truth'[<<call, n>>] # "none" <=> n \in 1 .. k + 1
  BY <1>1, <1>2, <1>4, AttemptsOf
<1>6. Begun' = 1 .. k + 1
  <2>1. \A n : n \in Begun' <=> n \in 1 .. Calls /\ truth'[<<call, n>>] # "none"
    BY DEF Begun
  <2>2. k \in Nat /\ Calls \in Nat /\ k + 1 <= Calls
    BY <1>1, AttemptsOf
  <2> HIDE DEF k
  <2>3. \A n : n \in 1 .. k + 1 => n \in 1 .. Calls
    BY ONLY <2>2
  <2> QED
    BY ONLY <1>5, <2>1, <2>3
<1>7. Cardinality(Begun') = k + 1
  BY <1>1, <1>6, FS_Interval
<1>8. latest' = fresh /\ fate' = "started"
  BY <1>1, <1>2, <1>6, <1>7 DEF latest, fate
<1>9. Numbered'
  <2> SUFFICES ASSUME NEW r \in Rids, NEW n \in 1 .. Calls, truth'[<<r, n>>] # "none",
                      NEW m \in 1 .. n
               PROVE  truth'[<<r, m>>] # "none"
    BY DEF Numbered
  <2>1. m \in 1 .. Calls /\ <<r, n>> \in Attempts /\ <<r, m>> \in Attempts
    BY AttemptsOf
  <2>2. CASE r = call
    BY <1>1, <1>5, <2>1, <2>2, AttemptsOf
  <2>3. CASE r # call
    BY <1>2, <2>1, <2>3 DEF Numbered
  <2> QED
    BY <2>2, <2>3
<1>10. OneInFlight'
  BY <1>2, <1>8 DEF OneInFlight, busy, InFlight
<1> QED
  BY <1>9, <1>10

(* What the callback does not touch stays.                                 *)
LEMMA UntoldStays ==
  ASSUME Numbered, OneInFlight, truth' = truth, ~busy \/ call' = call
  PROVE  Numbered' /\ OneInFlight'
<1>1. Numbered'
  BY DEF Numbered
<1>2. OneInFlight'
  BY SameCall DEF OneInFlight
<1> QED
  BY <1>1, <1>2

(* A step of the player tells of a call, or leaves truth as it is.         *)
LEMMA PlayerSteps ==
  ASSUME TypeOK, PlayerInv, PlayerStep
  PROVE  Numbered' /\ OneInFlight' /\ Resting' /\ policy' = policy
<1>1. Numbered /\ OneInFlight /\ Resting
  BY DEF PlayerInv, PlayerStep
<1>2. CASE BeginCall
  <2>1. ~busy
    BY <1>2 DEF BeginCall, busy, InFlight
  <2>2. Numbered' /\ OneInFlight'
    BY <1>1, <1>2, <2>1, OneMoreTold DEF BeginCall, Publish
  <2> QED
    BY <1>1, <1>2, <2>2 DEF BeginCall, Resting
<1>3. CASE ReceiveResponse \/ FinishCall \/ AbandonCall
  <2>1. busy
    BY <1>3 DEF ReceiveResponse, FinishCall, AbandonCall, busy, InFlight
  <2>2. /\ call' = call /\ backlog' = backlog /\ policy' = policy
        /\ loop \in {"running", "stopping"} /\ loop' \in {loop, "failed"}
    BY <1>3 DEF ReceiveResponse, FinishCall, AbandonCall
  <2>3. PICK e \in Evidence : Publish(latest, e)
    BY <1>3 DEF ReceiveResponse, FinishCall, AbandonCall, Evidence, Finished
  <2>4. Numbered' /\ OneInFlight'
    BY <1>1, <2>1, <2>2, <2>3, LatestTold DEF Publish
  <2> QED
    BY <1>1, <2>2, <2>4 DEF Resting, Rested
<1>4. CASE down # << >> /\ (TakeRequest(Head(down)) \/ TakeStop(Head(down)) \/ TakeFinal(Head(down)))
  <2>1. ~busy \/ call' = call
    BY <1>4, IdleCall DEF TakeRequest, TakeStop, TakeFinal, Dispatch
  <2>2. truth' = truth /\ policy' = policy
    BY <1>4 DEF TakeRequest, TakeStop, TakeFinal
  <2>3. Numbered' /\ OneInFlight'
    BY <1>1, <2>1, <2>2, UntoldStays
  <2>4. Resting'
    BY <1>1, <1>4 DEF TakeRequest, TakeStop, TakeFinal, Resting, Rested
  <2> QED
    BY <2>2, <2>3, <2>4
<1>5. CASE Reply \/ GiveUp \/ Acknowledge
  <2>1. ~busy /\ truth' = truth /\ policy' = policy
    BY <1>5 DEF Reply, GiveUp, Acknowledge, wire
  <2>2. Numbered' /\ OneInFlight'
    BY <1>1, <2>1, UntoldStays
  <2>3. Resting'
    BY <1>1, <1>5 DEF Reply, GiveUp, Acknowledge, Dispatch, Resting, Rested
  <2> QED
    BY <2>1, <2>2, <2>3
<1>6. CASE Withhold \/ StopWaiting \/ SeeClose
  <2>1. call' = call /\ backlog' = backlog /\ truth' = truth /\ policy' = policy
    BY <1>6 DEF Withhold, StopWaiting, SeeClose
  <2>2. Numbered' /\ OneInFlight'
    BY <1>1, <2>1, UntoldStays
  <2>3. Resting'
    BY <1>1, <1>6, <2>1 DEF Withhold, StopWaiting, SeeClose, Resting, Rested
  <2> QED
    BY <2>1, <2>2, <2>3
<1> QED
  BY <1>2, <1>3, <1>4, <1>5, <1>6 DEF PlayerStep

LEMMA PlayerNext ==
  ASSUME TypeOK, PlayerInv, [Next]_vars PROVE PlayerInv'
<1>1. CASE PlayerStep
  BY <1>1, PlayerSteps DEF PlayerInv
<1>2. CASE UNCHANGED <<policy, loop, backlog, call, truth>>
  BY <1>2, UntoldStays DEF PlayerInv, Resting
<1> QED
  BY <1>1, <1>2 DEF Next, vars, player, Stray

LEMMA PlayersKeepOrder == Spec => []PlayerInv
<1>1. Init /\ TypeOK => PlayerInv
  BY PlayerStarts
<1>2. TypeOK /\ PlayerInv /\ [Next]_vars => PlayerInv'
  BY PlayerNext
<1> QED
  BY <1>1, <1>2, ConnectionTyped, PTL DEF Spec

-----------------------------------------------------------------------------
(* The stream.                                                             *)

LEMMA StreamStarts == Init => StreamInv
BY DEF Init, WireInit, ChannelInit, PlayerInit, StreamInv, AckLast, AckSent, Faithful, Whole,
   Agreed

(* Until a player rests it has acknowledged nothing.                       *)
LEMMA NotYetAcked ==
  ASSUME AckLast, loop \notin Rested PROVE ~AckSent
BY DEF AckLast, AckSent

(* Nothing is said and nothing is heard.                                   *)
LEMMA StillStream ==
  ASSUME StreamInv, UNCHANGED <<up, truth, journal, stopped, policy>>,
         reader' = "reading" => reader = "reading",
         sealed => sealed',
         link' = "up" => link = "up",
         loop \in Rested => loop' \in Rested
  PROVE  StreamInv'
<1> SUFFICES ASSUME policy # "foreign" PROVE AckLast' /\ Faithful' /\ Whole'
  BY DEF StreamInv
<1>1. AckLast /\ Faithful /\ Whole
  BY DEF StreamInv
<1>2. AckLast' /\ Whole'
  BY <1>1 DEF AckLast, Whole
<1>3. Faithful'
  BY <1>1 DEF Faithful, AckSent, Agreed
<1> QED
  BY <1>2, <1>3

(* One more frame in the stream.                                           *)
LEMMA Appended ==
  ASSUME NEW S, NEW q \in Seq(S), NEW m \in S
  PROVE  /\ Append(q, m) \in Seq(S)
         /\ DOMAIN q = 1 .. Len(q) /\ Len(q) \in Nat
         /\ DOMAIN Append(q, m) = 1 .. Len(q) + 1 /\ Len(Append(q, m)) = Len(q) + 1
         /\ \A i \in DOMAIN q : Append(q, m)[i] = q[i]
         /\ Append(q, m)[Len(q) + 1] = m
<1>1. DOMAIN q = 1 .. Len(q) /\ Len(q) \in Nat
  BY LenProperties
<1> QED
  BY <1>1, AppendProperties

(* A player tells of a call.                                               *)
LEMMA EvidenceSent ==
  ASSUME TypeOK, StreamInv, policy # "foreign", loop \notin Rested,
         NEW a \in Attempts, NEW e \in Evidence, Publish(a, e),
         loop' \notin Rested, link' \in {link, "cut"},
         UNCHANGED <<journal, reader, stopped, policy>>, sealed => sealed'
  PROVE  StreamInv'
<1> DEFINE m == [type |-> "private_attempt", id |-> a, attempt |-> e]
           n == Len(up) + 1
<1>1. AckLast /\ Faithful /\ Whole /\ ~AckSent /\ ~stopped
  BY NotYetAcked DEF StreamInv, Whole
<1>2. /\ \A b \in Attempts : truth'[b] = IF b = a THEN e ELSE truth[b]
      /\ up' = Put(up, m)
  BY DEF Publish, TypeOK, PlayerTypeOK
<1>3. up \in Seq(PlayerFrames) /\ m \in PlayerFrames
  BY DEF TypeOK, WireTypeOK, PlayerFrames, Publications
<1>4. m.type = "private_attempt" /\ m.id = a /\ m.attempt = e
  OBVIOUS
<1> HIDE DEF m
<1>5. CASE link = "up"
  <2>1. up' = Append(up, m)
    BY <1>2, <1>5 DEF Put
  <2>2. /\ DOMAIN up = 1 .. Len(up) /\ Len(up) \in Nat
        /\ DOMAIN up' = 1 .. n
        /\ \A i \in DOMAIN up : up'[i] = up[i]
        /\ up'[n] = m
    BY <1>3, <2>1, Appended
  <2> HIDE DEF n
  <2>10. n = Len(up) + 1
    BY DEF n
  <2>3. \A i \in DOMAIN up' : i \in DOMAIN up \/ i = n
    BY ONLY <2>2, <2>10
  <2>4. n \in DOMAIN up' /\ \A i \in DOMAIN up : i \in DOMAIN up' /\ i < n
    BY ONLY <2>2, <2>10
  <2>5. ~AckSent'
    BY <1>1, <1>4, <2>2, <2>3 DEF AckSent
  <2>6. ASSUME \A b \in Attempts : Agreed(b), NEW b \in Attempts PROVE Agreed(b)'
    <3>1. CASE b = a
      <4>1. Tells(up'[n], b) /\ up'[n].attempt = truth'[b]
        BY <1>2, <1>4, <2>2, <3>1 DEF Tells
      <4>2. \A j \in DOMAIN up' : ~ (j > n)
        BY <2>2, <2>10
      <4> QED
        BY <2>4, <4>1, <4>2 DEF Agreed, Tells
    <3>2. CASE b # a
      <4>1. ~Tells(up'[n], b) /\ truth'[b] = truth[b] /\ journal'[b] = journal[b]
        BY <1>2, <1>4, <2>2, <3>2 DEF Tells
      <4>2. \A i \in DOMAIN up : Tells(up'[i], b) <=> Tells(up[i], b)
        BY <2>2 DEF Tells
      <4> QED
        BY <2>2, <2>3, <2>4, <2>6, <4>1, <4>2 DEF Agreed, Tells
    <3> QED
      BY <3>1, <3>2
  <2>7. Faithful'
    BY <1>1, <1>5, <2>5, <2>6 DEF Faithful
  <2> QED
    BY <1>1, <2>5, <2>7 DEF StreamInv, AckLast, AckSent, Whole
<1>6. CASE link # "up"
  <2>1. up' = up /\ link' # "up"
    BY <1>2, <1>6 DEF Put, TypeOK, WireTypeOK
  <2>2. ~AckSent'
    BY <1>1, <2>1 DEF AckSent
  <2> QED
    BY <1>1, <2>1, <2>2 DEF StreamInv, AckLast, AckSent, Faithful, Whole
<1> QED
  BY <1>5, <1>6

(* A player says something else: a reply, or the acknowledgement.          *)
LEMMA WordSent ==
  ASSUME TypeOK, StreamInv, policy # "foreign", loop \notin Rested,
         NEW m \in PlayerFrames, m.type # "private_attempt", up' = Put(up, m),
         m.type = "stopped" => loop' \in Rested /\ link = "up",
         link' = link, UNCHANGED <<truth, journal, reader, stopped, policy>>,
         sealed => sealed'
  PROVE  StreamInv'
<1> DEFINE n == Len(up) + 1
<1>1. AckLast /\ Faithful /\ Whole /\ ~AckSent /\ ~stopped
  BY NotYetAcked DEF StreamInv, Whole
<1>2. CASE link = "up"
  <2>1. up' = Append(up, m) /\ up \in Seq(PlayerFrames)
    BY <1>2 DEF Put, TypeOK, WireTypeOK
  <2>2. /\ DOMAIN up = 1 .. Len(up) /\ Len(up) \in Nat
        /\ DOMAIN up' = 1 .. n /\ Len(up') = n
        /\ \A i \in DOMAIN up : up'[i] = up[i]
        /\ up'[n] = m
    BY <2>1, Appended
  <2> HIDE DEF n
  <2>10. n = Len(up) + 1
    BY DEF n
  <2>3. \A i \in DOMAIN up' : i \in DOMAIN up \/ i = n
    BY ONLY <2>2, <2>10
  <2>4. n \in DOMAIN up' /\ \A i \in DOMAIN up : i \in DOMAIN up' /\ i < n
    BY ONLY <2>2, <2>10
  <2>5. AckLast'
    BY <1>1, <2>2, <2>3 DEF AckLast, AckSent
  <2>6. ASSUME \A b \in Attempts : Agreed(b), NEW b \in Attempts PROVE Agreed(b)'
    <3>1. \A i \in DOMAIN up : Tells(up'[i], b) <=> Tells(up[i], b)
      BY <2>2 DEF Tells
    <3>2. ~Tells(up'[n], b)
      BY <2>2 DEF Tells
    <3> QED
      BY <2>2, <2>3, <2>4, <2>6, <3>1, <3>2 DEF Agreed, Tells
  <2>7. Faithful'
    BY <1>1, <1>2, <2>6 DEF Faithful
  <2> QED
    BY <1>1, <2>5, <2>7 DEF StreamInv, Whole
<1>3. CASE link # "up"
  <2>1. up' = up /\ ~AckSent'
    BY <1>1, <1>3 DEF Put, AckSent
  <2> QED
    BY <1>1, <1>3, <2>1 DEF StreamInv, AckLast, AckSent, Faithful, Whole
<1> QED
  BY <1>2, <1>3

LEMMA PlayerTells ==
  ASSUME TypeOK, PlayerInv, StreamInv, PlayerStep, UNCHANGED <<channel, strays>>
  PROVE  StreamInv'
<1>1. /\ UNCHANGED <<journal, reader, stopped>> /\ (sealed => sealed')
      /\ policy # "foreign" /\ policy' = policy
  BY PlayerSteps DEF channel, owner, sealed, PlayerStep
<1>2. CASE BeginCall
  <2>1. <<call, Cardinality(Begun) + 1>> \in Attempts
    BY <1>2, FreshIsAttempt DEF BeginCall, TypeOK, PlayerTypeOK
  <2> QED
    BY <1>1, <1>2, <2>1, EvidenceSent DEF BeginCall, Rested, Evidence
<1>3. CASE ReceiveResponse \/ FinishCall \/ AbandonCall
  <2>1. latest \in Attempts
    BY <1>3, LatestIsAttempt
    DEF ReceiveResponse, FinishCall, AbandonCall, InFlight, TypeOK, PlayerTypeOK
  <2>2. PICK e \in Evidence : Publish(latest, e)
    BY <1>3 DEF ReceiveResponse, FinishCall, AbandonCall, Evidence, Finished
  <2>3. loop \notin Rested /\ loop' \notin Rested /\ link' \in {link, "cut"}
    BY <1>3 DEF ReceiveResponse, FinishCall, AbandonCall, Rested
  <2> QED
    BY <1>1, <2>1, <2>2, <2>3, EvidenceSent
<1>4. CASE Reply
  <2>1. [type |-> "reply", rid |-> call] \in PlayerFrames
    BY <1>4, WireAssumption DEF Reply, PlayerFrames, Replies, Rids, TypeOK, PlayerTypeOK
  <2> QED
    BY <1>1, <1>4, <2>1, WordSent DEF Reply, Rested
<1>5. CASE Acknowledge
  <2>1. [type |-> "stopped", ours |-> TRUE] \in PlayerFrames
    BY DEF PlayerFrames, Acks
  <2> QED
    BY <1>1, <1>5, <2>1, WordSent DEF Acknowledge, Rested, Put
<1>6. CASE \/ down # << >> /\ (TakeRequest(Head(down)) \/ TakeStop(Head(down))
                                \/ TakeFinal(Head(down)))
           \/ GiveUp \/ Withhold \/ StopWaiting \/ SeeClose
  <2>1. /\ UNCHANGED <<up, truth>> /\ (link' = "up" => link = "up")
        /\ loop \in Rested => loop' \in Rested
    BY <1>6 DEF TakeRequest, TakeStop, TakeFinal, GiveUp, Withhold, StopWaiting, SeeClose,
       wire, Rested
  <2> QED
    BY <1>1, <2>1, StillStream
<1> QED
  BY <1>2, <1>3, <1>4, <1>5, <1>6 DEF PlayerStep

-----------------------------------------------------------------------------
(* The server reads the stream in order.                                   *)
LEMMA Shifted ==
  ASSUME NEW S, NEW q \in Seq(S), q # << >>
  PROVE  /\ Len(q) \in Nat /\ Len(q) > 0 /\ DOMAIN q = 1 .. Len(q)
         /\ Len(Tail(q)) = Len(q) - 1 /\ DOMAIN Tail(q) = 1 .. Len(q) - 1
         /\ \A i \in DOMAIN Tail(q) : i + 1 \in DOMAIN q /\ Tail(q)[i] = q[i + 1]
         /\ \A i \in DOMAIN q : i # 1 => i - 1 \in DOMAIN Tail(q) /\ Tail(q)[i - 1] = q[i]
         /\ Head(q) = q[1] /\ 1 \in DOMAIN q
<1>1. Len(q) \in Nat /\ Len(q) > 0 /\ DOMAIN q = 1 .. Len(q)
  BY LenProperties, EmptySeq
<1>2. /\ Tail(q) \in Seq(S) /\ Len(Tail(q)) = Len(q) - 1
      /\ \A i \in 1 .. Len(Tail(q)) : Tail(q)[i] = q[i + 1]
  BY HeadTailProperties
<1>3. DOMAIN Tail(q) = 1 .. Len(q) - 1
  BY <1>2, LenProperties
<1> DEFINE n == Len(q)
           t == Tail(q)
<1>4. n \in Nat /\ n > 0 /\ DOMAIN q = 1 .. n /\ DOMAIN t = 1 .. n - 1 /\ Len(t) = n - 1
      /\ \A i \in 1 .. Len(t) : t[i] = q[i + 1]
  BY <1>1, <1>2, <1>3
<1>5. Head(q) = q[1]
  OBVIOUS
<1> HIDE DEF n, t
<1>6. /\ \A i \in DOMAIN t : i + 1 \in DOMAIN q /\ t[i] = q[i + 1]
      /\ \A i \in DOMAIN q : i # 1 => i - 1 \in DOMAIN t /\ t[i - 1] = q[i]
      /\ 1 \in DOMAIN q
  <2>1. \A i \in 1 .. n - 1 : i + 1 \in 1 .. n
    BY ONLY <1>4
  <2>2. \A i \in 1 .. n : i # 1 => i - 1 \in 1 .. n - 1 /\ (i - 1) + 1 = i
    BY ONLY <1>4
  <2>3. 1 \in 1 .. n
    BY ONLY <1>4
  <2> QED
    BY ONLY <1>4, <2>1, <2>2, <2>3
<1> QED
  BY <1>1, <1>2, <1>3, <1>5, <1>6 DEF n, t

LEMMA ReaderHears ==
  ASSUME TypeOK, StreamInv, ReaderStep, UNCHANGED <<player, strays>>
  PROVE  StreamInv'
<1> SUFFICES ASSUME policy # "foreign" PROVE AckLast' /\ Faithful' /\ Whole'
  BY DEF StreamInv, player
<1>1. AckLast /\ Faithful /\ Whole /\ UNCHANGED <<loop, truth>>
  BY DEF StreamInv, player
<1>2. CASE LoseConnection
  <2>1. UNCHANGED <<up, stopped, journal>> /\ reader' = "left"
    BY <1>2 DEF LoseConnection, wire
  <2> QED
    BY <1>1, <2>1 DEF AckLast, Faithful, Whole
<1>3. ASSUME up # << >>, Receive(Head(up)) PROVE AckLast' /\ ~stopped
  <2>1. up' = Tail(up) /\ up \in Seq(PlayerFrames)
    BY <1>3 DEF Receive, TypeOK, WireTypeOK
  <2>2. /\ Len(up) \in Nat /\ Len(Tail(up)) = Len(up) - 1
        /\ \A i \in DOMAIN Tail(up) : i \in Nat /\ i + 1 \in DOMAIN up /\ Tail(up)[i] = up[i + 1]
    BY <1>3, <2>1, Shifted
  <2>3. \A i \in Nat : i + 1 = Len(up) => i = Len(Tail(up))
    BY <2>2
  <2> QED
    BY <1>1, <1>3, <2>1, <2>2, <2>3 DEF AckLast, Whole
<1>4. CASE up # << >> /\ (IgnoreFrame(Head(up)) \/ RejectFrame(Head(up)))
  <2>1. AckLast' /\ ~stopped /\ stopped' = stopped
    BY <1>3, <1>4 DEF IgnoreFrame, RejectFrame, channel
  <2>2. sealed' \/ reader' = "broken"
    BY <1>4 DEF IgnoreFrame, RejectFrame, channel, owner, sealed
  <2> QED
    BY <2>1, <2>2 DEF Faithful, Whole
<1>5. CASE up # << >> /\ AcceptStopped(Head(up))
  <2>1. AckLast' /\ ~stopped /\ up' = Tail(up) /\ reader = "reading" /\ ~sealed
        /\ stopped' /\ journal' = journal /\ up[1].type = "stopped"
    BY <1>3, <1>5 DEF AcceptStopped, Receive
  <2>2. up \in Seq(PlayerFrames) /\ 1 \in DOMAIN up /\ DOMAIN up = 1 .. Len(up)
    BY <1>5, Shifted DEF TypeOK, WireTypeOK
  <2>3. Len(up) = 1 /\ loop \in Rested
    BY <1>1, <2>1, <2>2 DEF AckLast
  <2>4. Tail(up) = << >>
    BY <2>2, <2>3, Shifted, EmptySeq
  <2>5. AckSent
    BY <2>1, <2>2 DEF AckSent
  <2>6. \A a \in Attempts : Agreed(a)
    BY <1>1, <2>1, <2>5 DEF Faithful
  <2>7. \A i \in DOMAIN up : up[i].type = "stopped"
    BY <2>1, <2>2, <2>3
  <2>8. \A a \in Attempts : journal[a] = truth[a]
    BY <2>6, <2>7 DEF Agreed, Tells
  <2>9. journal = truth
    BY <2>8 DEF TypeOK, ChannelTypeOK, PlayerTypeOK
  <2> QED
    BY <1>1, <2>1, <2>3, <2>4, <2>9 DEF Faithful, Whole
<1>6. CASE up # << >> /\ (AcceptEvidence(Head(up)) \/ AcceptReply(Head(up)))
  <2>1. /\ AckLast' /\ ~stopped /\ up' = Tail(up) /\ stopped' = stopped
        /\ UNCHANGED <<link, reader, phase>> /\ up[1].type # "stopped"
    BY <1>3, <1>6 DEF AcceptEvidence, AcceptReply, Receive, owner
  <2>2. /\ up \in Seq(PlayerFrames) /\ 1 \in DOMAIN up /\ Head(up) = up[1]
        /\ \A i \in DOMAIN up' : i + 1 \in DOMAIN up /\ up'[i] = up[i + 1]
        /\ \A i \in DOMAIN up : i # 1 => i - 1 \in DOMAIN up' /\ up'[i - 1] = up[i]
    BY <1>6, <2>1, Shifted DEF TypeOK, WireTypeOK
  <2>3. AckSent' => AckSent
    BY <2>2 DEF AckSent
  <2>4. \A a \in Attempts :
          journal'[a] = IF Tells(up[1], a) THEN up[1].attempt ELSE journal[a]
    BY <1>6, <2>2 DEF AcceptEvidence, AcceptReply, Tells, TypeOK, ChannelTypeOK
  <2>5. \A i \in DOMAIN up, j \in DOMAIN up' : i \in Nat /\ j \in Nat /\ 1 <= i /\ 1 <= j
    BY <1>6, <2>1, Shifted DEF TypeOK, WireTypeOK
  <2>6. ASSUME NEW a \in Attempts, Agreed(a) PROVE Agreed(a)'
    <3>1. CASE \A i \in DOMAIN up : ~ Tells(up[i], a)
      BY <1>1, <2>2, <2>4, <2>6, <3>1 DEF Agreed, Tells
    <3>2. CASE \E i \in DOMAIN up : Tells(up[i], a)
      <4>1. PICK i \in DOMAIN up :
               /\ Tells(up[i], a) /\ up[i].attempt = truth[a]
               /\ \A j \in DOMAIN up : j > i => ~ Tells(up[j], a)
        BY <2>6, <3>2 DEF Agreed
      <4>2. CASE i = 1
        <5>1. journal'[a] = truth'[a]
          BY <1>1, <2>4, <4>1, <4>2
        <5>2. \A j \in DOMAIN up' : j + 1 > 1
          BY <2>5
        <5>3. \A j \in DOMAIN up' : ~ Tells(up'[j], a)
          BY <2>2, <4>1, <4>2, <5>2
        <5> QED
          BY <5>1, <5>3 DEF Agreed, Tells
      <4>3. CASE i # 1
        <5>1. i - 1 \in DOMAIN up' /\ up'[i - 1] = up[i]
          BY <2>2, <4>3
        <5>2. \A j \in DOMAIN up' : j > i - 1 => j + 1 > i
          BY <2>5
        <5>3. \A j \in DOMAIN up' : j > i - 1 => ~ Tells(up'[j], a)
          BY <2>2, <4>1, <5>2
        <5> QED
          BY <1>1, <4>1, <5>1, <5>3 DEF Agreed, Tells
      <4> QED
        BY <4>2, <4>3
    <3> QED
      BY <3>1, <3>2
  <2>7. Faithful'
    BY <1>1, <2>1, <2>3, <2>6 DEF Faithful, sealed
  <2> QED
    BY <2>1, <2>7 DEF Whole
<1> QED
  BY <1>2, <1>4, <1>5, <1>6 DEF ReaderStep

LEMMA ServerHears ==
  ASSUME TypeOK, StreamInv, ServerStep, UNCHANGED <<player, strays>>
  PROVE  StreamInv'
<1>1. CASE ReaderStep
  BY <1>1, ReaderHears
<1>2. CASE ~ReaderStep
  <2>1. /\ UNCHANGED <<up, journal, stopped>> /\ (link' = "up" => link = "up")
        /\ (sealed => sealed') /\ (reader' = "reading" => reader = "reading")
    BY <1>2 DEF ServerStep, Ask, TakeReply, WindowTimeout, Consume, Expire, StopPlayer,
       DeadlinePasses, OwnerStep, Seal, JoinReader, SendFinal, HangUp, send, wire, window,
       owner, channel, sealed
  <2> QED
    BY <2>1, StillStream DEF player
<1> QED
  BY <1>1, <1>2

(* The connection breaks.                                                  *)
LEMMA StreamCut ==
  ASSUME TypeOK, StreamInv, Cut, UNCHANGED <<channel, player, strays>>
  PROVE  StreamInv'
<1> SUFFICES ASSUME policy # "foreign" PROVE AckLast' /\ Faithful' /\ Whole'
  BY DEF StreamInv, player
<1>1. AckLast /\ Faithful /\ Whole /\ UNCHANGED <<loop, truth, journal, reader, stopped, phase>>
  BY DEF StreamInv, player, channel, owner
<1>2. PICK l \in 0 .. Len(up) : up' = SubSeq(up, 1, l)
  BY DEF Cut, Prefixes
<1>3. up \in Seq(PlayerFrames) /\ Len(up) \in Nat /\ DOMAIN up = 1 .. Len(up)
  BY LenProperties DEF TypeOK, WireTypeOK
<1>4. /\ Len(up') = l /\ DOMAIN up' = 1 .. l
      /\ \A i \in 1 .. l : i \in DOMAIN up /\ up'[i] = up[i]
  BY <1>2, <1>3
<1>5. l = Len(up) => up' = up
  BY <1>2, <1>3, <1>4
<1>6. AckSent' => up' = up
  <2> SUFFICES ASSUME AckSent' PROVE up' = up
    OBVIOUS
  <2>1. PICK i \in DOMAIN up' : up'[i].type = "stopped"
    BY DEF AckSent
  <2>2. i \in 1 .. l /\ i = Len(up)
    BY <1>1, <1>4, <2>1 DEF AckLast
  <2>3. l = Len(up)
    <3> DEFINE n == Len(up)
    <3>1. n \in Nat /\ l \in 0 .. n /\ i \in 1 .. l /\ i = n
      BY <1>2, <1>3, <2>2
    <3> HIDE DEF n
    <3>2. l = n
      BY ONLY <3>1
    <3> QED
      BY <3>2 DEF n
  <2> QED
    BY <1>5, <2>3
<1>7. AckLast'
  BY <1>1, <1>2, <1>3, <1>4 DEF AckLast
<1>8. Whole'
  BY <1>1, <1>2, <1>3, <1>5 DEF Whole
<1>9. Faithful'
  BY <1>1, <1>6 DEF Faithful, AckSent, Agreed, sealed, Cut
<1> QED
  BY <1>7, <1>8, <1>9

LEMMA StreamNext ==
  ASSUME TypeOK, PlayerInv, StreamInv, [Next]_vars PROVE StreamInv'
<1>1. CASE UNCHANGED vars
  BY <1>1, StillStream DEF vars, wire, channel, owner, player, sealed
<1>2. ASSUME NEW m \in PlayerFrames, Stray(m) PROVE StreamInv'
  BY <1>2 DEF Stray, StreamInv
<1> QED
  BY <1>1, <1>2, PlayerTells, ServerHears, StreamCut DEF Next

-----------------------------------------------------------------------------
(* The books.                                                              *)

LEMMA BooksOpen == Init => Books
BY DEF Init, ChannelInit, CaptureInit, Books

LEMMA WindowsNext ==
  ASSUME TypeOK, NEW r \in Rids, r = active + 1, active \in closed \cup {0},
         closed \in {1 .. active, 1 .. active - 1}
  PROVE  closed = 1 .. r - 1
<1>1. active \in Nat
  BY WireAssumption DEF TypeOK, ChannelTypeOK
<1>2. active \notin 1 .. active - 1
  BY <1>1
<1>3. CASE closed = 1 .. active
  BY <1>1, <1>3
<1>4. CASE closed = 1 .. active - 1
  <2>1. active = 0
    BY <1>2, <1>4
  <2> QED
    BY <1>4, <2>1
<1> QED
  BY <1>3, <1>4

LEMMA BooksNext ==
  ASSUME TypeOK, Books, [Next]_vars PROVE Books'
<1>1. CASE UNCHANGED channel
  BY <1>1 DEF Books, channel, window, owner, capture, incomplete
<1>2. CASE ReaderStep
  <2>1. /\ UNCHANGED <<phase, ended, settled, active, closed, record>>
        /\ stopped => stopped'
    BY <1>2 DEF ReaderStep, LoseConnection, IgnoreFrame, RejectFrame, AcceptStopped,
       AcceptEvidence, AcceptReply, receive, channel, window, owner, capture
  <2>2. record = "completed" => kept' = kept
    BY <1>2 DEF ReaderStep, LoseConnection, IgnoreFrame, RejectFrame, AcceptStopped,
       AcceptEvidence, AcceptReply, receive, channel, window, owner, capture, Books, sealed
  <2> QED
    BY <2>1, <2>2 DEF Books, incomplete
<1>3. CASE \E r \in Rids : Ask(r)
  <2>1. PICK r \in Rids : Ask(r)
    BY <1>3
  <2>2. /\ UNCHANGED <<phase, ended, settled, stopped, closed, record>>
        /\ active' = r /\ phase = "play" /\ r = active + 1 /\ active \in closed \cup {0}
    BY <2>1 DEF Ask, Idle, delivered, owner
  <2>3. closed = 1 .. r - 1
    BY <2>2, WindowsNext DEF Books
  <2> QED
    BY <2>2, <2>3 DEF Books
<1>4. CASE TakeReply \/ WindowTimeout \/ Expire \/ DeadlinePasses \/ Seal
  <2>1. /\ UNCHANGED <<ended, settled, stopped, active, closed, record, kept>>
        /\ phase' = phase \/ (phase = "stopping" /\ phase' = "sealed")
    BY <1>4 DEF TakeReply, WindowTimeout, Expire, DeadlinePasses, Seal, WindowExpires, window,
       owner, capture
  <2> QED
    BY <2>1 DEF Books, incomplete
<1>5. CASE Consume
  <2>1. /\ UNCHANGED <<phase, ended, settled, stopped, active, record, kept>>
        /\ phase = "play" /\ closed' = closed \cup {active}
        /\ active # 0 /\ active \notin closed
    BY <1>5 DEF Consume, consumed, Idle, owner, window
  <2>2. active \in Nat /\ active \in 1 .. active
    BY <2>1, WireAssumption DEF TypeOK, ChannelTypeOK
  <2>3. closed = 1 .. active - 1
    BY <2>1, <2>2 DEF Books
  <2>4. closed' = 1 .. active
    BY <2>1, <2>2, <2>3
  <2> QED
    BY <2>1, <2>4 DEF Books
<1>6. CASE \E over \in BOOLEAN : StopPlayer(over)
  <2>1. PICK over \in BOOLEAN : StopPlayer(over)
    BY <1>6
  <2> QED
    BY <2>1 DEF StopPlayer, Idle, capture, Books
<1>7. CASE JoinReader
  <2>1. UNCHANGED <<ended, stopped, active, closed, kept>> /\ phase' = "done"
    BY <1>7 DEF JoinReader, finish, window
  <2>2. settled' = "yes" => stopped
    BY <1>7 DEF JoinReader
  <2>3. record' = "completed" => settled' = "yes" /\ ended /\ ~incomplete
    BY <1>7 DEF JoinReader, finish
  <2> QED
    BY <2>1, <2>2, <2>3 DEF Books, incomplete
<1>8. CASE SendFinal \/ HangUp
  <2>1. /\ UNCHANGED <<ended, settled, stopped, active, closed, record, kept>>
        /\ phase' = phase \/ (phase' = "over" /\ phase = "done")
    BY <1>8 DEF SendFinal, HangUp, channel, window, owner, capture
  <2> QED
    BY <2>1 DEF Books, incomplete
<1> QED
  BY <1>1, <1>2, <1>3, <1>4, <1>5, <1>6, <1>7, <1>8
  DEF Next, ServerStep, OwnerStep, Stray, vars

LEMMA Settling == Spec => [](TypeOK /\ PlayerInv /\ StreamInv /\ Books)
<1>1. Init => PlayerInv /\ StreamInv /\ Books
  BY PlayerStarts, StreamStarts, BooksOpen
<1>2. TypeOK /\ PlayerInv /\ StreamInv /\ Books /\ [Next]_vars =>
        PlayerInv' /\ StreamInv' /\ Books'
  BY PlayerNext, StreamNext, BooksNext
<1> QED
  BY <1>1, <1>2, ConnectionTyped, PTL DEF Spec

-----------------------------------------------------------------------------
(* A positive settlement of an SDK player means that the server has the    *)
(* whole truth about its calls, that every one has ended with its reader   *)
(* joined, and that the player has no work left (app.py:239-248).          *)
THEOREM SettledWhole == Spec => []SettledIsWhole
<1>1. ASSUME PlayerInv, StreamInv, Books, TypeOK, AckMeansJoined PROVE SettledIsWhole
  <2> SUFFICES ASSUME settled = "yes", policy # "foreign"
               PROVE  /\ journal = truth /\ call = 0 /\ backlog = << >>
                      /\ \A a \in Attempts : truth[a] \in {"none", "ended", "whole", "torn"}
    BY DEF SettledIsWhole
  <2>1. stopped /\ journal = truth /\ loop \in Rested
    BY <1>1 DEF Books, StreamInv, Whole
  <2>2. call = 0 /\ backlog = << >>
    BY <1>1, <2>1 DEF PlayerInv, Resting
  <2>3. ASSUME NEW a \in Attempts PROVE truth[a] \in {"none", "ended", "whole", "torn"}
    <3>1. truth[a] \notin InFlight
      BY <1>1, <2>2, IdleCall DEF PlayerInv, OneInFlight
    <3>2. truth[a] \notin Unsettled
      BY <1>1, <2>1 DEF AckMeansJoined
    <3>3. truth[a] \in {"none"} \cup Evidence
      BY <1>1 DEF TypeOK, PlayerTypeOK
    <3> QED
      BY <3>1, <3>2, <3>3 DEF InFlight, Unsettled, Evidence, Finished
  <2> QED
    BY <2>1, <2>2, <2>3
<1> QED
  BY <1>1, Settling, AcksMeanJoined, PTL

(* A completed record without an ingress issue holds every native call an  *)
(* SDK player really made, each of them ended and none on a partial body,  *)
(* with every window closed (training.py:183-218, app.py:240-248).         *)
THEOREM CompletedExact == Spec => []CompletedIsExact
<1>1. ASSUME Books, TypeOK, SettledIsWhole, RecordFollowsJournal PROVE CompletedIsExact
  <2> SUFFICES ASSUME policy # "foreign", record = "completed", issues = {}
               PROVE  /\ kept = truth /\ closed = 1 .. active /\ call = 0
                      /\ \A a \in Attempts : truth[a] \in {"none", "ended", "whole"}
    BY DEF CompletedIsExact
  <2>1. /\ settled = "yes" /\ ended /\ ~incomplete
        /\ active \in closed \cup {0} /\ closed \in {1 .. active, 1 .. active - 1}
    BY <1>1 DEF Books
  <2>2. journal = truth /\ call = 0
    BY <1>1, <2>1 DEF SettledIsWhole
  <2>3. \A a \in Attempts : kept[a] = journal[a]
    BY <1>1 DEF RecordFollowsJournal
  <2>4. kept = truth
    BY <1>1, <2>2, <2>3 DEF TypeOK, ChannelTypeOK, CaptureTypeOK
  <2>5. \A a \in Attempts : truth[a] \in {"none", "ended", "whole"}
    BY <1>1, <2>1, <2>4 DEF incomplete, TypeOK, CaptureTypeOK, Evidence, Finished
  <2>6. closed = 1 .. active
    <3>1. active \in Nat
      BY <1>1, WireAssumption DEF TypeOK, ChannelTypeOK
    <3>2. active \notin 1 .. active - 1
      BY <3>1
    <3>3. active = 0 => 1 .. active - 1 = 1 .. active
      OBVIOUS
    <3> QED
      BY <2>1, <3>2, <3>3
  <2> QED
    BY <2>2, <2>4, <2>5, <2>6
<1> QED
  BY <1>1, Settling, SettledWhole, RecordAndJournal, PTL

-----------------------------------------------------------------------------
(* What breaks the connection of an SDK player.  Its evidence is sent in   *)
(* the order in which it becomes true, so that each publication extends    *)
(* the one before it, what the server has heard and, in the end, the       *)
(* truth; and nothing it says runs ahead of the windows it was asked.      *)

Credible ==
  {m \in PlayerFrames :
     /\ m.type = "stopped" => m.ours /\ stop_id_set
     /\ m.type = "private_attempt" =>
          truth[m.id] # "none" /\ Extends(m.attempt, truth[m.id])}

(* Later publications of a call extend earlier ones, and these what the    *)
(* server has heard of it.                                                 *)
Ordered ==
  \A i, j \in DOMAIN up :
    i < j /\ Tells(up[i], up[j].id) /\ Tells(up[j], up[j].id) =>
      Extends(up[i].attempt, up[j].attempt)
Heard ==
  reader = "reading" =>
    /\ \A a \in Attempts : Extends(journal[a], truth[a])
    /\ \A a \in Attempts : \A i \in DOMAIN up :
         Tells(up[i], a) => Extends(journal[a], up[i].attempt)

Timely ==
  {m \in ServerFrames :
     /\ m.type = "ask" => m.rid <= active
     /\ m.type = "stop" => stop_id_set}
Dated ==
  /\ down \in Seq(Timely)
  /\ backlog \in Seq(1 .. active)
  /\ call <= active
  /\ loop \in {"stopping"} \cup Rested => stop_id_set
  /\ \A a \in Attempts : truth[a] # "none" => a[1] <= active

Spoken == up \in Seq(Credible) /\ Ordered /\ Heard
SpeechInv == policy # "foreign" => Dated /\ Spoken

LEMMA ExtendsOn ==
  ASSUME NEW x, NEW y, NEW z, Extends(x, y), Extends(y, z) PROVE Extends(x, z)
BY DEF Extends

LEMMA SpeechStarts == Init => SpeechInv
<1> SUFFICES ASSUME Init PROVE Dated /\ Spoken
  BY DEF SpeechInv
<1>1. up = << >> /\ down = << >> /\ backlog = << >> /\ call = 0 /\ active = 0 /\ loop = "running"
  BY DEF Init, WireInit, PlayerInit, ChannelInit
<1>2. \A a \in Attempts : truth[a] = "none" /\ journal[a] = "none"
  BY DEF Init, PlayerInit, ChannelInit
<1> QED
  BY <1>1, <1>2 DEF Dated, Spoken, Ordered, Heard, Rested, Extends

(* What a player's step says.                                              *)
Telling(a, e) == Publish(a, e) /\ Extends(truth[a], e) /\ a[1] = call

LEMMA CallTold ==
  ASSUME TypeOK, PlayerInv, policy # "foreign",
         BeginCall \/ ReceiveResponse \/ FinishCall \/ AbandonCall
  PROVE  /\ \E a \in Attempts, e \in Evidence : Telling(a, e)
         /\ UNCHANGED <<down, backlog, call>>
         /\ loop' \in {loop, "failed"}
<1>1. CASE BeginCall
  <2>1. <<call, Cardinality(Begun) + 1>> \in Attempts
    BY <1>1, FreshIsAttempt DEF BeginCall, TypeOK, PlayerTypeOK
  <2>2. Numbered /\ call \in Rids /\ Cardinality(Begun) \in Nat /\ Calls \in Nat
    BY <1>1, WireAssumption, BegunFinite DEF BeginCall, PlayerInv, TypeOK, PlayerTypeOK, Rids
  <2>3. Cardinality(Begun) + 1 \notin Begun /\ Cardinality(Begun) + 1 \in 1 .. Calls
    BY <1>1, <2>2, BegunIsPrefix DEF BeginCall
  <2>4. truth[<<call, Cardinality(Begun) + 1>>] = "none"
    BY <1>1, <2>3 DEF BeginCall, Begun
  <2> QED
    BY <1>1, <2>1, <2>4 DEF BeginCall, Telling, Evidence, Extends
<1>2. CASE ReceiveResponse \/ FinishCall \/ AbandonCall
  <2>1. latest \in Attempts /\ fate = truth[latest]
    BY <1>2, LatestIsAttempt
    DEF ReceiveResponse, FinishCall, AbandonCall, InFlight, TypeOK, PlayerTypeOK, fate
  <2>2. \E e \in Evidence : Publish(latest, e) /\ Extends(truth[latest], e)
    BY <1>2, <2>1 DEF ReceiveResponse, FinishCall, AbandonCall, Evidence, Finished, Extends
  <2> QED
    BY <1>2, <2>1, <2>2 DEF ReceiveResponse, FinishCall, AbandonCall, Telling, latest
<1> QED
  BY <1>1, <1>2

(* What else it may say.                                                   *)
LEMMA PlayerActs ==
  ASSUME TypeOK, PlayerStep, ~ (BeginCall \/ ReceiveResponse \/ FinishCall \/ AbandonCall)
  PROVE  /\ truth' = truth
         /\ \/ up' = up
            \/ \E m \in PlayerFrames :
                 /\ up' = Put(up, m)
                 /\ m.type = "reply" \/ (m.type = "stopped" /\ m.ours /\ loop = "stopping")
<1>1. CASE Reply
  <2>1. [type |-> "reply", rid |-> call] \in PlayerFrames
    BY <1>1, WireAssumption DEF Reply, PlayerFrames, Replies, Rids, TypeOK, PlayerTypeOK
  <2> QED
    BY <1>1, <2>1 DEF Reply
<1>2. CASE Acknowledge
  <2>1. [type |-> "stopped", ours |-> TRUE] \in PlayerFrames
    BY DEF PlayerFrames, Acks
  <2> QED
    BY <1>2, <2>1 DEF Acknowledge, Put
<1>3. CASE \/ down # << >> /\ (TakeRequest(Head(down)) \/ TakeStop(Head(down))
                                \/ TakeFinal(Head(down)))
           \/ GiveUp \/ Withhold \/ StopWaiting \/ SeeClose
  BY <1>3 DEF TakeRequest, TakeStop, TakeFinal, GiveUp, Withhold, StopWaiting, SeeClose, wire
<1> QED
  BY <1>1, <1>2, <1>3 DEF PlayerStep

(* What was credible stays so while truth only goes on.                    *)
LEMMA StaysCredible ==
  ASSUME TypeOK, \A a \in Attempts : truth[a] # "none" => truth'[a] # "none",
         \A a \in Attempts : Extends(truth[a], truth'[a]), stop_id_set => stop_id_set'
  PROVE  Credible \subseteq Credible'
<1> SUFFICES ASSUME NEW m \in Credible PROVE m \in Credible'
  OBVIOUS
<1>1. m.type = "private_attempt" => m.id \in Attempts
  BY DEF Credible, PlayerFrames, Replies, Publications, Acks
<1>2. m.type = "private_attempt" => Extends(m.attempt, truth'[m.id])
  BY <1>1, ExtendsOn DEF Credible
<1> QED
  BY <1>1, <1>2 DEF Credible

LEMMA Widens ==
  ASSUME NEW S, NEW T, S \subseteq T PROVE Seq(S) \subseteq Seq(T)
BY SMT

(* One more publication.                                                   *)
LEMMA EvidenceSpoken ==
  ASSUME TypeOK, Dated, Spoken, NEW a \in Attempts, NEW e \in Evidence, Telling(a, e),
         UNCHANGED <<journal, reader, phase>>
  PROVE  /\ Spoken'
         /\ \A b \in Attempts : truth'[b] = IF b = a THEN e ELSE truth[b]
<1> DEFINE m == [type |-> "private_attempt", id |-> a, attempt |-> e]
           n == Len(up) + 1
<1>1. /\ \A b \in Attempts : truth'[b] = IF b = a THEN e ELSE truth[b]
      /\ up' = Put(up, m) /\ up \in Seq(Credible) /\ e # "none" /\ Extends(truth[a], e)
  BY DEF Telling, Publish, TypeOK, PlayerTypeOK, Spoken, Evidence, Finished
<1>2. /\ \A b \in Attempts : truth[b] # "none" => truth'[b] # "none"
      /\ \A b \in Attempts : Extends(truth[b], truth'[b])
  BY <1>1 DEF Extends
<1>3. up \in Seq(Credible')
  BY <1>1, <1>2, StaysCredible, Widens DEF stop_id_set
<1>4. m \in Credible' /\ m.type = "private_attempt" /\ m.id = a /\ m.attempt = e
  BY <1>1 DEF Credible, PlayerFrames, Publications, Extends
<1> HIDE DEF m
<1>5. up' \in Seq(Credible')
  BY <1>1, <1>3, <1>4 DEF Put
<1>6. CASE link = "up"
  <2>1. up' = Append(up, m)
    BY <1>1, <1>6 DEF Put
  <2>2. /\ DOMAIN up = 1 .. Len(up) /\ Len(up) \in Nat
        /\ DOMAIN up' = 1 .. n
        /\ \A i \in DOMAIN up : up'[i] = up[i]
        /\ up'[n] = m
    BY <1>1, <1>3, <1>4, <2>1, Appended
  <2> HIDE DEF n
  <2>3. n = Len(up) + 1
    BY DEF n
  <2>4. \A i \in DOMAIN up' : i \in DOMAIN up \/ i = n
    BY ONLY <2>2, <2>3
  <2>5. \A i, j \in DOMAIN up' : i < j => i \in DOMAIN up
    BY ONLY <2>2, <2>3
  <2>6. ASSUME NEW i \in DOMAIN up, Tells(up[i], a) PROVE Extends(up[i].attempt, e)
    <3>1. up[i] \in Credible
      BY <1>1, <2>2, ElementOfSeq
    <3>2. Extends(up[i].attempt, truth[a])
      BY <2>6, <3>1 DEF Credible, Tells
    <3> QED
      BY <1>1, <3>2, ExtendsOn
  <2>7. Ordered'
    <3> SUFFICES ASSUME NEW i \in DOMAIN up', NEW j \in DOMAIN up', i < j,
                        Tells(up'[i], up'[j].id), Tells(up'[j], up'[j].id)
                 PROVE  Extends(up'[i].attempt, up'[j].attempt)
      BY DEF Ordered, Tells
    <3>1. i \in DOMAIN up /\ up'[i] = up[i]
      BY <2>2, <2>5
    <3>2. CASE j = n
      BY <1>4, <2>2, <2>6, <3>1, <3>2
    <3>3. CASE j \in DOMAIN up
      BY <2>2, <3>1, <3>3 DEF Spoken, Ordered
    <3> QED
      BY <2>4, <3>2, <3>3
  <2>8. Heard'
    <3> SUFFICES ASSUME reader = "reading", NEW b \in Attempts
                 PROVE  /\ Extends(journal[b], truth'[b])
                        /\ \A i \in DOMAIN up' : Tells(up'[i], b) => Extends(journal[b], up'[i].attempt)
      BY DEF Heard, Tells
    <3>1. Extends(journal[b], truth'[b])
      BY <1>2, ExtendsOn DEF Spoken, Heard
    <3>2. ASSUME NEW i \in DOMAIN up', Tells(up'[i], b) PROVE Extends(journal[b], up'[i].attempt)
      <4>1. CASE i = n
        <5>1. b = a /\ up'[i].attempt = e /\ truth'[b] = e
          BY <1>1, <1>4, <2>2, <3>2, <4>1 DEF Tells
        <5> QED
          BY <3>1, <5>1
      <4>2. CASE i \in DOMAIN up
        BY <2>2, <3>2, <4>2 DEF Spoken, Heard
      <4> QED
        BY <2>4, <4>1, <4>2
    <3> QED
      BY <3>1, <3>2
  <2> QED
    BY <1>1, <1>5, <2>7, <2>8 DEF Spoken
<1>7. CASE link # "up"
  <2>1. up' = up
    BY <1>1, <1>7 DEF Put
  <2>2. Ordered'
    BY <2>1 DEF Spoken, Ordered, Tells
  <2>3. Heard'
    BY <2>1, <1>2, ExtendsOn DEF Spoken, Heard, Tells
  <2> QED
    BY <1>1, <1>5, <2>2, <2>3 DEF Spoken
<1> QED
  BY <1>6, <1>7

(* A reply or an acknowledgement, or nothing at all.                       *)
LEMMA WordSpoken ==
  ASSUME TypeOK, Spoken, UNCHANGED <<truth, journal, reader>>, stop_id_set => stop_id_set',
         \/ up' = up
         \/ \E m \in PlayerFrames :
              /\ up' = Put(up, m)
              /\ m.type = "reply" \/ (m.type = "stopped" /\ m.ours /\ stop_id_set)
  PROVE  Spoken'
<1>1. up \in Seq(Credible) /\ Credible \subseteq Credible'
  BY StaysCredible DEF Spoken, Extends
<1>2. up \in Seq(Credible')
  BY <1>1, Widens
<1>3. CASE up' = up
  BY <1>2, <1>3 DEF Spoken, Ordered, Heard, Tells
<1>4. CASE up' # up
  <2>1. PICK m \in PlayerFrames :
           /\ up' = Put(up, m)
           /\ m.type = "reply" \/ (m.type = "stopped" /\ m.ours /\ stop_id_set)
    BY <1>4
  <2>2. m \in Credible'
    BY <2>1 DEF Credible
  <2>3. up' = Append(up, m)
    BY <1>4, <2>1 DEF Put
  <2> DEFINE n == Len(up) + 1
  <2>4. /\ DOMAIN up = 1 .. Len(up) /\ Len(up) \in Nat
        /\ DOMAIN up' = 1 .. n
        /\ \A i \in DOMAIN up : up'[i] = up[i]
        /\ up'[n] = m /\ up' \in Seq(Credible')
    BY <1>2, <2>2, <2>3, Appended
  <2>5. m.type # "private_attempt"
    BY <2>1
  <2> HIDE DEF n
  <2>6. n = Len(up) + 1
    BY DEF n
  <2>7. \A i \in DOMAIN up' : i \in DOMAIN up \/ i = n
    BY ONLY <2>4, <2>6
  <2>8. Ordered'
    BY <2>4, <2>5, <2>7 DEF Spoken, Ordered, Tells
  <2>9. Heard'
    BY <2>4, <2>5, <2>7 DEF Spoken, Heard, Tells
  <2> QED
    BY <2>4, <2>8, <2>9 DEF Spoken
<1> QED
  BY <1>3, <1>4

(* The stream loses its first frame.                                       *)
LEMMA OrderedOn ==
  ASSUME TypeOK, Spoken, up # << >>, up' = Tail(up)
  PROVE  /\ Ordered'
         /\ Head(up) \in Credible
         /\ up' \in Seq(Credible)
         /\ \A i \in DOMAIN up' :
              /\ i + 1 \in DOMAIN up /\ up'[i] = up[i + 1]
              /\ Tells(Head(up), up'[i].id) /\ Tells(up'[i], up'[i].id) =>
                   Extends(Head(up).attempt, up'[i].attempt)
<1>1. up \in Seq(Credible)
  BY DEF Spoken
<1>2. /\ \A i \in DOMAIN up' : i + 1 \in DOMAIN up /\ up'[i] = up[i + 1]
      /\ Head(up) = up[1] /\ 1 \in DOMAIN up
      /\ DOMAIN up' = 1 .. Len(up) - 1 /\ Len(up) \in Nat
  BY <1>1, Shifted
<1>3. Head(up) \in Credible /\ up' \in Seq(Credible)
  BY <1>1, Streaming
<1>4. \A i, j \in DOMAIN up' : 1 < i + 1 /\ (i < j => i + 1 < j + 1)
  BY ONLY <1>2
<1>5. Ordered'
  BY <1>2, <1>4 DEF Spoken, Ordered, Tells
<1>6. \A i \in DOMAIN up' :
        Tells(Head(up), up'[i].id) /\ Tells(up'[i], up'[i].id) =>
          Extends(Head(up).attempt, up'[i].attempt)
  BY <1>2, <1>4 DEF Spoken, Ordered
<1> QED
  BY <1>2, <1>3, <1>5, <1>6

LEMMA ReaderSpoken ==
  ASSUME TypeOK, Spoken, ReaderStep, UNCHANGED <<player, strays>>
  PROVE  Spoken'
<1>1. truth' = truth /\ phase' = phase
  BY DEF player, ReaderStep, LoseConnection, IgnoreFrame, RejectFrame, AcceptStopped,
     AcceptEvidence, AcceptReply, channel, owner
<1>2. Credible' = Credible
  BY <1>1 DEF Credible, stop_id_set
<1>3. CASE LoseConnection
  BY <1>2, <1>3 DEF LoseConnection, wire, Spoken, Ordered, Heard, Tells
<1>4. ASSUME up # << >>, Receive(Head(up)), reader' = reader => Heard' PROVE Spoken'
  <2>1. Ordered' /\ up' \in Seq(Credible)
    BY <1>4, OrderedOn DEF Receive
  <2>2. reader' # reader => reader' # "reading"
    BY DEF ReaderStep, LoseConnection, IgnoreFrame, RejectFrame, AcceptStopped,
       AcceptEvidence, AcceptReply, channel
  <2> QED
    BY <1>2, <1>4, <2>1, <2>2 DEF Spoken, Heard
<1>5. CASE up # << >> /\ RejectFrame(Head(up))
  BY <1>4, <1>5 DEF RejectFrame, Receive
<1>6. CASE \/ up # << >> /\ IgnoreFrame(Head(up))
           \/ up # << >> /\ AcceptStopped(Head(up))
           \/ up # << >> /\ AcceptReply(Head(up))
  <2>1. Receive(Head(up)) /\ journal' = journal /\ up # << >>
    BY <1>6 DEF IgnoreFrame, AcceptStopped, AcceptReply, channel
  <2>2. \A i \in DOMAIN up' : i + 1 \in DOMAIN up /\ up'[i] = up[i + 1]
    BY <2>1, OrderedOn DEF Receive
  <2>3. Heard'
    BY <1>1, <2>1, <2>2 DEF Receive, Spoken, Heard, Tells
  <2> QED
    BY <1>4, <2>1, <2>3
<1>7. CASE up # << >> /\ AcceptEvidence(Head(up))
  <2> DEFINE m == Head(up)
  <2>1. /\ Receive(m) /\ m.type = "private_attempt" /\ up' = Tail(up) /\ reader = "reading"
        /\ \A a \in Attempts : journal'[a] = IF a = m.id THEN m.attempt ELSE journal[a]
    BY <1>7 DEF AcceptEvidence, Receive, TypeOK, ChannelTypeOK
  <2>2. /\ m \in Credible
        /\ \A i \in DOMAIN up' :
              /\ i + 1 \in DOMAIN up /\ up'[i] = up[i + 1]
              /\ Tells(m, up'[i].id) /\ Tells(up'[i], up'[i].id) =>
                   Extends(m.attempt, up'[i].attempt)
    BY <1>7, <2>1, OrderedOn
  <2> HIDE DEF m
  <2>3. ASSUME NEW a \in Attempts PROVE Extends(journal'[a], truth'[a])
    BY <1>1, <2>1, <2>2 DEF Credible, Spoken, Heard
  <2>4. ASSUME NEW a \in Attempts, NEW i \in DOMAIN up', Tells(up'[i], a)
        PROVE  Extends(journal'[a], up'[i].attempt)
    <3>1. CASE a = m.id
      BY <2>1, <2>2, <2>4, <3>1 DEF Tells
    <3>2. CASE a # m.id
      BY <2>1, <2>2, <2>4, <3>2 DEF Tells, Spoken, Heard
    <3> QED
      BY <3>1, <3>2
  <2>5. Heard'
    BY <2>3, <2>4 DEF Heard, Tells
  <2> QED
    BY <1>4, <1>7, <2>1, <2>5 DEF m
<1> QED
  BY <1>3, <1>5, <1>6, <1>7 DEF ReaderStep

(* The rest of the server leaves the stream and the journal alone.         *)
LEMMA ServerSpoken ==
  ASSUME TypeOK, Spoken, ServerStep, UNCHANGED <<player, strays>>
  PROVE  Spoken'
<1>1. CASE ReaderStep
  BY <1>1, ReaderSpoken
<1>2. CASE ~ReaderStep
  <2>1. /\ UNCHANGED <<up, journal>> /\ (stop_id_set => stop_id_set')
        /\ (reader' = "reading" => reader = "reading")
    BY <1>2 DEF ServerStep, Ask, TakeReply, WindowTimeout, Consume, Expire, StopPlayer,
       DeadlinePasses, OwnerStep, Seal, JoinReader, SendFinal, HangUp, send, wire, window,
       owner, channel, stop_id_set
  <2>2. truth' = truth
    BY DEF player
  <2>3. Credible \subseteq Credible'
    BY <2>1, <2>2, StaysCredible DEF Extends
  <2>4. up \in Seq(Credible')
    BY <2>3, Widens DEF Spoken
  <2> QED
    BY <2>1, <2>2, <2>4 DEF Spoken, Ordered, Heard, Tells
<1> QED
  BY <1>1, <1>2

LEMMA CutSpoken ==
  ASSUME TypeOK, Spoken, Cut, UNCHANGED <<channel, player, strays>>
  PROVE  Spoken'
<1>1. UNCHANGED <<truth, journal, reader, phase>>
  BY DEF player, channel, owner
<1>2. Credible' = Credible
  BY <1>1 DEF Credible, stop_id_set
<1>3. PICK l \in 0 .. Len(up) : up' = SubSeq(up, 1, l)
  BY DEF Cut, Prefixes
<1>4. up \in Seq(Credible) /\ Len(up) \in Nat /\ DOMAIN up = 1 .. Len(up)
  BY LenProperties DEF Spoken
<1>5. \A i \in DOMAIN up' : i \in DOMAIN up /\ up'[i] = up[i]
  BY <1>3, <1>4
<1>6. up' \in Seq(Credible)
  BY <1>4, Streaming DEF Cut
<1> QED
  BY <1>1, <1>2, <1>5, <1>6 DEF Spoken, Ordered, Heard, Tells

(* The requests, from the server to the callback.                          *)
LEMMA Dispatched ==
  ASSUME NEW n \in Nat, NEW q \in Seq(1 .. n), NEW c \in Nat, c <= n, Dispatch(c, q)
  PROVE  backlog' \in Seq(1 .. n) /\ call' <= n
<1>1. q # << >> => Head(q) \in 1 .. n /\ Tail(q) \in Seq(1 .. n)
  BY HeadTailProperties
<1> QED
  BY <1>1 DEF Dispatch

LEMMA PlayerDated ==
  ASSUME TypeOK, PlayerInv, Dated, PlayerStep, UNCHANGED <<channel, strays>>
  PROVE  Dated'
<1>1. active \in Nat /\ call \in Nat /\ UNCHANGED <<active, phase>>
  BY WireAssumption DEF TypeOK, ChannelTypeOK, PlayerTypeOK, channel, window, owner
<1>2. Timely' = Timely /\ stop_id_set' = stop_id_set
  BY <1>1 DEF Timely, stop_id_set
<1>3. ASSUME down # << >> PROVE /\ Head(down) \in Timely /\ Tail(down) \in Seq(Timely)
  BY <1>3, Streaming DEF Dated
<1>4. CASE down # << >> /\ TakeRequest(Head(down))
  <2>1. /\ Head(down).rid \in Rids /\ Head(down).rid <= active /\ backlog \in Seq(1 .. active)
        /\ Dispatch(call, Append(backlog, Head(down).rid)) /\ call <= active
    BY <1>3, <1>4 DEF TakeRequest, Timely, ServerFrames, Requests, Dated
  <2>2. Head(down).rid \in 1 .. active
    BY <1>1, <2>1, WireAssumption DEF Rids
  <2>3. Append(backlog, Head(down).rid) \in Seq(1 .. active)
    BY <2>1, <2>2
  <2>4. backlog' \in Seq(1 .. active) /\ call' <= active
    BY <1>1, <2>1, <2>3, Dispatched
  <2> QED
    BY <1>1, <1>2, <1>3, <1>4, <2>4 DEF TakeRequest, Dated
<1>5. CASE down # << >> /\ (TakeStop(Head(down)) \/ TakeFinal(Head(down)))
  <2>1. /\ down' = Tail(down) /\ UNCHANGED <<call, truth>>
        /\ backlog' \in {backlog, << >>}
    BY <1>5 DEF TakeStop, TakeFinal
  <2>2. stop_id_set
    BY <1>3, <1>5 DEF TakeStop, TakeFinal, Timely, Dated, Rested
  <2>3. down' \in Seq(Timely)
    BY <1>3, <1>5, <2>1
  <2>4. backlog \in Seq(1 .. active) /\ << >> \in Seq(1 .. active)
    BY DEF Dated
  <2> QED
    BY <1>1, <1>2, <2>1, <2>2, <2>3, <2>4 DEF Dated
<1>6. CASE BeginCall \/ ReceiveResponse \/ FinishCall \/ AbandonCall
  <2>1. /\ \E a \in Attempts, e \in Evidence : Telling(a, e)
        /\ UNCHANGED <<down, backlog, call>> /\ loop' \in {loop, "failed"}
    BY <1>6, CallTold DEF PlayerStep
  <2>2. PICK a \in Attempts, e \in Evidence : Telling(a, e)
    BY <2>1
  <2>3. \A b \in Attempts : truth'[b] = IF b = a THEN e ELSE truth[b]
    BY <2>2 DEF Telling, Publish, TypeOK, PlayerTypeOK
  <2> QED
    BY <1>1, <1>2, <2>1, <2>2, <2>3 DEF Dated, Telling, Rested
<1>7. CASE Reply \/ GiveUp
  <2>1. Dispatch(0, backlog) /\ UNCHANGED <<down, loop, truth>>
    BY <1>7 DEF Reply, GiveUp, wire
  <2>2. backlog' \in Seq(1 .. active) /\ call' <= active
    BY <1>1, <2>1, Dispatched DEF Dated
  <2> QED
    BY <1>1, <1>2, <2>1, <2>2 DEF Dated
<1>8. CASE Acknowledge \/ Withhold \/ StopWaiting \/ SeeClose
  BY <1>1, <1>2, <1>8 DEF Acknowledge, Withhold, StopWaiting, SeeClose, wire, Dated, Rested
<1> QED
  BY <1>4, <1>5, <1>6, <1>7, <1>8 DEF PlayerStep

LEMMA ServerDated ==
  ASSUME TypeOK, Dated, ServerStep, UNCHANGED <<player, strays>>
  PROVE  Dated'
<1>1. active \in Nat /\ UNCHANGED <<backlog, call, loop, truth>>
  BY WireAssumption DEF TypeOK, ChannelTypeOK, player
<1>2. call \in Nat /\ \A a \in Attempts : a[1] \in Nat
  BY WireAssumption DEF TypeOK, PlayerTypeOK, Attempts, Rids
<1>3. ASSUME active' \in Nat, active <= active', stop_id_set => stop_id_set',
             \/ down' = down
             \/ \E m \in Timely' : down' = Put(down, m)
      PROVE  Dated'
  <2>1. Timely \subseteq Timely' /\ 1 .. active \subseteq 1 .. active'
    <3>1. \A m \in ServerFrames : m.type = "ask" => m.rid \in Nat
      BY WireAssumption DEF ServerFrames, Requests, Rids
    <3> QED
      BY <1>1, <1>3, <3>1 DEF Timely
  <2>2. down \in Seq(Timely') /\ backlog \in Seq(1 .. active')
    BY <2>1, Widens DEF Dated
  <2>3. down' \in Seq(Timely')
    BY <1>3, <2>2, Streaming
  <2> QED
    BY <1>1, <1>2, <1>3, <2>2, <2>3 DEF Dated
<1>4. ASSUME NEW r \in Rids, Ask(r) PROVE Dated'
  <2>1. active' = r /\ r = active + 1 /\ phase' = phase
    BY <1>4 DEF Ask, owner
  <2>2. [type |-> "ask", rid |-> r] \in Timely'
    BY <1>1, <2>1 DEF Timely, ServerFrames, Requests
  <2> QED
    BY <1>1, <1>3, <1>4, <2>1, <2>2 DEF Ask, send, stop_id_set
<1>5. ASSUME NEW over \in BOOLEAN, StopPlayer(over) PROVE Dated'
  <2>1. active' = active /\ phase' = "stopping"
    BY <1>5 DEF StopPlayer
  <2>2. [type |-> "stop"] \in Timely' /\ stop_id_set'
    BY <2>1 DEF Timely, ServerFrames, stop_id_set
  <2> QED
    BY <1>1, <1>3, <1>5, <2>1, <2>2 DEF StopPlayer, send
<1>6. CASE SendFinal
  <2>1. active' = active /\ phase' = "over"
    BY <1>6 DEF SendFinal, window
  <2>2. [type |-> "final"] \in Timely' /\ stop_id_set'
    BY <2>1 DEF Timely, ServerFrames, stop_id_set
  <2> QED
    BY <1>1, <1>3, <1>6, <2>1, <2>2 DEF SendFinal, send
<1>7. CASE ReaderStep
  <2>1. UNCHANGED <<down, active, phase>>
    BY <1>7 DEF ReaderStep, LoseConnection, IgnoreFrame, RejectFrame, AcceptStopped,
       AcceptEvidence, AcceptReply, Receive, wire, window, owner, channel
  <2> QED
    BY <1>1, <1>3, <2>1 DEF stop_id_set
<1>8. CASE TakeReply \/ WindowTimeout \/ Consume \/ Expire \/ DeadlinePasses \/ Seal
           \/ JoinReader \/ HangUp
  <2>1. /\ UNCHANGED <<down, active>> /\ (stop_id_set => stop_id_set')
    BY <1>8 DEF TakeReply, WindowTimeout, Consume, Expire, DeadlinePasses, Seal, JoinReader,
       HangUp, wire, window, owner, channel, stop_id_set
  <2> QED
    BY <1>1, <1>3, <2>1
<1> QED
  BY <1>4, <1>5, <1>6, <1>7, <1>8 DEF ServerStep, OwnerStep

LEMMA CutDated ==
  ASSUME TypeOK, Dated, Cut, UNCHANGED <<channel, player, strays>>
  PROVE  Dated'
<1>1. UNCHANGED <<active, phase, backlog, call, loop, truth>>
  BY DEF channel, window, owner, player
<1>2. down' \in Seq(Timely)
  BY Streaming DEF Dated, Cut
<1> QED
  BY <1>1, <1>2 DEF Dated, Timely, stop_id_set

LEMMA SpeechNext ==
  ASSUME TypeOK, PlayerInv, SpeechInv, [Next]_vars PROVE SpeechInv'
<1> SUFFICES ASSUME policy # "foreign", policy' = policy PROVE Dated' /\ Spoken'
  <2>1. policy' = policy
    BY PlayerSteps DEF Next, vars, player, Stray
  <2> QED
    BY <2>1 DEF SpeechInv
<1>1. Dated /\ Spoken
  BY DEF SpeechInv
<1>2. CASE UNCHANGED vars
  <2>1. Credible' = Credible /\ Timely' = Timely
    BY <1>2 DEF vars, wire, channel, window, owner, player, Credible, Timely, stop_id_set
  <2> QED
    BY <1>1, <1>2, <2>1
    DEF vars, wire, channel, window, owner, player, Dated, Spoken, Ordered, Heard, Tells, stop_id_set
<1>3. CASE ServerStep /\ UNCHANGED <<player, strays>>
  BY <1>1, <1>3, ServerDated, ServerSpoken
<1>4. CASE Cut /\ UNCHANGED <<channel, player, strays>>
  BY <1>1, <1>4, CutDated, CutSpoken
<1>5. CASE PlayerStep /\ UNCHANGED <<channel, strays>>
  <2>1. UNCHANGED <<journal, reader, phase>> /\ Dated'
    BY <1>1, <1>5, PlayerDated DEF channel, owner
  <2>2. loop = "stopping" => stop_id_set
    BY <1>1 DEF Dated
  <2>3. CASE BeginCall \/ ReceiveResponse \/ FinishCall \/ AbandonCall
    <3>1. \E a \in Attempts, e \in Evidence : Telling(a, e)
      BY <2>3, CallTold
    <3> QED
      BY <1>1, <2>1, <3>1, EvidenceSpoken
  <2>4. CASE ~ (BeginCall \/ ReceiveResponse \/ FinishCall \/ AbandonCall)
    <3>1. /\ truth' = truth
          /\ \/ up' = up
             \/ \E m \in PlayerFrames :
                  /\ up' = Put(up, m)
                  /\ m.type = "reply" \/ (m.type = "stopped" /\ m.ours /\ loop = "stopping")
      BY <1>5, <2>4, PlayerActs
    <3>2. stop_id_set => stop_id_set'
      BY <2>1 DEF stop_id_set
    <3> QED
      BY <1>1, <2>1, <2>2, <3>1, <3>2, WordSpoken
  <2> QED
    BY <2>3, <2>4
<1> QED
  BY <1>2, <1>3, <1>4, <1>5 DEF Next, Stray

LEMMA Speaking ==
  Spec => [](TypeOK /\ PlayerInv /\ StreamInv /\ SpeechInv /\ Clocked)
<1>1. Init => SpeechInv /\ Clocked
  BY SpeechStarts DEF Init, ChannelInit, Clocked
<1>2. TypeOK /\ PlayerInv /\ SpeechInv /\ Clocked /\ [Next]_vars => SpeechInv' /\ Clocked'
  BY SpeechNext, ClockedStep
<1> QED
  BY <1>1, <1>2, Settling, PTL DEF Spec

Excuse ==
  \/ clock = "past"
  \/ \E a \in Attempts : journal[a] = "unjoined"
  \/ \E a \in Attempts : a[1] < active /\ journal[a] = "none" /\ truth[a] # "none"

(* An acknowledgement turned away is late, or over an unjoined reader.     *)
LEMMA AckTurnedAway ==
  ASSUME TypeOK, PlayerInv, StreamInv, SpeechInv, Clocked, policy # "foreign",
         up # << >>, reader = "reading", ~sealed,
         Head(up).type = "stopped", StoppedRejected(Head(up))
  PROVE  Excuse
<1>1. Numbered /\ OneInFlight /\ Resting /\ AckLast /\ Faithful /\ Whole /\ Spoken
  BY DEF PlayerInv, StreamInv, SpeechInv
<1>2. /\ up \in Seq(PlayerFrames) /\ 1 \in DOMAIN up /\ DOMAIN up = 1 .. Len(up)
      /\ up[1].type = "stopped" /\ Head(up) = up[1]
  BY Shifted DEF TypeOK, WireTypeOK
<1>3. Head(up).ours /\ stop_id_set /\ ~stopped
  <2>1. Head(up) \in Credible
    BY <1>1, Streaming DEF Spoken
  <2> QED
    BY <1>1, <2>1 DEF Credible, Whole
<1>4. Len(up) = 1 /\ loop \in Rested
  BY <1>1, <1>2 DEF AckLast
<1>5. AckSent /\ \A i \in DOMAIN up : up[i].type = "stopped"
  BY <1>2, <1>4 DEF AckSent
<1>6. \A a \in Attempts : journal[a] = truth[a]
  BY <1>1, <1>3, <1>5 DEF Faithful, Agreed, Tells
<1>7. \A a \in Attempts : truth[a] \notin InFlight
  BY <1>1, <1>4, IdleCall DEF Resting, OneInFlight
<1> QED
  BY <1>3, <1>6, <1>7 DEF StoppedRejected, Excuse, Unsettled, InFlight

(* Evidence turned away is of a call that began too late.                  *)
LEMMA EvidenceTurnedAway ==
  ASSUME TypeOK, SpeechInv, policy # "foreign", up # << >>, reader = "reading",
         Head(up).type = "private_attempt", EvidenceRejected(Head(up))
  PROVE  Excuse
<1> DEFINE a == Head(up).id
<1>1. Dated /\ Spoken
  BY DEF SpeechInv
<1>2. up \in Seq(Credible) /\ Head(up) \in Credible /\ 1 \in DOMAIN up /\ Head(up) = up[1]
  BY <1>1, Streaming, Shifted DEF Spoken
<1>3. a \in Attempts /\ truth[a] # "none"
  BY <1>2 DEF Credible, PlayerFrames, Replies, Publications, Acks
<1>4. Extends(journal[a], Head(up).attempt)
  BY <1>1, <1>2, <1>3 DEF Spoken, Heard, Tells
<1>5. a[1] # active /\ journal[a] = "none"
  BY <1>4 DEF EvidenceRejected
<1>6. a[1] <= active /\ a[1] \in Nat /\ active \in Nat
  BY <1>1, <1>3, WireAssumption DEF Dated, TypeOK, ChannelTypeOK, Attempts, Rids
<1>7. a[1] < active
  BY <1>5, <1>6
<1> HIDE DEF a
<1> QED
  BY <1>3, <1>5, <1>7 DEF Excuse

(* What a reader broke over stays.                                         *)
LEMMA ExcuseStays ==
  ASSUME TypeOK, PlayerInv, Clocked, SpeechInv, policy # "foreign", [Next]_vars,
         Excuse, UNCHANGED journal
  PROVE  Excuse'
<1>1. clock = "past" => clock' = "past"
  <2>1. ServerStep => clock' = clock \/ clock' = "past" \/ clock = "unset"
    BY DEF ServerStep, ReaderStep, IgnoreFrame, RejectFrame, AcceptStopped, AcceptEvidence,
       AcceptReply, LoseConnection, Ask, TakeReply, WindowTimeout, Consume, Expire, StopPlayer,
       DeadlinePasses, OwnerStep, Seal, JoinReader, SendFinal, HangUp, channel, owner, Clocked
  <2> QED
    BY <2>1 DEF Next, Stray, vars, channel, owner
<1>2. active \in Nat /\ active' \in Nat /\ active <= active'
  <2>1. active \in Nat
    BY WireAssumption DEF TypeOK, ChannelTypeOK
  <2>2. ServerStep => active' = active \/ active' = active + 1
    BY DEF ServerStep, ReaderStep, IgnoreFrame, RejectFrame, AcceptStopped, AcceptEvidence,
       AcceptReply, LoseConnection, Ask, TakeReply, WindowTimeout, Consume, Expire, StopPlayer,
       DeadlinePasses, OwnerStep, Seal, JoinReader, SendFinal, HangUp, channel, window
  <2>3. active' = active \/ active' = active + 1
    BY <2>2 DEF Next, Stray, vars, channel, window
  <2> QED
    BY <2>1, <2>3
<1>3. \A a \in Attempts : truth[a] # "none" => truth'[a] # "none"
  <2>1. CASE PlayerStep /\ (BeginCall \/ ReceiveResponse \/ FinishCall \/ AbandonCall)
    <3>1. PICK a \in Attempts, e \in Evidence : Telling(a, e)
      BY <2>1, CallTold
    <3>2. \A b \in Attempts : truth'[b] = IF b = a THEN e ELSE truth[b]
      BY <3>1 DEF Telling, Publish, TypeOK, PlayerTypeOK
    <3> QED
      BY <3>2 DEF Evidence, Finished
  <2>2. CASE PlayerStep /\ ~ (BeginCall \/ ReceiveResponse \/ FinishCall \/ AbandonCall)
    BY <2>2, PlayerActs
  <2>3. CASE ~PlayerStep
    BY <2>3 DEF Next, Stray, vars, player
  <2> QED
    BY <2>1, <2>2, <2>3
<1>4. \A a \in Attempts : a[1] \in Nat
  BY WireAssumption DEF Attempts, Rids
<1> QED
  BY <1>1, <1>2, <1>3, <1>4 DEF Excuse

(* An SDK player's connection breaks only over a call begun too late, an   *)
(* acknowledgement past the deadline or a transport that would not close,  *)
(* for any number of windows and calls and however its frames are delayed  *)
(* (channel.py:101-183).                                                   *)
THEOREM OnlyLatenessBreaks == Spec => []BreaksLate
<1>1. Init => BreaksLate
  BY DEF Init, ChannelInit, BreaksLate
<1>2. ASSUME TypeOK, PlayerInv, StreamInv, SpeechInv, Clocked, BreaksLate, [Next]_vars
      PROVE  BreaksLate'
  <2> SUFFICES ASSUME policy # "foreign", reader' = "broken" PROVE Excuse'
    <3>1. policy' = policy
      BY <1>2, PlayerSteps DEF Next, vars, player, Stray
    <3> QED
      BY <3>1 DEF BreaksLate, Excuse
  <2>1. CASE reader = "broken"
    <3>1. Excuse
      BY <1>2, <2>1 DEF BreaksLate, Excuse
    <3>2. UNCHANGED journal
      BY <1>2, <2>1, EvidenceStep DEF AcceptStopped, AcceptEvidence, Receive
    <3> QED
      BY <1>2, <3>1, <3>2, ExcuseStays
  <2>2. CASE reader # "broken"
    <3>1. up # << >> /\ RejectFrame(Head(up))
      <4>1. ServerStep => (up # << >> /\ RejectFrame(Head(up))) \/ reader' # "broken"
        BY <2>2 DEF ServerStep, ReaderStep, IgnoreFrame, AcceptStopped, AcceptEvidence,
           AcceptReply, LoseConnection, Ask, TakeReply, WindowTimeout, Consume, Expire,
           StopPlayer, DeadlinePasses, OwnerStep, Seal, JoinReader, SendFinal, HangUp, channel
      <4> QED
        BY <1>2, <2>2, <4>1 DEF Next, Stray, vars, channel
    <3>2. /\ reader = "reading" /\ ~sealed /\ Rejected(Head(up)) /\ UNCHANGED journal
      BY <3>1 DEF RejectFrame, Receive
    <3>3. ~ (Head(up).type # "stopped" /\ stopped)
      BY <1>2, <3>1 DEF StreamInv, Whole
    <3>4. Excuse
      BY <1>2, <3>1, <3>2, <3>3, AckTurnedAway, EvidenceTurnedAway DEF Rejected
    <3> QED
      BY <1>2, <3>2, <3>4, ExcuseStays
  <2> QED
    BY <2>1, <2>2
<1> QED
  BY <1>1, <1>2, Speaking, PTL DEF Spec
=============================================================================
