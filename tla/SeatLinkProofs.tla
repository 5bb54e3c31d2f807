--------------------------- MODULE SeatLinkProofs ---------------------------
(***************************************************************************)
(* Proofs about one seat's connection, for any number of windows, of       *)
(* native calls and of stray frames, and for every policy: what the server *)
(* promises whatever the player sends.                                     *)
(***************************************************************************)
EXTENDS SeatLink, FiniteSetTheorems, SequenceTheorems, TLAPS

-----------------------------------------------------------------------------
(* Streams and calls.                                                      *)

(* What the wire does to a stream of frames keeps it one.                  *)
LEMMA Streaming ==
  ASSUME NEW S, NEW q \in Seq(S)
  PROVE  /\ q # << >> => Head(q) \in S /\ Tail(q) \in Seq(S)
         /\ \A m \in S : Append(q, m) \in Seq(S) /\ Put(q, m) \in Seq(S)
         /\ \A p \in Prefixes(q) : p \in Seq(S)
<1>1. q # << >> => Head(q) \in S /\ Tail(q) \in Seq(S)
  BY HeadTailProperties
<1>2. \A m \in S : Append(q, m) \in Seq(S) /\ Put(q, m) \in Seq(S)
  BY DEF Put
<1>3. ASSUME NEW p \in Prefixes(q) PROVE p \in Seq(S)
  <2>1. PICK l \in 0 .. Len(q) : p = SubSeq(q, 1, l)
    BY DEF Prefixes
  <2>2. \A i \in 1 .. l : q[i] \in S
    BY ElementOfSeq, LenProperties
  <2> QED
    BY <2>1, <2>2, SubSeqProperties
<1> QED
  BY <1>1, <1>2, <1>3

LEMMA BegunFinite ==
  /\ IsFiniteSet(Begun) /\ Cardinality(Begun) \in 0 .. Calls
  /\ Begun # {} => Cardinality(Begun) # 0
<1>1. Calls \in Nat
  BY WireAssumption
<1>2. IsFiniteSet(1 .. Calls) /\ Cardinality(1 .. Calls) = Calls
  BY <1>1, FS_Interval
<1>3. Begun \in SUBSET (1 .. Calls)
  BY DEF Begun
<1>4. IsFiniteSet(Begun) /\ Cardinality(Begun) <= Calls
  BY <1>2, <1>3, FS_Subset
<1>5. Cardinality(Begun) \in Nat
  BY <1>4, FS_CardinalityType
<1> QED
  BY <1>1, <1>4, <1>5, FS_EmptySet

(* The call in flight is one of the attempts.                              *)
LEMMA LatestIsAttempt ==
  ASSUME call \in 0 .. Windows, fate \in InFlight
  PROVE  latest \in Attempts
<1>1. Begun # {}
  BY DEF fate, InFlight
<1>2. call # 0
  BY <1>1 DEF Begun
<1>3. Windows \in Nat /\ Calls \in Nat
  BY WireAssumption
<1> QED
  BY <1>1, <1>2, <1>3, BegunFinite DEF latest, Attempts, Rids

LEMMA FreshIsAttempt ==
  ASSUME call \in 0 .. Windows, call # 0, Cardinality(Begun) < Calls
  PROVE  <<call, Cardinality(Begun) + 1>> \in Attempts
<1>1. Windows \in Nat /\ Calls \in Nat
  BY WireAssumption
<1> QED
  BY <1>1, BegunFinite DEF Attempts, Rids

-----------------------------------------------------------------------------
(* Types.                                                                  *)

LEMMA TypesInit == Init => TypeOK
<1> SUFFICES ASSUME Init PROVE TypeOK
  OBVIOUS
<1>1. Windows \in Nat /\ Strays \in Nat
  BY WireAssumption, StraysAssumption
<1>2. WireTypeOK
  BY DEF Init, WireInit, WireTypeOK
<1>3. ChannelTypeOK
  <2>1. << >> \in Seq(Rids) /\ 0 \in 0 .. Windows
    BY <1>1
  <2>2. [r \in Rids |-> "unasked"] \in [Rids -> Outcomes]
    BY DEF Outcomes
  <2>3. [a \in Attempts |-> "none"] \in [Attempts -> {"none"} \cup Evidence]
    OBVIOUS
  <2> QED
    BY <2>1, <2>2, <2>3 DEF Init, ChannelInit, ChannelTypeOK
<1>4. CaptureTypeOK
  BY DEF Init, CaptureInit, CaptureTypeOK
<1>5. PlayerTypeOK
  BY <1>1 DEF Init, PlayerInit, PlayerTypeOK
<1> QED
  BY <1>1, <1>2, <1>3, <1>4, <1>5 DEF Init, TypeOK

LEMMA ReaderTypes ==
  ASSUME TypeOK, ReaderStep, UNCHANGED <<player, strays>>
  PROVE  TypeOK'
<1>1. up # << >> => Head(up) \in PlayerFrames /\ Tail(up) \in Seq(PlayerFrames)
  BY Streaming DEF TypeOK, WireTypeOK
<1>2. Strays \in Nat
  BY StraysAssumption
<1>3. CASE LoseConnection
  <2>1. ChannelTypeOK'
    BY <1>3 DEF LoseConnection, TypeOK, ChannelTypeOK, window, owner
  <2> QED
    BY <1>3, <2>1 DEF LoseConnection, TypeOK, WireTypeOK, CaptureTypeOK, PlayerTypeOK, wire,
       capture, player
<1>4. CASE up # << >> /\ IgnoreFrame(Head(up))
  BY <1>1, <1>4 DEF IgnoreFrame, Receive, TypeOK, WireTypeOK, ChannelTypeOK, CaptureTypeOK,
     PlayerTypeOK, channel, window, owner, capture, player
<1>5. CASE up # << >> /\ RejectFrame(Head(up))
  BY <1>1, <1>5 DEF RejectFrame, Receive, TypeOK, WireTypeOK, ChannelTypeOK, CaptureTypeOK,
     PlayerTypeOK, window, owner, capture, player
<1>6. CASE up # << >> /\ AcceptStopped(Head(up))
  BY <1>1, <1>6 DEF AcceptStopped, Receive, TypeOK, WireTypeOK, ChannelTypeOK, CaptureTypeOK,
     PlayerTypeOK, window, owner, capture, player
<1>7. CASE up # << >> /\ AcceptEvidence(Head(up))
  <2>1. Head(up) \in Publications
    BY <1>1, <1>7 DEF AcceptEvidence, PlayerFrames, Replies, Acks
  <2>2. Head(up).id \in Attempts /\ Head(up).attempt \in Evidence
    BY <2>1 DEF Publications
  <2>3. journal' \in [Attempts -> {"none"} \cup Evidence]
    BY <1>7, <2>2 DEF AcceptEvidence, TypeOK, ChannelTypeOK
  <2>4. CaptureTypeOK'
    BY <1>7, <2>2 DEF AcceptEvidence, receive, Issue, Issues, TypeOK, CaptureTypeOK
  <2> QED
    BY <1>1, <1>7, <2>3, <2>4 DEF AcceptEvidence, Receive, TypeOK, WireTypeOK, ChannelTypeOK,
       PlayerTypeOK, window, owner, player
<1>8. CASE up # << >> /\ AcceptReply(Head(up))
  <2>1. Head(up) \in Replies
    BY <1>1, <1>8 DEF AcceptReply, PlayerFrames, Publications, Acks
  <2>2. Head(up).rid \in Rids
    BY <2>1 DEF Replies
  <2>3. queue' \in Seq(Rids)
    BY <1>8, <2>2, Streaming DEF AcceptReply, TypeOK, ChannelTypeOK
  <2> QED
    BY <1>1, <1>8, <2>3 DEF AcceptReply, Receive, TypeOK, WireTypeOK, ChannelTypeOK,
       CaptureTypeOK, PlayerTypeOK, owner, capture, player
<1> QED
  BY <1>3, <1>4, <1>5, <1>6, <1>7, <1>8 DEF ReaderStep

LEMMA SendTypes ==
  ASSUME TypeOK, NEW m \in ServerFrames, send(m)
  PROVE  WireTypeOK' /\ connected' \in BOOLEAN
<1>1. Put(down, m) \in Seq(ServerFrames)
  BY Streaming DEF TypeOK, WireTypeOK
<1> QED
  BY <1>1 DEF send, TypeOK, WireTypeOK, ChannelTypeOK

LEMMA EpisodeTypes ==
  ASSUME TypeOK, UNCHANGED <<player, strays>>,
         \/ \E r \in Rids : Ask(r)
         \/ TakeReply \/ WindowTimeout \/ Consume \/ Expire
         \/ \E over \in BOOLEAN : StopPlayer(over)
         \/ DeadlinePasses
  PROVE  TypeOK'
<1>1. Windows \in Nat /\ Strays \in Nat
  BY WireAssumption, StraysAssumption
<1>2. ASSUME NEW r \in Rids, Ask(r) PROVE TypeOK'
  <2>1. [type |-> "ask", rid |-> r] \in ServerFrames
    BY <1>2 DEF ServerFrames, Requests
  <2>2. WireTypeOK' /\ connected' \in BOOLEAN
    BY <1>2, <2>1, SendTypes DEF Ask
  <2>3. CaptureTypeOK'
    BY <1>2 DEF Ask, delivered, TypeOK, CaptureTypeOK
  <2>4. ChannelTypeOK'
    BY <1>1, <1>2, <2>2 DEF Ask, TypeOK, ChannelTypeOK, Rids, owner, Outcomes
  <2> QED
    BY <2>2, <2>3, <2>4 DEF TypeOK, PlayerTypeOK, player
<1>3. CASE TakeReply
  <2>1. queue' \in Seq(Rids) /\ Head(queue) \in Rids
    BY <1>3, Streaming DEF TakeReply, TypeOK, ChannelTypeOK
  <2>2. answer' \in [Rids -> Outcomes] /\ waiting' \in 0 .. Windows
    BY <1>1, <1>3 DEF TakeReply, TypeOK, ChannelTypeOK, Outcomes
  <2> QED
    BY <1>3, <2>1, <2>2 DEF TakeReply, TypeOK, WireTypeOK, ChannelTypeOK, CaptureTypeOK,
       PlayerTypeOK, wire, owner, capture, player
<1>4. CASE WindowTimeout
  <2>1. answer' \in [Rids -> Outcomes] /\ waiting' \in 0 .. Windows
    <3>1. answer \in [Rids -> Outcomes] /\ "default" \in Outcomes
      BY DEF TypeOK, ChannelTypeOK, Outcomes
    <3>2. answer' = [answer EXCEPT ![waiting] = "default"] /\ waiting' = 0
      BY <1>4 DEF WindowTimeout
    <3>3. answer' \in [Rids -> Outcomes]
      BY <3>1, <3>2
    <3> QED
      BY <1>1, <3>2, <3>3
  <2>2. ChannelTypeOK'
    BY <1>4, <2>1 DEF WindowTimeout, TypeOK, ChannelTypeOK, owner
  <2> QED
    BY <1>4, <2>2 DEF WindowTimeout, TypeOK, WireTypeOK, CaptureTypeOK, PlayerTypeOK, wire,
       capture, player
<1>5. CASE Consume
  <2>1. active \in Rids
    BY <1>1, <1>5 DEF Consume, Idle, TypeOK, ChannelTypeOK, Rids
  <2> QED
    BY <1>5, <2>1 DEF Consume, consumed, TypeOK, WireTypeOK, ChannelTypeOK, CaptureTypeOK,
       PlayerTypeOK, wire, window, owner, player
<1>6. CASE Expire
  BY <1>6 DEF Expire, WindowExpires, TypeOK, WireTypeOK, ChannelTypeOK, CaptureTypeOK,
     PlayerTypeOK, wire, window, owner, player
<1>7. ASSUME NEW over \in BOOLEAN, StopPlayer(over) PROVE TypeOK'
  <2>1. WireTypeOK' /\ connected' \in BOOLEAN
    BY <1>7, SendTypes DEF StopPlayer, ServerFrames
  <2>2. ChannelTypeOK'
    BY <1>1, <1>7, <2>1 DEF StopPlayer, TypeOK, ChannelTypeOK, Outcomes
  <2> QED
    BY <1>7, <2>1, <2>2 DEF StopPlayer, TypeOK, CaptureTypeOK, PlayerTypeOK, capture, player
<1>8. CASE DeadlinePasses
  BY <1>8 DEF DeadlinePasses, TypeOK, WireTypeOK, ChannelTypeOK, CaptureTypeOK, PlayerTypeOK,
     wire, window, capture, player
<1> QED
  BY <1>2, <1>3, <1>4, <1>5, <1>6, <1>7, <1>8

LEMMA OwnerTypes ==
  ASSUME TypeOK, OwnerStep, UNCHANGED <<player, strays>>
  PROVE  TypeOK'
<1>1. CASE Seal
  BY <1>1 DEF Seal, TypeOK, WireTypeOK, ChannelTypeOK, CaptureTypeOK, PlayerTypeOK, wire,
     window, capture, player
<1>2. CASE JoinReader
  BY <1>2 DEF JoinReader, finish, TypeOK, WireTypeOK, ChannelTypeOK, CaptureTypeOK,
     PlayerTypeOK, wire, window, player
<1>3. CASE SendFinal
  <2>1. WireTypeOK' /\ connected' \in BOOLEAN
    BY <1>3, SendTypes DEF SendFinal, ServerFrames
  <2> QED
    BY <1>3, <2>1 DEF SendFinal, TypeOK, ChannelTypeOK, CaptureTypeOK, PlayerTypeOK, window,
       capture, player
<1>4. CASE HangUp
  BY <1>4 DEF HangUp, TypeOK, WireTypeOK, ChannelTypeOK, CaptureTypeOK, PlayerTypeOK,
     channel, window, owner, capture, player
<1> QED
  BY <1>1, <1>2, <1>3, <1>4 DEF OwnerStep

(* The loop starts the oldest waiting request.                             *)
LEMMA DispatchTypes ==
  ASSUME NEW running \in 0 .. Windows, NEW waitlist \in Seq(Rids), Dispatch(running, waitlist)
  PROVE  call' \in 0 .. Windows /\ backlog' \in Seq(Rids)
<1>1. Rids \subseteq 0 .. Windows
  BY WireAssumption DEF Rids
<1> QED
  BY <1>1, Streaming DEF Dispatch

LEMMA PublishTypes ==
  ASSUME TypeOK, NEW a \in Attempts, NEW e \in Evidence, Publish(a, e)
  PROVE  up' \in Seq(PlayerFrames) /\ truth' \in [Attempts -> {"none"} \cup Evidence]
<1>1. [type |-> "private_attempt", id |-> a, attempt |-> e] \in PlayerFrames
  BY DEF PlayerFrames, Publications
<1> QED
  BY <1>1, Streaming DEF Publish, TypeOK, WireTypeOK, PlayerTypeOK

LEMMA CallTypes ==
  ASSUME TypeOK, BeginCall \/ ReceiveResponse \/ FinishCall \/ AbandonCall,
         UNCHANGED <<channel, strays>>
  PROVE  TypeOK'
<1>1. call \in 0 .. Windows
  BY DEF TypeOK, PlayerTypeOK
<1>2. up' \in Seq(PlayerFrames) /\ truth' \in [Attempts -> {"none"} \cup Evidence]
  <2>1. CASE BeginCall
    <3>1. <<call, Cardinality(Begun) + 1>> \in Attempts
      BY <1>1, <2>1, FreshIsAttempt DEF BeginCall
    <3> QED
      BY <2>1, <3>1, PublishTypes DEF BeginCall, Evidence
  <2>2. CASE ReceiveResponse \/ FinishCall \/ AbandonCall
    <3>1. latest \in Attempts
      BY <1>1, <2>2, LatestIsAttempt DEF ReceiveResponse, FinishCall, AbandonCall, InFlight
    <3>2. PICK e \in Evidence : Publish(latest, e)
      BY <2>2 DEF ReceiveResponse, FinishCall, AbandonCall, Evidence, Finished
    <3> QED
      BY <3>1, <3>2, PublishTypes
  <2> QED
    BY <2>1, <2>2
<1>3. WireTypeOK'
  BY <1>2 DEF BeginCall, ReceiveResponse, FinishCall, AbandonCall, TypeOK, WireTypeOK
<1>4. PlayerTypeOK'
  BY <1>2 DEF BeginCall, ReceiveResponse, FinishCall, AbandonCall, TypeOK, PlayerTypeOK, Exited
<1> QED
  BY <1>3, <1>4 DEF TypeOK, ChannelTypeOK, CaptureTypeOK, channel, window, owner, capture

LEMMA LoopTypes ==
  ASSUME TypeOK, UNCHANGED <<channel, strays>>,
         \/ /\ down # << >>
            /\ TakeRequest(Head(down)) \/ TakeStop(Head(down)) \/ TakeFinal(Head(down))
         \/ Reply \/ GiveUp \/ Acknowledge \/ Withhold \/ StopWaiting \/ SeeClose
  PROVE  TypeOK'
<1>1. Windows \in Nat
  BY WireAssumption
<1>2. down # << >> => Head(down) \in ServerFrames /\ Tail(down) \in Seq(ServerFrames)
  BY Streaming DEF TypeOK, WireTypeOK
<1>3. WireTypeOK' /\ PlayerTypeOK'
  <2>1. CASE down # << >> /\ TakeRequest(Head(down))
    <3>1. Head(down) \in Requests
      BY <1>2, <2>1 DEF TakeRequest, ServerFrames
    <3>2. Head(down).rid \in Rids
      BY <3>1 DEF Requests
    <3>3. Append(backlog, Head(down).rid) \in Seq(Rids) /\ call \in 0 .. Windows
      BY <3>2, Streaming DEF TypeOK, PlayerTypeOK
    <3>4. call' \in 0 .. Windows /\ backlog' \in Seq(Rids)
      BY <2>1, <3>3, DispatchTypes DEF TakeRequest
    <3> QED
      BY <1>2, <2>1, <3>4 DEF TakeRequest, TypeOK, WireTypeOK, PlayerTypeOK
  <2>2. CASE down # << >> /\ TakeStop(Head(down))
    <3>1. WireTypeOK'
      BY <1>2, <2>2 DEF TakeStop, TypeOK, WireTypeOK
    <3>2. << >> \in Seq(Rids)
      OBVIOUS
    <3> QED
      BY <2>2, <3>1, <3>2 DEF TakeStop, TypeOK, PlayerTypeOK
  <2>7. CASE down # << >> /\ TakeFinal(Head(down))
    <3>1. WireTypeOK'
      BY <1>2, <2>7 DEF TakeFinal, TypeOK, WireTypeOK
    <3> QED
      BY <2>7, <3>1 DEF TakeFinal, TypeOK, PlayerTypeOK, Exited
  <2>3. CASE Reply
    <3>1. call \in Rids
      BY <1>1, <2>3 DEF Reply, TypeOK, PlayerTypeOK, Rids
    <3>2. [type |-> "reply", rid |-> call] \in PlayerFrames
      BY <3>1 DEF PlayerFrames, Replies
    <3>3. up' \in Seq(PlayerFrames)
      BY <2>3, <3>2, Streaming DEF Reply, TypeOK, WireTypeOK
    <3>4. call' \in 0 .. Windows /\ backlog' \in Seq(Rids)
      BY <1>1, <2>3, DispatchTypes DEF Reply, TypeOK, PlayerTypeOK
    <3> QED
      BY <2>3, <3>1, <3>3, <3>4 DEF Reply, TypeOK, WireTypeOK, PlayerTypeOK
  <2>4. CASE GiveUp
    <3>1. call' \in 0 .. Windows /\ backlog' \in Seq(Rids)
      BY <1>1, <2>4, DispatchTypes DEF GiveUp, TypeOK, PlayerTypeOK
    <3> QED
      BY <2>4, <3>1 DEF GiveUp, TypeOK, WireTypeOK, PlayerTypeOK, wire
  <2>5. CASE Acknowledge
    <3>1. [type |-> "stopped", ours |-> TRUE] \in PlayerFrames
      BY DEF PlayerFrames, Acks
    <3>2. up' \in Seq(PlayerFrames)
      BY <2>5, <3>1, Streaming DEF Acknowledge, TypeOK, WireTypeOK
    <3> QED
      BY <1>1, <2>5, <3>2 DEF Acknowledge, TypeOK, WireTypeOK, PlayerTypeOK
  <2>6. CASE Withhold \/ StopWaiting \/ SeeClose
    BY <2>6 DEF Withhold, StopWaiting, SeeClose, TypeOK, WireTypeOK, PlayerTypeOK, Exited, wire
  <2> QED
    BY <2>1, <2>2, <2>3, <2>4, <2>5, <2>6, <2>7
<1> QED
  BY <1>3 DEF TypeOK, ChannelTypeOK, CaptureTypeOK, channel, window, owner, capture

LEMMA TypesStep == TypeOK /\ [Next]_vars => TypeOK'
<1> SUFFICES ASSUME TypeOK, [Next]_vars PROVE TypeOK'
  OBVIOUS
<1>1. CASE ServerStep /\ UNCHANGED <<player, strays>>
  BY <1>1, ReaderTypes, EpisodeTypes, OwnerTypes DEF ServerStep
<1>2. CASE PlayerStep /\ UNCHANGED <<channel, strays>>
  BY <1>2, CallTypes, LoopTypes DEF PlayerStep
<1>3. ASSUME NEW m \in PlayerFrames, Stray(m) PROVE TypeOK'
  <2>1. up' \in Seq(PlayerFrames)
    BY <1>3, Streaming DEF Stray, TypeOK, WireTypeOK
  <2>2. replied' \subseteq Rids
    BY <1>3 DEF Stray, TypeOK, PlayerTypeOK, PlayerFrames, Replies, Publications, Acks
  <2>3. strays' \in 0 .. Strays
    BY <1>3, StraysAssumption DEF Stray, TypeOK
  <2> QED
    BY <1>3, <2>1, <2>2, <2>3 DEF Stray, TypeOK, WireTypeOK, ChannelTypeOK, CaptureTypeOK,
       PlayerTypeOK, channel, window, owner, capture
<1>4. CASE Cut /\ UNCHANGED <<channel, player, strays>>
  <2>1. up' \in Seq(PlayerFrames) /\ down' \in Seq(ServerFrames)
    BY <1>4, Streaming DEF Cut, TypeOK, WireTypeOK
  <2> QED
    BY <1>4, <2>1 DEF Cut, TypeOK, WireTypeOK, ChannelTypeOK, CaptureTypeOK, PlayerTypeOK,
       channel, window, owner, capture, player
<1>5. CASE UNCHANGED vars
  BY <1>5 DEF vars, TypeOK, WireTypeOK, ChannelTypeOK, CaptureTypeOK, PlayerTypeOK, wire,
     channel, window, owner, capture, player
<1> QED
  BY <1>1, <1>2, <1>3, <1>4, <1>5 DEF Next

(* Whatever the player sends, and with any number of windows and calls,    *)
(* both ends of a connection keep their types.                             *)
THEOREM ConnectionTyped == Spec => []TypeOK
BY TypesInit, TypesStep, PTL DEF Spec

-----------------------------------------------------------------------------
(* The two journals.                                                       *)

(* Only an accepted frame touches the evidence or the acknowledgement.     *)
LEMMA EvidenceStep ==
  ASSUME TypeOK, [Next]_vars
  PROVE  \/ UNCHANGED <<journal, kept, issues, stopped>>
         \/ up # << >> /\ AcceptStopped(Head(up))
         \/ up # << >> /\ AcceptEvidence(Head(up))
<1>1. CASE ServerStep
  <2>1. CASE ReaderStep
    BY <2>1 DEF ReaderStep, LoseConnection, IgnoreFrame, RejectFrame, AcceptReply, channel, capture
  <2>2. ASSUME NEW r \in Rids, Ask(r) PROVE UNCHANGED <<journal, kept, issues, stopped>>
    BY <2>2 DEF Ask, delivered
  <2>3. CASE TakeReply \/ WindowTimeout \/ Consume \/ Expire
    BY <2>3 DEF TakeReply, WindowTimeout, Consume, consumed, Expire, WindowExpires, capture
  <2>4. ASSUME NEW over \in BOOLEAN, StopPlayer(over)
        PROVE  UNCHANGED <<journal, kept, issues, stopped>>
    BY <2>4 DEF StopPlayer, capture
  <2>5. CASE DeadlinePasses \/ OwnerStep
    BY <2>5 DEF DeadlinePasses, OwnerStep, Seal, JoinReader, finish, SendFinal, HangUp, channel,
       capture
  <2> QED
    BY <1>1, <2>1, <2>2, <2>3, <2>4, <2>5 DEF ServerStep
<1>2. CASE UNCHANGED channel
  BY <1>2 DEF channel, capture
<1> QED
  BY <1>1, <1>2 DEF Next, Stray, Cut, vars

LEMMA AcceptedAttempt ==
  ASSUME TypeOK, up # << >>, AcceptEvidence(Head(up))
  PROVE  Head(up).id \in Attempts /\ Head(up).attempt \in Evidence
<1>1. Head(up) \in PlayerFrames
  BY Streaming DEF TypeOK, WireTypeOK
<1>2. Head(up) \in Publications
  BY <1>1 DEF AcceptEvidence, PlayerFrames, Replies, Acks
<1> QED
  BY <1>2 DEF Publications

(* Whatever a player sends and in whatever order, no acknowledgement       *)
(* stands over a native reader the server has seen open or unjoined.       *)
THEOREM AcksMeanJoined == Spec => []AckMeansJoined
<1>1. Init => AckMeansJoined
  BY DEF Init, ChannelInit, AckMeansJoined
<1>2. TypeOK /\ AckMeansJoined /\ [Next]_vars => AckMeansJoined'
  <2> SUFFICES ASSUME TypeOK, AckMeansJoined, [Next]_vars PROVE AckMeansJoined'
    OBVIOUS
  <2>1. CASE UNCHANGED <<journal, kept, issues, stopped>>
    BY <2>1 DEF AckMeansJoined
  <2>2. CASE up # << >> /\ AcceptStopped(Head(up))
    BY <2>2 DEF AcceptStopped, Rejected, StoppedRejected, AckMeansJoined
  <2>3. CASE up # << >> /\ AcceptEvidence(Head(up))
    BY <2>3 DEF AcceptEvidence, Rejected, AckMeansJoined
  <2> QED
    BY <2>1, <2>2, <2>3, EvidenceStep
<1> QED
  BY <1>1, <1>2, ConnectionTyped, PTL DEF Spec

(* The private record and the channel's journal, kept under two sets of    *)
(* rules, differ only where the record says that it turned an attempt      *)
(* away, whatever the player sends.                                        *)
THEOREM RecordAndJournal == Spec => []RecordFollowsJournal
<1>1. Init => RecordFollowsJournal
  BY DEF Init, ChannelInit, CaptureInit, RecordFollowsJournal
<1>2. TypeOK /\ RecordFollowsJournal /\ [Next]_vars => RecordFollowsJournal'
  <2> SUFFICES ASSUME TypeOK, RecordFollowsJournal, [Next]_vars PROVE RecordFollowsJournal'
    OBVIOUS
  <2>1. CASE UNCHANGED <<journal, kept, issues, stopped>>
    BY <2>1 DEF RecordFollowsJournal
  <2>2. CASE up # << >> /\ AcceptStopped(Head(up))
    BY <2>2 DEF AcceptStopped, capture, RecordFollowsJournal
  <2>3. CASE up # << >> /\ AcceptEvidence(Head(up))
    <3> DEFINE m == Head(up)
    <3>1. m.id \in Attempts /\ m.attempt \in Evidence
      BY <2>3, AcceptedAttempt
    <3>2. \A a \in Attempts : journal'[a] = IF a = m.id THEN m.attempt ELSE journal[a]
      BY <2>3 DEF AcceptEvidence, TypeOK, ChannelTypeOK
    <3>3. ~EvidenceRejected(m) /\ receive(m)
      BY <2>3 DEF AcceptEvidence, Rejected
    <3> HIDE DEF m
    <3>4. CASE ~Refused(m)
      <4>1. \A a \in Attempts : kept'[a] = IF a = m.id THEN m.attempt ELSE kept[a]
        BY <3>3, <3>4 DEF receive, TypeOK, CaptureTypeOK
      <4>2. issues' = issues
        BY <3>3, <3>4 DEF receive
      <4> QED
        BY <3>2, <4>1, <4>2 DEF RecordFollowsJournal
    <3>5. CASE Refused(m) /\ kept[m.id] = "none"
      <4>1. kept' = kept /\ issues' = issues \cup {"out-of-window-attempt"}
        BY <3>3, <3>5 DEF receive, Issue
      <4> QED
        BY <3>2, <3>5, <4>1 DEF RecordFollowsJournal
    <3>6. CASE Refused(m) /\ kept[m.id] # "none"
      <4>1. kept[m.id] \in Finished /\ kept[m.id] = journal[m.id]
        BY <3>1, <3>6 DEF Refused, RecordFollowsJournal
      <4>2. m.attempt = journal[m.id]
        BY <3>3, <4>1 DEF EvidenceRejected, Extends, Finished
      <4>3. kept' = kept /\ issues \subseteq issues'
        BY <3>3, <3>6 DEF receive
      <4> QED
        BY <3>2, <4>2, <4>3 DEF RecordFollowsJournal
    <3> QED
      BY <3>4, <3>5, <3>6
  <2> QED
    BY <2>1, <2>2, <2>3, EvidenceStep
<1> QED
  BY <1>1, <1>2, ConnectionTyped, PTL DEF Spec

-----------------------------------------------------------------------------
(* The windows.  A reply on its way, queued or taken was sent by this      *)
(* player for that rid, and no window past the newest has been touched.    *)

Said == [type : {"reply"}, rid : replied] \cup Publications \cup Acks

Streams == up \in Seq(Said) /\ queue \in Seq(replied)

Asked ==
  /\ waiting \in {0, active}
  /\ \A r \in Rids : answer[r] = "asked" <=> waiting = r
  /\ \A r \in Rids : r > active => answer[r] = "unasked"

Answered == \A r \in Rids : answer[r] = "reply" => r \in replied

Inv == TypeOK /\ Streams /\ Asked /\ Answered

LEMMA InvInit == Init => Inv
<1> SUFFICES ASSUME Init PROVE Inv
  OBVIOUS
<1>1. Streams
  BY DEF Init, WireInit, ChannelInit, Streams
<1>2. Asked /\ Answered
  BY WireAssumption DEF Init, ChannelInit, Asked, Answered, Rids
<1> QED
  BY <1>1, <1>2, TypesInit DEF Inv

LEMMA SaidGrows ==
  ASSUME replied \subseteq replied'
  PROVE  /\ Said \subseteq Said'
         /\ \A q \in Seq(Said) : q \in Seq(Said')
         /\ \A q \in Seq(replied) : q \in Seq(replied')
<1>1. Said \subseteq Said'
  BY DEF Said
<1>2. \A q \in Seq(Said) : q \in Seq(Said')
  BY <1>1, SeqMonotonic
<1>3. \A q \in Seq(replied) : q \in Seq(replied')
  BY SeqMonotonic
<1> QED
  BY <1>1, <1>2, <1>3

(* What the player says is evidence, its own reply or an acknowledgement.  *)
LEMMA SayingSteps ==
  ASSUME TypeOK, Streams, PlayerStep \/ \E m \in PlayerFrames : Stray(m)
  PROVE  up' \in Seq(Said') /\ replied \subseteq replied'
<1>1. ASSUME NEW m \in PlayerFrames, Stray(m) PROVE up' \in Seq(Said') /\ replied \subseteq replied'
  <2>1. replied \subseteq replied' /\ up' = Append(up, m)
    BY <1>1 DEF Stray
  <2>2. m \in Said'
    BY <1>1 DEF Stray, Said, PlayerFrames, Replies, Publications, Acks
  <2>3. up \in Seq(Said')
    BY <2>1, SaidGrows DEF Streams
  <2> QED
    BY <2>1, <2>2, <2>3, Streaming
<1>2. CASE PlayerStep
  <2>1. CASE UNCHANGED <<up, replied>>
    BY <2>1, SaidGrows DEF Streams
  <2>2. CASE BeginCall \/ ReceiveResponse \/ FinishCall \/ AbandonCall
    <3>1. call \in 0 .. Windows
      BY DEF TypeOK, PlayerTypeOK
    <3>2. PICK a \in Attempts, e \in Evidence : Publish(a, e)
      <4>1. CASE BeginCall
        <5>1. <<call, Cardinality(Begun) + 1>> \in Attempts
          BY <3>1, <4>1, FreshIsAttempt DEF BeginCall
        <5> QED
          BY <4>1, <5>1 DEF BeginCall, Evidence
      <4>2. CASE ReceiveResponse \/ FinishCall \/ AbandonCall
        <5>1. latest \in Attempts
          BY <3>1, <4>2, LatestIsAttempt DEF ReceiveResponse, FinishCall, AbandonCall, InFlight
        <5> QED
          BY <4>2, <5>1 DEF ReceiveResponse, FinishCall, AbandonCall, Evidence, Finished
      <4> QED
        BY <2>2, <4>1, <4>2
    <3>3. replied' = replied
      BY <2>2 DEF BeginCall, ReceiveResponse, FinishCall, AbandonCall
    <3>4. [type |-> "private_attempt", id |-> a, attempt |-> e] \in Said
      BY DEF Said, Publications
    <3>5. up' \in Seq(Said)
      BY <3>2, <3>4, Streaming DEF Publish, Streams
    <3> QED
      BY <3>3, <3>5, SaidGrows
  <2>3. CASE Reply
    <3>1. replied' = replied \cup {call} /\ up' = Put(up, [type |-> "reply", rid |-> call])
      BY <2>3 DEF Reply
    <3>2. [type |-> "reply", rid |-> call] \in Said'
      BY <3>1 DEF Said
    <3>3. up \in Seq(Said')
      BY <3>1, SaidGrows DEF Streams
    <3> QED
      BY <3>1, <3>2, <3>3, Streaming
  <2>4. CASE Acknowledge
    <3>1. replied' = replied /\ up' = Append(up, [type |-> "stopped", ours |-> TRUE])
      BY <2>4 DEF Acknowledge
    <3>2. [type |-> "stopped", ours |-> TRUE] \in Said
      BY DEF Said, Acks
    <3>3. up' \in Seq(Said)
      BY <3>1, <3>2, Streaming DEF Streams
    <3> QED
      BY <3>1, <3>3, SaidGrows
  <2> QED
    BY <1>2, <2>1, <2>2, <2>3, <2>4 DEF PlayerStep, TakeRequest, TakeStop, TakeFinal, GiveUp,
       Withhold, StopWaiting, SeeClose, wire
<1> QED
  BY <1>1, <1>2

LEMMA StreamsStep == ASSUME TypeOK, Streams, [Next]_vars PROVE Streams' /\ replied \subseteq replied'
<1>1. CASE ServerStep /\ UNCHANGED <<player, strays>>
  <2>1. replied' = replied
    BY <1>1 DEF player
  <2>2. CASE ReaderStep
    <3>1. up # << >> => Head(up) \in Said /\ Tail(up) \in Seq(Said)
      BY Streaming DEF Streams
    <3>2. up' \in Seq(Said)
      BY <2>2, <3>1 DEF ReaderStep, LoseConnection, IgnoreFrame, RejectFrame, AcceptStopped,
         AcceptEvidence, AcceptReply, Receive, wire, Streams
    <3>3. CASE up # << >> /\ AcceptReply(Head(up))
      <4>1. Head(up).rid \in replied
        BY <3>1, <3>3 DEF AcceptReply, Said, Publications, Acks
      <4>2. queue' \in Seq(replied)
        BY <3>3, <4>1, Streaming DEF AcceptReply, Streams
      <4> QED
        BY <2>1, <3>2, <4>2, SaidGrows DEF Streams
    <3>4. CASE queue' = queue
      BY <2>1, <3>2, <3>4, SaidGrows DEF Streams
    <3> QED
      BY <2>2, <3>3, <3>4 DEF ReaderStep, LoseConnection, IgnoreFrame, RejectFrame,
         AcceptStopped, AcceptEvidence, channel, window
  <2>3. CASE TakeReply
    <3>1. queue' \in Seq(replied) /\ up' = up
      BY <2>3, Streaming DEF TakeReply, Streams, wire
    <3> QED
      BY <2>1, <3>1, SaidGrows DEF Streams
  <2>4. CASE UNCHANGED <<up, queue>>
    BY <2>1, <2>4, SaidGrows DEF Streams
  <2>5. ASSUME NEW r \in Rids, Ask(r) PROVE UNCHANGED <<up, queue>>
    BY <2>5 DEF Ask, send
  <2>6. ASSUME NEW over \in BOOLEAN, StopPlayer(over) PROVE UNCHANGED <<up, queue>>
    BY <2>6 DEF StopPlayer, send
  <2>7. CASE WindowTimeout \/ Consume \/ Expire \/ DeadlinePasses \/ OwnerStep
    <3>1. UNCHANGED <<up, queue>>
      BY <2>7 DEF WindowTimeout, Consume, Expire, DeadlinePasses, OwnerStep, Seal, JoinReader,
         SendFinal, send, HangUp, wire, window, channel
    <3> QED
      BY <2>4, <3>1
  <2> QED
    BY <1>1, <2>2, <2>3, <2>4, <2>5, <2>6, <2>7 DEF ServerStep
<1>2. CASE (PlayerStep /\ UNCHANGED <<channel, strays>>) \/ \E m \in PlayerFrames : Stray(m)
  <2>1. up' \in Seq(Said') /\ replied \subseteq replied'
    BY <1>2, SayingSteps
  <2>2. queue' = queue
    BY <1>2 DEF Stray, channel, window
  <2> QED
    BY <2>1, <2>2, SaidGrows DEF Streams
<1>3. CASE Cut /\ UNCHANGED <<channel, player, strays>>
  <2>1. up' \in Seq(Said) /\ replied' = replied /\ queue' = queue
    BY <1>3, Streaming DEF Cut, Streams, channel, window, player
  <2> QED
    BY <2>1, SaidGrows DEF Streams
<1>4. CASE UNCHANGED vars
  BY <1>4, SaidGrows DEF vars, wire, channel, window, player, Streams
<1> QED
  BY <1>1, <1>2, <1>3, <1>4 DEF Next

(* Only four steps touch a window.                                         *)
LEMMA WindowSteps ==
  ASSUME [Next]_vars
  PROVE  \/ UNCHANGED <<active, waiting, answer>>
         \/ \E r \in Rids : Ask(r)
         \/ TakeReply \/ WindowTimeout
         \/ \E over \in BOOLEAN : StopPlayer(over)
<1>1. CASE ServerStep
  BY <1>1 DEF ServerStep, ReaderStep, LoseConnection, IgnoreFrame, RejectFrame, AcceptStopped,
     AcceptEvidence, AcceptReply, Consume, Expire, DeadlinePasses, OwnerStep, Seal, JoinReader,
     SendFinal, HangUp, channel, window
<1>2. CASE UNCHANGED channel
  BY <1>2 DEF channel, window
<1> QED
  BY <1>1, <1>2 DEF Next, Stray, Cut, vars

LEMMA WindowsStep ==
  ASSUME Inv, [Next]_vars
  PROVE  Asked' /\ Answered' /\ Decides
<1>1. active \in 0 .. Windows /\ answer \in [Rids -> Outcomes] /\ Rids = 1 .. Windows
  BY DEF Inv, TypeOK, ChannelTypeOK, Rids
<1>2. replied \subseteq replied' /\ queue \in Seq(replied) /\ Asked /\ Answered
  BY StreamsStep DEF Inv, Streams
<1>3. Windows \in Nat
  BY WireAssumption
<1>4. CASE UNCHANGED <<active, waiting, answer>>
  BY <1>2, <1>4 DEF Asked, Answered, Decides
<1>5. ASSUME NEW r \in Rids, Ask(r) PROVE Asked' /\ Answered' /\ Decides
  <2>1. waiting = 0 /\ r = active + 1 /\ active' = r /\ waiting' = r
    BY <1>5 DEF Ask, Idle
  <2>2. \A q \in Rids : answer'[q] = IF q = r THEN "asked" ELSE answer[q]
    BY <1>1, <1>5 DEF Ask
  <2>3. answer[r] = "unasked"
    BY <1>1, <1>2, <2>1 DEF Asked
  <2>4. \A q \in Rids : q # 0
    BY <1>1, <1>3
  <2>5. Asked'
    BY <1>1, <1>2, <1>3, <2>1, <2>2, <2>4 DEF Asked
  <2> QED
    BY <1>2, <2>2, <2>3, <2>5 DEF Answered, Decides
<1>6. CASE TakeReply
  <2>1. active' = active
    BY <1>6 DEF TakeReply
  <2>2. CASE Head(queue) = waiting
    <3>1. waiting \in replied /\ waiting' = 0 /\ waiting # 0
      BY <1>2, <1>6, <2>2, Streaming DEF TakeReply
    <3>2. waiting \in Rids /\ answer[waiting] = "asked"
      BY <1>1, <1>2, <1>3, <3>1 DEF Asked
    <3>3. \A q \in Rids : answer'[q] = IF q = waiting THEN "reply" ELSE answer[q]
      BY <1>1, <1>6, <2>2 DEF TakeReply
    <3>4. \A q \in Rids : q # 0
      BY <1>1, <1>3
    <3>5. Asked'
      BY <1>1, <1>2, <1>3, <2>1, <3>1, <3>2, <3>3, <3>4 DEF Asked
    <3> QED
      BY <1>2, <3>1, <3>2, <3>3, <3>5 DEF Answered, Decides
  <2>3. CASE Head(queue) # waiting
    <3>1. UNCHANGED <<active, waiting, answer>>
      BY <1>6, <2>3 DEF TakeReply
    <3> QED
      BY <1>4, <3>1
  <2> QED
    BY <2>2, <2>3
<1>7. CASE WindowTimeout
  <2>1. waiting # 0 /\ waiting' = 0 /\ active' = active
    BY <1>7 DEF WindowTimeout
  <2>2. waiting \in Rids /\ answer[waiting] = "asked"
    BY <1>1, <1>2, <1>3, <2>1 DEF Asked
  <2>3. \A q \in Rids : answer'[q] = IF q = waiting THEN "default" ELSE answer[q]
    BY <1>1, <1>7 DEF WindowTimeout
  <2>4. \A q \in Rids : q # 0
    BY <1>1, <1>3
  <2>5. Asked'
    BY <1>1, <1>2, <1>3, <2>1, <2>2, <2>3, <2>4 DEF Asked
  <2> QED
    BY <1>2, <2>2, <2>3, <2>5 DEF Answered, Decides
<1>8. ASSUME NEW over \in BOOLEAN, StopPlayer(over) PROVE Asked' /\ Answered' /\ Decides
  <2>1. waiting' = 0 /\ active' = active
    BY <1>8 DEF StopPlayer
  <2>2. \A q \in Rids : answer'[q] = IF q = waiting THEN "abandoned" ELSE answer[q]
    BY <1>8 DEF StopPlayer
  <2>3. \A q \in Rids : q # 0
    BY <1>1, <1>3
  <2>4. Asked'
    <3>1. \A q \in Rids : answer'[q] # "asked"
      BY <1>2, <2>2 DEF Asked
    <3>2. \A q \in Rids : q > active => answer'[q] = "unasked"
      <4>1. \A q \in Rids : q > active => q # waiting
        BY <1>1, <1>2, <1>3 DEF Asked
      <4> QED
        BY <1>2, <2>2, <4>1 DEF Asked
    <3> QED
      BY <2>1, <2>3, <3>1, <3>2 DEF Asked
  <2>5. Answered'
    BY <1>2, <2>2 DEF Answered
  <2>6. Decides
    BY <1>2, <2>2 DEF Asked, Decides
  <2> QED
    BY <2>4, <2>5, <2>6
<1> QED
  BY <1>4, <1>5, <1>6, <1>7, <1>8, WindowSteps

LEMMA InvStep == Inv /\ [Next]_vars => Inv'
BY TypesStep, StreamsStep, WindowsStep DEF Inv

LEMMA Invariance == Spec => []Inv
BY InvInit, InvStep, PTL DEF Spec

(* For any number of windows and whatever the player sends, a window is    *)
(* answered with a reply sent for it, or with a default.                   *)
THEOREM RepliesAreOwn == Spec => []AnswersAreOwn
<1>1. Inv => AnswersAreOwn
  BY DEF Inv, Asked, Answered, AnswersAreOwn
<1> QED
  BY <1>1, Invariance, PTL

(* What became of a window is decided once.                                *)
THEOREM OutcomesFinal == Spec => OutcomesStand
<1>1. Inv /\ [Next]_vars => [Decides]_vars
  BY WindowsStep
<1> QED
  BY <1>1, Invariance, PTL DEF Spec, OutcomesStand

-----------------------------------------------------------------------------
(* How a connection ends.                                                  *)

(* The deadline is set by the stop, and by nothing before it.              *)
Clocked == phase = "play" <=> clock = "unset"

LEMMA ClockedStep ==
  ASSUME TypeOK, Clocked, [Next]_vars
  PROVE  Clocked'
<1>1. CASE \E over \in BOOLEAN : StopPlayer(over)
  BY <1>1 DEF StopPlayer, Clocked
<1>2. CASE DeadlinePasses
  BY <1>2 DEF DeadlinePasses, Clocked
<1>3. CASE Seal \/ JoinReader \/ SendFinal
  BY <1>3 DEF Seal, JoinReader, SendFinal, Clocked
<1>4. CASE UNCHANGED <<phase, clock>>
  BY <1>4 DEF Clocked
<1>5. ServerStep => \/ \E over \in BOOLEAN : StopPlayer(over)
                    \/ DeadlinePasses \/ Seal \/ JoinReader \/ SendFinal
                    \/ UNCHANGED <<phase, clock>>
  <2>1. ReaderStep => UNCHANGED <<phase, clock>>
    BY DEF ReaderStep, IgnoreFrame, RejectFrame, AcceptStopped, AcceptEvidence, AcceptReply,
       LoseConnection, channel, owner
  <2>2. HangUp \/ (\E r \in Rids : Ask(r)) \/ TakeReply \/ WindowTimeout \/ Consume \/ Expire
          => UNCHANGED <<phase, clock>>
    BY DEF HangUp, Ask, TakeReply, WindowTimeout, Consume, Expire, channel, owner
  <2> QED
    BY <2>1, <2>2 DEF ServerStep, OwnerStep
<1>6. PlayerStep /\ UNCHANGED <<channel, strays>> => UNCHANGED <<phase, clock>>
  BY DEF channel, owner
<1>7. (\E m \in PlayerFrames : Stray(m)) => UNCHANGED <<phase, clock>>
  BY DEF Stray, channel, owner
<1>8. (Cut /\ UNCHANGED <<channel, player, strays>>) \/ UNCHANGED vars
        => UNCHANGED <<phase, clock>>
  BY DEF vars, channel, owner
<1> QED
  BY <1>1, <1>2, <1>3, <1>4, <1>5, <1>6, <1>7, <1>8 DEF Next

Ends ==
  /\ reader \in {"reading", "joined"} => Reader = "reading"
  /\ reader = "left" => Reader = "lost"
  /\ reader = "broken" => Reader = "broken"
  /\ phase = "play" => Stage = "open"
  /\ phase \in {"stopping", "sealed"} => Stage = "stopping"
  /\ phase \in {"done", "over"} /\ settled = "yes" => Stage = "settled"
  /\ phase \in {"done", "over"} /\ settled # "yes" => Stage = "withheld"

LEMMA Ended == Ends
BY Zenon DEF Ends, Reader, Stage

ending == <<Reader, clock, Stage, stopped>>

LEMMA ReaderEnding ==
  ASSUME TypeOK, Clocked, ReaderStep
  PROVE  Ending!Next \/ UNCHANGED ending
<1>1. Ends /\ Ends'
  BY Ended, PTL
<1>2. CASE LoseConnection \/ (up # << >> /\ RejectFrame(Head(up)))
  <2>1. /\ reader = "reading" /\ reader' \in {"left", "broken"}
        /\ UNCHANGED <<phase, settled, clock, stopped>>
    BY <1>2 DEF LoseConnection, RejectFrame, Receive, owner
  <2>2. Reader = "reading" /\ Reader' \in {"lost", "broken"}
    BY <1>1, <2>1 DEF Ends
  <2>3. Stage' = Stage
    BY <2>1 DEF Stage
  <2> QED
    BY <2>1, <2>2, <2>3 DEF Ending!Next, Ending!StopReading
<1>3. CASE up # << >> /\ AcceptStopped(Head(up))
  <2>1. /\ reader = "reading" /\ phase = "stopping" /\ clock = "running" /\ ~stopped
        /\ stopped' /\ UNCHANGED <<reader, phase, settled, clock>>
    BY <1>3 DEF AcceptStopped, Receive, Rejected, StoppedRejected, stop_id_set, sealed, Clocked,
       TypeOK, ChannelTypeOK, owner
  <2>2. Reader = "reading" /\ Stage = "stopping" /\ Reader' = Reader /\ Stage' = Stage
    BY <1>1, <2>1 DEF Ends
  <2>3. stopped' = TRUE
    BY <1>3 DEF AcceptStopped
  <2> QED
    BY <2>1, <2>2, <2>3 DEF Ending!Next, Ending!Acknowledge
<1>4. CASE /\ up # << >>
           /\ IgnoreFrame(Head(up)) \/ AcceptEvidence(Head(up)) \/ AcceptReply(Head(up))
  <2>1. UNCHANGED <<reader, phase, settled, clock, stopped>>
    BY <1>4 DEF IgnoreFrame, AcceptEvidence, AcceptReply, channel, owner
  <2> QED
    BY <2>1 DEF ending, Reader, Stage
<1> QED
  BY <1>2, <1>3, <1>4 DEF ReaderStep

LEMMA OwnerEnding ==
  ASSUME TypeOK, Clocked,
         \/ \E over \in BOOLEAN : StopPlayer(over)
         \/ DeadlinePasses \/ OwnerStep
  PROVE  Ending!Next \/ UNCHANGED ending
<1>1. Ends /\ Ends'
  BY Ended, PTL
<1>2. CASE \E over \in BOOLEAN : StopPlayer(over)
  <2>1. /\ phase = "play" /\ phase' = "stopping" /\ clock = "unset" /\ clock' = "running"
        /\ UNCHANGED <<reader, stopped>>
    BY <1>2 DEF StopPlayer, Clocked
  <2>2. Stage = "open" /\ Stage' = "stopping"
    BY <1>1, <2>1 DEF Ends
  <2>3. Reader' = Reader
    BY <2>1 DEF Reader
  <2> QED
    BY <2>1, <2>2, <2>3 DEF Ending!Next, Ending!Stop
<1>3. CASE DeadlinePasses
  <2>1. clock = "running" /\ clock' = "past" /\ UNCHANGED <<reader, phase, settled, stopped>>
    BY <1>3 DEF DeadlinePasses
  <2>2. Reader' = Reader /\ Stage' = Stage
    BY <2>1 DEF Reader, Stage
  <2> QED
    BY <2>1, <2>2 DEF Ending!Next, Ending!DeadlinePasses
<1>4. CASE JoinReader
  <2>1. /\ phase = "sealed" /\ phase' = "done" /\ UNCHANGED <<clock, stopped>>
        /\ reader' = IF reader = "reading" THEN "joined" ELSE reader
        /\ settled' = "yes" => stopped /\ reader # "broken" /\ clock = "running"
    BY <1>4 DEF JoinReader
  <2>2. reader \in {"reading", "left", "broken", "joined"}
    BY DEF TypeOK, ChannelTypeOK
  <2>3. Reader' = Reader /\ (Reader = "broken" => reader = "broken")
    BY <1>1, <2>1, <2>2 DEF Ends
  <2>4. Stage = "stopping"
    BY <1>1, <2>1 DEF Ends
  <2>5. CASE settled' = "yes"
    <3>1. Stage' = "settled"
      BY <1>1, <2>1, <2>5 DEF Ends
    <3> QED
      BY <2>1, <2>3, <2>4, <2>5, <3>1 DEF Ending!Next, Ending!Settle
  <2>6. CASE settled' # "yes"
    <3>1. Stage' = "withheld"
      BY <1>1, <2>1, <2>6 DEF Ends
    <3> QED
      BY <2>1, <2>3, <2>4, <3>1 DEF Ending!Next, Ending!Withhold
  <2> QED
    BY <2>5, <2>6
<1>5. CASE Seal \/ SendFinal \/ HangUp
  <2>1. /\ UNCHANGED <<reader, settled, clock, stopped>>
        /\ \/ phase \in {"stopping", "sealed"} /\ phase' \in {"stopping", "sealed"}
           \/ phase \in {"done", "over"} /\ phase' \in {"done", "over"}
    BY <1>5 DEF Seal, SendFinal, HangUp, channel, owner
  <2>2. Stage' = Stage
    BY <1>1, <2>1 DEF Ends
  <2>3. Reader' = Reader
    BY <2>1 DEF Reader
  <2> QED
    BY <2>1, <2>2, <2>3 DEF ending
<1> QED
  BY <1>2, <1>3, <1>4, <1>5 DEF OwnerStep

(* The connection implements ConnectionEnd, for any player and any         *)
(* schedule: it counts as settled only over an acknowledgement of this     *)
(* stop that was read in time by a reader no frame had broken.             *)
THEOREM ConnectionEnds == Spec => EndsAsPromised
<1>1. Init => TypeOK /\ Clocked /\ Ending!Init
  <2> SUFFICES ASSUME Init PROVE Clocked /\ Ending!Init
    BY TypesInit
  <2>1. reader = "reading" /\ phase = "play" /\ clock = "unset" /\ stopped = FALSE
    BY DEF Init, ChannelInit
  <2>2. Reader = "reading" /\ Stage = "open"
    BY <2>1, Ended DEF Ends
  <2> QED
    BY <2>1, <2>2 DEF Clocked, Ending!Init
<1>2. TypeOK /\ Clocked /\ [Next]_vars => TypeOK' /\ Clocked'
  BY TypesStep, ClockedStep
<1>3. TypeOK /\ Clocked /\ [Next]_vars => [Ending!Next]_ending
  <2> SUFFICES ASSUME TypeOK, Clocked, [Next]_vars PROVE Ending!Next \/ UNCHANGED ending
    OBVIOUS
  <2>1. UNCHANGED channel => UNCHANGED ending
    BY DEF channel, owner, ending, Reader, Stage
  <2>2. (\E r \in Rids : Ask(r)) \/ TakeReply \/ WindowTimeout \/ Consume \/ Expire
          => UNCHANGED ending
    BY DEF Ask, TakeReply, WindowTimeout, Consume, Expire, owner, ending, Reader, Stage
  <2>3. ServerStep => Ending!Next \/ UNCHANGED ending
    BY <2>2, ReaderEnding, OwnerEnding DEF ServerStep
  <2>4. (\E m \in PlayerFrames : Stray(m)) => UNCHANGED channel
    BY DEF Stray
  <2>5. UNCHANGED vars => UNCHANGED channel
    BY DEF vars
  <2> QED
    BY <2>1, <2>3, <2>4, <2>5 DEF Next
<1> QED
  BY <1>1, <1>2, <1>3, PTL DEF Spec, EndsAsPromised, Ending!Spec, ending
=============================================================================
