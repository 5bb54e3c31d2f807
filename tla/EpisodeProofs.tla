---------------------------- MODULE EpisodeProofs ---------------------------
(***************************************************************************)
(* Proofs about Episode, for any number of turns.  Asks run in parallel    *)
(* and outlive the phase that failed, so a fact about open windows has to  *)
(* be kept in two ways: while the episode is played from the stage it is   *)
(* in (Windowed, Unheard), and afterwards because nothing more is said.    *)
(* The same holds of what the seats were told: Told says it exactly while  *)
(* the episode is played, and up to one message when it has stopped.       *)
(***************************************************************************)
EXTENDS Episode, SequenceTheorems, TLAPS

Stopped == {"failed", "cancelled"}

(* Open windows are the current stage's, each of a seat already asked.     *)
Windowed ==
  /\ stage \in Asking =>
       \A r \in Unanswered : /\ windows[r].kind = stage /\ windows[r].turn = turn
                             /\ windows[r].seat \notin todo
  /\ stage \notin Asking \cup Stopped => Unanswered = {}
  /\ stage \notin Stopped \cup {"introduce"} =>
       \A r \in DOMAIN windows : windows[r].state # "answered"
  /\ OneWindowPerSeat
  /\ sealed => stage \in Over
  /\ stage \in Over => todo = {}

(* The stages of a turn before it is recorded, and the others.             *)
Unrecorded == {"turn_start", "action", "action_repair", "action_made", "action_judge",
               "action_ruling", "proposal", "proposal_made", "debate", "debate_made",
               "vote", "vote_reveal", "judge"}
Recorded == {"introduce", "game_start", "judge_ruling", "next", "game_over", "done"}

Chronicle ==
  /\ stage \in {"introduce", "game_start"} => turn = 0
  /\ stage \in Unrecorded => turn > 0 /\ history = [t \in 1 .. turn - 1 |-> t]
  /\ stage \in Recorded => history = [t \in 1 .. turn |-> t]

AfterVote == {"vote_reveal", "judge", "judge_ruling", "next", "game_over"}

Unheard ==
  /\ \A s \in Seats : \A i \in DOMAIN heard[s] :
       /\ heard[s][i].turn <= turn
       /\ heard[s][i].turn = turn =>
            /\ heard[s][i].type = "debate_made" =>
                 stage \in {"debate_made", "vote"} \cup AfterVote \cup Over
            /\ heard[s][i].type = "vote_reveal" => stage \in AfterVote \cup Over
  /\ \A r \in DOMAIN windows :
       /\ windows[r].turn <= turn
       /\ windows[r].turn = turn /\ windows[r].kind = "vote" =>
            stage \in {"vote"} \cup AfterVote \cup Over

Inv == TypeOK /\ Windowed /\ Chronicle /\ Unheard /\ HiddenUntilAllClosed

-----------------------------------------------------------------------------
(* Helpers.                                                                *)

LEMMA NoTurns == << >> = [t \in 1 .. 0 |-> t]
OBVIOUS

LEMMA OneMoreTurn ==
  ASSUME NEW n \in Nat \ {0}
  PROVE  Append([t \in 1 .. n - 1 |-> t], n) = [t \in 1 .. n |-> t]
<1> DEFINE past == [t \in 1 .. n - 1 |-> t]
<1>1. past \in Seq(Nat) /\ Len(past) = n - 1
  <2>1. past \in [1 .. n - 1 -> Nat] /\ n - 1 \in Nat
    OBVIOUS
  <2> QED
    BY <2>1, LenProperties
<1>2. /\ Append(past, n) \in Seq(Nat) /\ Len(Append(past, n)) = Len(past) + 1
      /\ \A i \in 1 .. Len(past) : Append(past, n)[i] = past[i]
      /\ Append(past, n)[Len(past) + 1] = n
      /\ \A i \in 1 .. n - 1 : past[i] = i
  BY <1>1, AppendProperties
<1> HIDE DEF past
<1>3. \A i \in 1 .. n : Append(past, n)[i] = i
  BY <1>1, <1>2
<1> DEFINE grown == Append(past, n)
<1>4. grown \in Seq(Nat) /\ Len(grown) = n /\ (\A i \in 1 .. n : grown[i] = i)
  BY <1>1, <1>2, <1>3
<1> HIDE DEF grown
<1>5. grown \in [1 .. n -> Nat]
  BY ONLY <1>4, LenProperties
<1>6. grown = [t \in 1 .. n |-> t]
  BY <1>4, <1>5
<1> QED
  BY <1>6 DEF grown, past

LEMMA Extended ==
  ASSUME NEW S, NEW q \in Seq(S), NEW e \in S
  PROVE  /\ Append(q, e) \in Seq(S)
         /\ DOMAIN q = 1 .. Len(q) /\ DOMAIN Append(q, e) = 1 .. Len(q) + 1
         /\ Len(q) \in Nat
         /\ \A i \in DOMAIN Append(q, e) :
              \/ i \in DOMAIN q /\ Append(q, e)[i] = q[i]
              \/ i = Len(q) + 1 /\ Append(q, e)[i] = e
<1>1. /\ Append(q, e) \in Seq(S)
      /\ Len(Append(q, e)) = Len(q) + 1
      /\ \A i \in 1 .. Len(q) : Append(q, e)[i] = q[i]
      /\ Append(q, e)[Len(q) + 1] = e
  BY AppendProperties
<1>2. DOMAIN q = 1 .. Len(q) /\ Len(q) \in Nat /\ DOMAIN Append(q, e) = 1 .. Len(q) + 1
  BY <1>1
<1> QED
  BY <1>1, <1>2

LEMMA Entered ==
  ASSUME TypeOK, NEW next, Enter(next)
  PROVE  stage' = next /\ todo' \subseteq Seats /\ (next \in Over => todo' = {})
BY DEF Enter, Asked, TypeOK, Seats, Asking, Public, Over

(* While the episode is played, what is open is hidden by the stage.       *)
LEMMA HiddenByStage ==
  TypeOK /\ Windowed /\ Unheard /\ stage \notin Stopped => HiddenUntilAllClosed
<1> SUFFICES ASSUME TypeOK, Windowed, Unheard, stage \notin Stopped,
                    NEW r \in Unanswered, windows[r].kind \in {"debate", "vote"}
             PROVE  /\ ~ Shown(Reveals[windows[r].kind], windows[r].turn)
                    /\ windows[r].kind = "debate" => ~ Quoted(windows[r].turn)
  BY DEF HiddenUntilAllClosed
<1>1. windows[r].kind = stage /\ windows[r].turn = turn
  BY DEF Windowed, Unanswered
<1>2. ASSUME NEW s \in Seats, NEW i \in DOMAIN heard[s]
      PROVE  heard[s][i] # [type |-> Reveals[stage], turn |-> turn]
  <2>1. heard[s][i].turn = turn =>
          /\ heard[s][i].type = "debate_made" =>
               stage \in {"debate_made", "vote"} \cup AfterVote \cup Over
          /\ heard[s][i].type = "vote_reveal" => stage \in AfterVote \cup Over
    BY DEF Unheard
  <2> QED
    BY <1>1, <2>1 DEF Reveals, AfterVote, Over
<1>3. ASSUME NEW q \in DOMAIN windows, windows[q].kind = "vote", windows[q].turn = turn
      PROVE  stage # "debate"
  BY <1>3 DEF Unheard, AfterVote, Over
<1> QED
  BY <1>1, <1>2, <1>3 DEF Shown, Quoted

(* When it has stopped, because nothing more is said or asked.             *)
LEMMA HiddenBySilence ==
  ASSUME HiddenUntilAllClosed, heard' = heard, Unanswered' \subseteq Unanswered,
         \A r \in DOMAIN windows' : /\ r \in DOMAIN windows
                                    /\ windows'[r].kind = windows[r].kind
                                    /\ windows'[r].turn = windows[r].turn
  PROVE  HiddenUntilAllClosed'
<1> SUFFICES ASSUME NEW r \in Unanswered', windows'[r].kind \in {"debate", "vote"}
             PROVE  /\ \A s \in Seats : \A i \in DOMAIN heard'[s] :
                         heard'[s][i] # [type |-> Reveals[windows'[r].kind],
                                         turn |-> windows'[r].turn]
                    /\ windows'[r].kind = "debate" =>
                         \A q \in DOMAIN windows' :
                           ~ (windows'[q].kind = "vote" /\ windows'[q].turn = windows'[r].turn)
  BY DEF HiddenUntilAllClosed, Shown, Quoted
<1>1. r \in Unanswered /\ r \in DOMAIN windows'
  BY DEF Unanswered
<1>2. windows'[r].kind = windows[r].kind /\ windows'[r].turn = windows[r].turn
  BY <1>1
<1>3. /\ \A s \in Seats : \A i \in DOMAIN heard[s] :
           heard[s][i] # [type |-> Reveals[windows[r].kind], turn |-> windows[r].turn]
      /\ windows[r].kind = "debate" =>
           \A q \in DOMAIN windows :
             ~ (windows[q].kind = "vote" /\ windows[q].turn = windows[r].turn)
  BY <1>1, <1>2 DEF HiddenUntilAllClosed, Shown, Quoted
<1> QED
  BY <1>2, <1>3

(* Nor when nothing at all happens to the windows.                         *)
LEMMA HiddenByRest ==
  ASSUME HiddenUntilAllClosed, heard' = heard, windows' = windows
  PROVE  HiddenUntilAllClosed'
BY HiddenBySilence DEF Unanswered

-----------------------------------------------------------------------------
LEMMA InvInit == Init => Inv
<1> SUFFICES ASSUME Init PROVE Inv
  OBVIOUS
<1>1. /\ << >> \in Seq(Window) /\ << >> \in Seq(Messages) /\ << >> \in Seq(1 .. TurnsMax)
      /\ DOMAIN << >> = {}
  OBVIOUS
<1>2. TypeOK
  BY <1>1, TurnsAssumption DEF Init, TypeOK, Seats, SEAT_COUNT, Asking
<1>3. Windowed /\ HiddenUntilAllClosed
  BY <1>1 DEF Init, Windowed, OneWindowPerSeat, HiddenUntilAllClosed, Unanswered, Asking,
              Stopped, Over
<1>4. Unheard
  BY <1>1 DEF Init, Unheard
<1>5. Chronicle
  BY NoTurns DEF Init, Chronicle, Unrecorded, Recorded
<1> QED
  BY <1>2, <1>3, <1>4, <1>5 DEF Inv

-----------------------------------------------------------------------------
(* One action at a time.                                                   *)

LEMMA AskStep == ASSUME Inv, NEW s \in Seats, Ask(s) PROVE Inv'
<1> DEFINE entry == [seat |-> s, kind |-> stage, turn |-> turn, state |-> "open"]
<1>1. /\ stage \in Asking /\ s \in todo
      /\ windows' = Append(windows, entry)
      /\ todo' = todo \ {s}
      /\ UNCHANGED <<stage, heard, turn, proposer, attempt, valid, won, history, events, sealed>>
  BY DEF Ask, law
<1>2. /\ entry \in Window
      /\ entry.seat = s /\ entry.kind = stage /\ entry.turn = turn /\ entry.state = "open"
  BY <1>1 DEF Inv, TypeOK, Window
<1> HIDE DEF entry
<1>3. /\ windows' \in Seq(Window)
      /\ DOMAIN windows = 1 .. Len(windows) /\ DOMAIN windows' = 1 .. Len(windows) + 1
      /\ Len(windows) \in Nat
      /\ \A r \in DOMAIN windows' :
           \/ r \in DOMAIN windows /\ windows'[r] = windows[r]
           \/ r = Len(windows) + 1 /\ windows'[r] = entry
  BY <1>1, <1>2, Extended DEF Inv, TypeOK
<1>5. TypeOK'
  BY <1>1, <1>3 DEF Inv, TypeOK
<1>6. Windowed'
  <2>1. \A r \in Unanswered' : \/ r \in Unanswered /\ windows'[r] = windows[r]
                               \/ r = Len(windows) + 1 /\ windows'[r] = entry
    BY <1>3 DEF Unanswered
  <2>2. \A r \in Unanswered : /\ windows[r].kind = stage /\ windows[r].turn = turn
                              /\ windows[r].seat \notin todo
    BY <1>1 DEF Inv, Windowed
  <2>3. OneWindowPerSeat'
    <3>1. OneWindowPerSeat
      BY DEF Inv, Windowed
    <3>2. \A r \in Unanswered : windows[r].seat # s
      BY <1>1, <2>2
    <3>3. \A r, q \in Unanswered' : windows'[r].seat = windows'[q].seat => r = q
      BY <1>2, <2>1, <3>1, <3>2 DEF OneWindowPerSeat
    <3> QED
      BY <3>3 DEF OneWindowPerSeat
  <2>4. \A r \in Unanswered' : /\ windows'[r].kind = stage /\ windows'[r].turn = turn
                               /\ windows'[r].seat \notin todo'
    BY <1>1, <1>2, <2>1, <2>2
  <2> QED
    BY <1>1, <1>2, <1>3, <2>3, <2>4 DEF Inv, Windowed, Asking, Over, Stopped
<1>7. Chronicle'
  BY <1>1 DEF Inv, Chronicle
<1>8. Unheard'
  BY <1>1, <1>2, <1>3 DEF Inv, TypeOK, Unheard, Asking
<1>9. HiddenUntilAllClosed'
  <2>1. (TypeOK /\ Windowed /\ Unheard /\ stage \notin Stopped => HiddenUntilAllClosed)'
    BY HiddenByStage, PTL
  <2> QED
    BY <1>1, <1>5, <1>6, <1>8, <2>1 DEF Asking, Stopped
<1> QED
  BY <1>5, <1>6, <1>7, <1>8, <1>9 DEF Inv

LEMMA SendStep == ASSUME Inv, NEW s \in Seats, Send(s) PROVE Inv'
<1> DEFINE message == [type |-> stage, turn |-> turn]
<1>1. /\ stage \in Public
      /\ heard' = [heard EXCEPT ![s] = Append(@, message)]
      /\ todo' = todo \ {s}
      /\ UNCHANGED <<stage, windows, turn, proposer, attempt, valid, won, history,
                     events, sealed>>
  BY DEF Send, law
<1>2. message \in Messages /\ message.type = stage /\ message.turn = turn
  BY <1>1 DEF Inv, TypeOK, Messages
<1> HIDE DEF message
<1>3. /\ Append(heard[s], message) \in Seq(Messages)
      /\ \A i \in DOMAIN Append(heard[s], message) :
           \/ i \in DOMAIN heard[s] /\ Append(heard[s], message)[i] = heard[s][i]
           \/ Append(heard[s], message)[i] = message
  BY <1>1, <1>2, Extended DEF Inv, TypeOK
<1>4. TypeOK'
  BY <1>1, <1>3 DEF Inv, TypeOK
<1>5. Windowed' /\ Chronicle'
  BY <1>1 DEF Inv, Windowed, OneWindowPerSeat, Unanswered, Chronicle, Public, Asking
<1>6. Unheard'
  BY <1>1, <1>2, <1>3 DEF Inv, TypeOK, Unheard, Public, AfterVote
<1>7. HiddenUntilAllClosed'
  <2>1. (TypeOK /\ Windowed /\ Unheard /\ stage \notin Stopped => HiddenUntilAllClosed)'
    BY HiddenByStage, PTL
  <2> QED
    BY <1>1, <1>4, <1>5, <1>6, <2>1 DEF Public, Stopped
<1> QED
  BY <1>4, <1>5, <1>6, <1>7 DEF Inv

(* Windows change state only, towards closed, and nothing is said.         *)
Closing ==
  /\ heard' = heard /\ turn' = turn /\ history' = history /\ todo' = todo
  /\ proposer' = proposer /\ attempt' = attempt /\ valid' = valid /\ won' = won
  /\ events' = events /\ sealed' = sealed
  /\ windows' \in Seq(Window) /\ DOMAIN windows' = DOMAIN windows
  /\ \A r \in DOMAIN windows : /\ windows'[r].seat = windows[r].seat
                               /\ windows'[r].kind = windows[r].kind
                               /\ windows'[r].turn = windows[r].turn
                               /\ windows'[r].state = "open" => windows[r].state = "open"

LEMMA ClosingStep ==
  ASSUME Inv, Closing,
         \/ stage' = stage
         \/ stage' = "failed" /\ todo = {},
         sealed => stage' \in Over,
         stage' \notin Stopped \cup {"introduce"} =>
           \A r \in DOMAIN windows : windows'[r].state # "answered"
  PROVE  Inv'
<1>1. Unanswered' \subseteq Unanswered
  BY DEF Closing, Unanswered
<1>2. TypeOK'
  BY DEF Inv, TypeOK, Closing, Over
<1>3. Windowed'
  <2>1. \A r \in Unanswered' : /\ r \in Unanswered
                               /\ windows'[r].seat = windows[r].seat
                               /\ windows'[r].kind = windows[r].kind
                               /\ windows'[r].turn = windows[r].turn
    BY <1>1 DEF Closing, Unanswered
  <2>2. OneWindowPerSeat'
    BY <2>1 DEF Inv, Windowed, OneWindowPerSeat
  <2>3. /\ stage \in Asking =>
             \A r \in Unanswered : /\ windows[r].kind = stage /\ windows[r].turn = turn
                                   /\ windows[r].seat \notin todo
        /\ stage \notin Asking \cup Stopped => Unanswered = {}
    BY DEF Inv, Windowed
  <2>4. /\ stage' \in Asking =>
             \A r \in Unanswered' : /\ windows'[r].kind = stage' /\ windows'[r].turn = turn'
                                    /\ windows'[r].seat \notin todo'
        /\ stage' \notin Asking \cup Stopped => Unanswered' = {}
    <3>1. CASE stage' = stage
      BY <1>1, <2>1, <2>3, <3>1 DEF Closing
    <3>2. CASE stage' = "failed"
      BY <3>2 DEF Asking, Stopped
    <3> QED
      BY <3>1, <3>2
  <2>5. /\ stage' \notin Stopped \cup {"introduce"} =>
             \A r \in DOMAIN windows' : windows'[r].state # "answered"
        /\ sealed' => stage' \in Over
        /\ stage' \in Over => todo' = {}
    BY DEF Closing, Inv, Windowed
  <2> QED
    BY <2>2, <2>4, <2>5 DEF Windowed
<1>4. Chronicle' /\ Unheard'
  BY DEF Inv, Closing, Chronicle, Unheard, Unrecorded, Recorded, Over
<1>5. HiddenUntilAllClosed'
  <2>1. \A r \in DOMAIN windows' : /\ r \in DOMAIN windows
                                   /\ windows'[r].kind = windows[r].kind
                                   /\ windows'[r].turn = windows[r].turn
    BY <1>1 DEF Closing
  <2> QED
    BY <1>1, <2>1, HiddenBySilence DEF Inv, Closing
<1> QED
  BY <1>2, <1>3, <1>4, <1>5 DEF Inv

LEMMA AnswerStep ==
  ASSUME Inv, NEW r \in DOMAIN windows, Answer(r) \/ AnswerRaises(r)
  PROVE  Inv'
<1> DEFINE state == IF Answer(r) /\ windows[r].kind # "introduce" THEN "closed" ELSE "answered"
<1>1. /\ r \in Unanswered
      /\ windows' = [windows EXCEPT ![r].state = state]
      /\ UNCHANGED <<todo, heard, turn, proposer, attempt, valid, won, history, events, sealed>>
      /\ \/ Answer(r) /\ stage' = stage /\ ~sealed
         \/ stage' = "failed" /\ todo = {}
  BY DEF Answer, AnswerRaises, law
<1>2. /\ state \in {"answered", "closed"}
      /\ state = "answered" => windows[r].kind = "introduce" \/ stage' = "failed"
  BY <1>1
<1> HIDE DEF state
<1>3. windows \in Seq(Window) /\ windows[r] \in Window
  BY DEF Inv, TypeOK
<1>4. /\ windows' \in Seq(Window) /\ DOMAIN windows' = DOMAIN windows
      /\ windows'[r] = [windows[r] EXCEPT !.state = state]
      /\ \A q \in DOMAIN windows : q # r => windows'[q] = windows[q]
  BY <1>1, <1>2, <1>3 DEF Window
<1>5. Closing
  BY <1>1, <1>2, <1>3, <1>4 DEF Closing, Window
<1>6. stage' \notin Stopped \cup {"introduce"} =>
        \A q \in DOMAIN windows : windows'[q].state # "answered"
  <2> SUFFICES ASSUME stage' \notin Stopped \cup {"introduce"},
                      NEW q \in DOMAIN windows
               PROVE  windows'[q].state # "answered"
    OBVIOUS
  <2>1. stage' = stage /\ stage \in Asking
    BY <1>1 DEF Stopped, Answer
  <2>2. CASE q # r
    BY <1>4, <2>1, <2>2 DEF Inv, Windowed
  <2>3. CASE q = r
    <3>1. windows[r].kind = stage
      BY <1>1, <2>1 DEF Inv, Windowed
    <3> QED
      BY <1>2, <1>3, <1>4, <2>1, <2>3, <3>1 DEF Stopped, Window
  <2> QED
    BY <2>2, <2>3
<1>7. sealed => stage' \in Over
  BY <1>1 DEF Over
<1> QED
  BY <1>1, <1>5, <1>6, <1>7, ClosingStep

(* A stage ends with its windows closed, or stops the episode.             *)
LEMMA StageStep ==
  ASSUME Inv, TypeOK', Chronicle', Unheard', heard' = heard, sealed' = sealed,
         \/ windows' = windows
         \/ Unanswered' = {},
         stage' \in Stopped \/ \A r \in DOMAIN windows' : windows'[r].state = "closed",
         sealed => stage' \in Over,
         stage' \in Over => todo' = {}
  PROVE  Inv'
<1>1. CASE stage' \in Stopped /\ windows' = windows
  <2>1. Unanswered' = Unanswered
    BY <1>1 DEF Unanswered
  <2>2. OneWindowPerSeat'
    BY <1>1, <2>1 DEF Inv, Windowed, OneWindowPerSeat
  <2>3. Windowed'
    BY <1>1, <2>2 DEF Windowed, Stopped, Asking
  <2>4. HiddenUntilAllClosed'
    BY <1>1, HiddenByRest DEF Inv
  <2> QED
    BY <2>3, <2>4 DEF Inv
<1>2. CASE Unanswered' = {} /\ (stage' \notin Stopped =>
                                  \A r \in DOMAIN windows' : windows'[r].state # "answered")
  BY <1>2 DEF Inv, Windowed, OneWindowPerSeat, HiddenUntilAllClosed
<1>3. (\A r \in DOMAIN windows' : windows'[r].state = "closed") =>
        Unanswered' = {} /\ \A r \in DOMAIN windows' : windows'[r].state # "answered"
  BY DEF Unanswered
<1> QED
  BY <1>1, <1>2, <1>3

LEMMA AllClosed ==
  ASSUME Inv, Unanswered = {}, stage \notin Stopped \cup {"introduce"}
  PROVE  \A r \in DOMAIN windows : windows[r].state = "closed"
<1> SUFFICES ASSUME NEW r \in DOMAIN windows PROVE windows[r].state = "closed"
  OBVIOUS
<1>1. windows[r] \in Window
  BY DEF Inv, TypeOK
<1>2. windows[r].state # "open" /\ windows[r].state # "answered"
  BY DEF Inv, Windowed, Unanswered
<1> QED
  BY <1>1, <1>2 DEF Window

LEMMA NotOver == ASSUME Inv, stage \notin Over PROVE ~sealed
BY DEF Inv, TypeOK, Windowed

LEMMA IntroducedStep == ASSUME Inv, Introduced PROVE Inv'
<1>1. /\ stage = "introduce" /\ stage' = "game_start" /\ todo' \subseteq Seats /\ (stage' \in Over => todo' = {})
      /\ windows' = [r \in DOMAIN windows |-> [windows[r] EXCEPT !.state = "closed"]]
      /\ UNCHANGED <<heard, turn, proposer, attempt, valid, won, history, events, sealed>>
  BY Entered DEF Introduced, Inv, law
<1>2. windows' \in Seq(Window) /\ \A r \in DOMAIN windows' : windows'[r].state = "closed"
  <2>1. ASSUME NEW w \in Window
        PROVE  [w EXCEPT !.state = "closed"] \in Window
               /\ [w EXCEPT !.state = "closed"].state = "closed"
    BY DEF Window
  <2>2. /\ DOMAIN windows = 1 .. Len(windows) /\ Len(windows) \in Nat
        /\ \A r \in DOMAIN windows : windows[r] \in Window
    BY DEF Inv, TypeOK
  <2>3. /\ DOMAIN windows' = 1 .. Len(windows)
        /\ \A r \in 1 .. Len(windows) : windows'[r] \in Window /\ windows'[r].state = "closed"
    BY <1>1, <2>1, <2>2
  <2>4. windows' \in [1 .. Len(windows) -> Window]
    BY <1>1, <2>2, <2>3
  <2> QED
    BY <2>2, <2>3, <2>4
<1>3. TypeOK'
  BY <1>1, <1>2 DEF Inv, TypeOK, Public
<1>4. Chronicle'
  BY <1>1 DEF Inv, Chronicle, Unrecorded, Recorded
<1>5. Unheard'
  <2>1. \A r \in DOMAIN windows' : /\ windows'[r].turn <= turn'
                                   /\ ~ (windows'[r].turn = turn' /\ windows'[r].kind = "vote")
    <3>1. \A w \in Window : /\ [w EXCEPT !.state = "closed"].turn = w.turn
                            /\ [w EXCEPT !.state = "closed"].kind = w.kind
      BY DEF Window
    <3>2. \A r \in DOMAIN windows : /\ windows[r] \in Window /\ windows[r].turn <= turn
                                    /\ ~ (windows[r].turn = turn /\ windows[r].kind = "vote")
      BY <1>1 DEF Inv, TypeOK, Unheard, AfterVote, Over
    <3> QED
      BY <1>1, <3>1, <3>2
  <2>2. \A s \in Seats : \A i \in DOMAIN heard[s] :
          /\ heard[s][i].turn <= turn
          /\ heard[s][i].turn = turn => heard[s][i].type \notin {"debate_made", "vote_reveal"}
    BY <1>1 DEF Inv, Unheard, AfterVote, Over
  <2> QED
    BY <1>1, <2>1, <2>2 DEF Unheard
<1> QED
  BY <1>1, <1>2, <1>3, <1>4, <1>5, NotOver, StageStep DEF Unanswered, Over

LEMMA CollectStep == ASSUME Inv, Collect PROVE Inv'
<1>1. /\ stage \in Asking \ {"introduce"} /\ Unanswered = {}
      /\ stage' = AfterAsking(stage) /\ todo' \subseteq Seats /\ (stage' \in Over => todo' = {})
      /\ UNCHANGED <<windows, heard, turn, proposer, attempt, valid, won, history, events, sealed>>
  BY Entered DEF Collect, Inv, law
<1>2. /\ stage \in {"action", "action_repair"} => stage' = "action_made"
      /\ stage = "proposal" => stage' = "proposal_made"
      /\ stage = "debate" => stage' = "debate_made"
      /\ stage = "vote" => stage' = "vote_reveal"
      /\ stage \in {"action", "action_repair", "proposal", "debate", "vote"}
  BY <1>1 DEF AfterAsking, Asking
<1>3. TypeOK'
  BY <1>1, <1>2 DEF Inv, TypeOK, Public
<1>4. Chronicle'
  BY <1>1, <1>2 DEF Inv, Chronicle, Unrecorded, Recorded
<1>5. Unheard'
  BY <1>1, <1>2 DEF Inv, Unheard, AfterVote, Over
<1>6. \A r \in DOMAIN windows : windows[r].state = "closed"
  BY <1>1, <1>2, AllClosed DEF Stopped
<1>7. ~sealed
  BY <1>2, NotOver DEF Over
<1> QED
  BY <1>1, <1>3, <1>4, <1>5, <1>6, <1>7, StageStep

LEMMA EmitStep == ASSUME Inv, Emit PROVE Inv'
<1>1. /\ stage \in Public
      /\ events' = Append(events, [type |-> stage, turn |-> turn])
      /\ stage' = AfterPublic(stage) /\ todo' \subseteq Seats /\ (stage' \in Over => todo' = {})
      /\ attempt' = IF stage' = "action_repair" THEN 2 ELSE attempt
      /\ history' = IF stage = "action_ruling" /\ stage' = "next"
                      THEN Append(history, turn) ELSE history
      /\ UNCHANGED <<windows, heard, turn, proposer, valid, won, sealed>>
  BY Entered DEF Emit, Log, Inv
<1>2. /\ stage \in {"game_start", "judge_ruling"} => stage' = "next"
      /\ stage = "turn_start" => stage' = "action"
      /\ stage = "action_made" => stage' = "action_judge"
      /\ stage = "action_ruling" => stage' \in {"action_repair", "next", "proposal"}
      /\ stage = "proposal_made" => stage' = "debate"
      /\ stage = "debate_made" => stage' = "vote"
      /\ stage = "vote_reveal" => stage' = "judge"
      /\ stage = "game_over" => stage' = "done"
  BY <1>1 DEF AfterPublic, AfterRuling
<1>3. stage \in {"game_start", "judge_ruling", "turn_start", "action_made", "action_ruling",
                 "proposal_made", "debate_made", "vote_reveal", "game_over"}
  BY <1>1 DEF Public
<1>4. /\ stage = "action_ruling" =>
           turn \in Nat \ {0} /\ turn <= TurnsMax /\ history = [t \in 1 .. turn - 1 |-> t]
      /\ turn \in 0 .. TurnsMax
  BY TurnsAssumption DEF Inv, TypeOK, Chronicle, Unrecorded
<1>5. history' \in Seq(1 .. TurnsMax) /\ Chronicle'
  <2>1. CASE stage = "action_ruling" /\ stage' = "next"
    <3>1. history' = [t \in 1 .. turn |-> t]
      BY <1>1, <1>4, <2>1, OneMoreTurn
    <3>2. [t \in 1 .. turn |-> t] \in Seq(1 .. TurnsMax)
      BY <1>4, TurnsAssumption
    <3> QED
      BY <1>1, <2>1, <3>1, <3>2 DEF Chronicle, Unrecorded, Recorded
  <2>2. CASE ~ (stage = "action_ruling" /\ stage' = "next")
    BY <1>1, <1>2, <1>3, <2>2 DEF Inv, TypeOK, Chronicle, Unrecorded, Recorded
  <2> QED
    BY <2>1, <2>2
<1>6. events' \in Seq(Messages)
  <2>1. [type |-> stage, turn |-> turn] \in Messages /\ events \in Seq(Messages)
    BY <1>1 DEF Inv, TypeOK, Messages
  <2> QED
    BY <1>1, <2>1, Extended
<1>7. TypeOK'
  BY <1>1, <1>2, <1>3, <1>5, <1>6 DEF Inv, TypeOK, Asking, Public, Judging, Over
<1>8. Unheard'
  BY <1>1, <1>2, <1>3 DEF Inv, Unheard, AfterVote, Over
<1>9. \A r \in DOMAIN windows : windows[r].state = "closed"
  <2>1. Unanswered = {}
    BY <1>3 DEF Inv, Windowed, Asking, Stopped
  <2> QED
    BY <1>3, <2>1, AllClosed DEF Stopped
<1>10. ~sealed
  BY <1>3, NotOver DEF Over
<1> QED
  BY <1>1, <1>5, <1>7, <1>8, <1>9, <1>10, StageStep

LEMMA BeginTurnStep == ASSUME Inv, NEW p \in Seats, BeginTurn(p) PROVE Inv'
<1>1. /\ stage = "next" /\ turn < TurnsMax /\ turn' = turn + 1 /\ proposer' = p
      /\ stage' = "turn_start" /\ attempt' = 1 /\ valid' = FALSE
      /\ todo' = Seats
      /\ UNCHANGED <<windows, heard, won, history, events, sealed>>
  BY DEF BeginTurn, Enter, Asking, Public
<1>2. turn \in Nat /\ TurnsMax \in Nat /\ turn' \in 0 .. TurnsMax
  BY <1>1, TurnsAssumption DEF Inv, TypeOK
<1>3. TypeOK'
  BY <1>1, <1>2 DEF Inv, TypeOK, Public
<1>4. Chronicle'
  BY <1>1, <1>2 DEF Inv, Chronicle, Unrecorded, Recorded
<1>5. Unheard'
  <2>1. ASSUME NEW t \in 0 .. TurnsMax, t <= turn
        PROVE  t <= turn' /\ t # turn'
    BY <1>1, <1>2, <2>1, TurnsAssumption
  <2>2. \A s \in Seats : \A i \in DOMAIN heard[s] : heard[s][i].turn \in 0 .. TurnsMax
    <3>1. \A s \in Seats : \A i \in DOMAIN heard[s] : heard[s][i] \in Messages
      BY DEF Inv, TypeOK
    <3> QED
      BY <3>1 DEF Messages
  <2>3. \A r \in DOMAIN windows : windows[r].turn \in 0 .. TurnsMax
    <3>1. \A r \in DOMAIN windows : windows[r] \in Window
      BY DEF Inv, TypeOK
    <3> QED
      BY <3>1 DEF Window
  <2> QED
    BY <1>1, <2>1, <2>2, <2>3 DEF Inv, Unheard
<1>6. \A r \in DOMAIN windows : windows[r].state = "closed"
  <2>1. Unanswered = {}
    BY <1>1 DEF Inv, Windowed, Asking, Stopped
  <2> QED
    BY <1>1, <2>1, AllClosed DEF Stopped
<1>7. ~sealed
  BY <1>1, NotOver DEF Over
<1> QED
  BY <1>1, <1>3, <1>4, <1>5, <1>6, <1>7, StageStep DEF Over

LEMMA RulingStep == ASSUME Inv, GameOver \/ RuleAction \/ RuleTurn PROVE Inv'
<1>1. /\ \/ stage = "next" /\ stage' = "game_over" /\ history' = history /\ valid' = valid
         \/ stage = "action_judge" /\ stage' = "action_ruling" /\ history' = history
         \/ stage = "judge" /\ stage' = "judge_ruling" /\ history' = Append(history, turn)
            /\ valid' = valid
      /\ todo' \subseteq Seats /\ valid' \in BOOLEAN /\ won' \in BOOLEAN
      /\ UNCHANGED <<windows, heard, turn, proposer, attempt, events, sealed>>
  BY Entered DEF Inv, TypeOK, GameOver, RuleAction, RuleTurn, law
<1>2. /\ stage = "judge" =>
           turn \in Nat \ {0} /\ turn <= TurnsMax /\ history = [t \in 1 .. turn - 1 |-> t]
      /\ turn \in 0 .. TurnsMax
  BY TurnsAssumption DEF Inv, TypeOK, Chronicle, Unrecorded
<1>3. history' \in Seq(1 .. TurnsMax) /\ Chronicle'
  <2>1. CASE stage = "judge"
    <3>1. history' = [t \in 1 .. turn |-> t] /\ stage' = "judge_ruling"
      BY <1>1, <1>2, <2>1, OneMoreTurn
    <3>2. [t \in 1 .. turn |-> t] \in Seq(1 .. TurnsMax)
      BY <1>2, TurnsAssumption
    <3> QED
      BY <1>1, <3>1, <3>2 DEF Chronicle, Unrecorded, Recorded
  <2>2. CASE stage # "judge"
    BY <1>1, <2>2 DEF Inv, TypeOK, Chronicle, Unrecorded, Recorded
  <2> QED
    BY <2>1, <2>2
<1>4. TypeOK'
  BY <1>1, <1>3 DEF Inv, TypeOK, Public
<1>5. Unheard'
  BY <1>1 DEF Inv, Unheard, AfterVote, Over
<1>6. \A r \in DOMAIN windows : windows[r].state = "closed"
  <2>1. Unanswered = {}
    BY <1>1 DEF Inv, Windowed, Asking, Stopped
  <2> QED
    BY <1>1, <2>1, AllClosed DEF Stopped
<1>7. ~sealed
  BY <1>1, NotOver DEF Over
<1> QED
  BY <1>1, <1>3, <1>4, <1>5, <1>6, <1>7, StageStep DEF Over

LEMMA StopStep == ASSUME Inv, EmitRaises \/ JudgeFails \/ CancelEpisode PROVE Inv'
<1>1. /\ stage' \in Stopped /\ todo' \subseteq Seats /\ (stage' \in Over => todo' = {})
      /\ \/ events' = events
         \/ stage \in Public /\ events' = Append(events, [type |-> stage, turn |-> turn])
      /\ UNCHANGED <<windows, heard, turn, proposer, attempt, valid, won, history, sealed>>
      /\ stage \notin Over
  BY Entered DEF Inv, EmitRaises, JudgeFails, CancelEpisode, Log, law, Stopped, Public,
                 Judging, Over
<1>2. events' \in Seq(Messages)
  <2>1. events \in Seq(Messages)
        /\ (stage \in Public => [type |-> stage, turn |-> turn] \in Messages)
    BY DEF Inv, TypeOK, Messages
  <2> QED
    BY <1>1, <2>1, Extended
<1>3. TypeOK'
  BY <1>1, <1>2 DEF Inv, TypeOK, Stopped, Over
<1>4. Chronicle' /\ Unheard'
  BY <1>1 DEF Inv, Chronicle, Unrecorded, Recorded, Unheard, Stopped, Over
<1> QED
  BY <1>1, <1>3, <1>4, NotOver, StageStep

LEMMA SealStep == ASSUME Inv, Seal PROVE Inv'
<1>1. HiddenUntilAllClosed'
  BY HiddenByRest DEF Seal, exchange, Inv
<1> QED
  BY <1>1 DEF Seal, exchange, law, Inv, TypeOK, Windowed, OneWindowPerSeat, Unanswered,
              Chronicle, Unheard

LEMMA InvStep == Inv /\ [Next]_vars => Inv'
<1> SUFFICES ASSUME Inv, [Next]_vars PROVE Inv'
  OBVIOUS
<1>1. CASE UNCHANGED vars
  <2>1. HiddenUntilAllClosed'
    BY <1>1, HiddenByRest DEF vars, exchange, Inv
  <2> QED
    BY <1>1, <2>1 DEF vars, exchange, law, Inv, TypeOK, Windowed, OneWindowPerSeat, Unanswered,
                      Chronicle, Unheard
<1>2. CASE Progress
  BY <1>2, AskStep, SendStep, AnswerStep, IntroducedStep, CollectStep, EmitStep,
     BeginTurnStep, RulingStep DEF Progress
<1> QED
  BY <1>1, <1>2, AnswerStep, StopStep, SealStep DEF Next

LEMMA Invariance == Spec => []Inv
BY InvInit, InvStep, PTL DEF Spec

(* The types of the exchange, for any number of turns.                     *)
THEOREM ExchangeTyped == Spec => []TypeOK
<1>1. Inv => TypeOK
  BY DEF Inv
<1> QED
  BY <1>1, Invariance, PTL

(* A seat is never asked twice at a time, for any number of turns.         *)
THEOREM OneAskPerSeat == Spec => []OneWindowPerSeat
<1>1. Inv => OneWindowPerSeat
  BY DEF Inv, Windowed
<1> QED
  BY <1>1, Invariance, PTL

(* Statements and votes stay hidden while they could influence a window,   *)
(* also when the episode fails or is cancelled around them.                *)
THEOREM StaysHidden == Spec => []HiddenUntilAllClosed
<1>1. Inv => HiddenUntilAllClosed
  BY DEF Inv
<1> QED
  BY <1>1, Invariance, PTL

(* A normal end leaves every window consumed and every turn recorded once. *)
THEOREM EndsWhole == Spec => []DoneIsWhole
<1>1. Inv => DoneIsWhole
  <2> SUFFICES ASSUME Inv, stage = "done"
               PROVE  /\ \A r \in DOMAIN windows : windows[r].state = "closed"
                      /\ history = [t \in 1 .. turn |-> t]
    BY DEF DoneIsWhole
  <2>1. Unanswered = {}
    BY DEF Inv, Windowed, Asking, Stopped
  <2> QED
    BY <2>1, AllClosed DEF Inv, Chronicle, Recorded, Stopped
<1> QED
  BY <1>1, Invariance, PTL

(* Asks that outlive a failed phase change nothing in a sealed record.     *)
THEOREM SealStands == Spec => SealedStands
<1>1. Inv /\ [Next]_vars => [sealed => UNCHANGED windows]_vars
  <2> SUFFICES ASSUME Inv, Next, sealed PROVE windows' = windows
    OBVIOUS
  <2>1. stage \in Over
    BY DEF Inv, Windowed
  <2> QED
    BY <2>1 DEF Next, Progress, Ask, Send, Answer, AnswerRaises, Introduced, Collect, Emit,
                BeginTurn, GameOver, RuleAction, RuleTurn, EmitRaises, JudgeFails,
                CancelEpisode, Seal, exchange, Asking, Over
<1> QED
  BY <1>1, Invariance, PTL DEF Spec, SealedStands
-----------------------------------------------------------------------------
(* What the seats were told.                                               *)

Word == [type |-> stage, turn |-> turn]

(* Played, the seats have the events, those served also the stage's own    *)
(* message; stopped, some may have one message more than the spectators.   *)
InStep ==
  \A s \in Seats :
    heard[s] = IF stage \in Public /\ s \notin todo THEN Append(events, Word) ELSE events
Told ==
  /\ stage \notin Over => InStep
  /\ \E m \in Messages : \A s \in Seats : heard[s] \in {events, Append(events, m)}

(* The second part has to be shown only for what is over.                  *)
LEMMA ToldWhilePlayed == TypeOK /\ InStep => Told
<1> SUFFICES ASSUME TypeOK, InStep PROVE Told
  OBVIOUS
<1>1. CASE stage \in Public
  <2>1. Word \in Messages
    BY <1>1 DEF Word, Messages, TypeOK
  <2> QED
    BY <2>1 DEF Told, InStep
<1>2. CASE stage \notin Public
  <2>1. [type |-> "game_start", turn |-> turn] \in Messages
    BY DEF Messages, TypeOK, Public
  <2> QED
    BY <1>2, <2>1 DEF Told, InStep
<1> QED
  BY <1>1, <1>2

(* A stage is entered with nothing of it said yet.                         *)
LEMMA EnteredTold ==
  ASSUME Inv', \A s \in Seats : heard'[s] = events',
         stage' \in Public => todo' = Seats
  PROVE  Told'
<1>1. (TypeOK /\ InStep => Told)'
  BY ToldWhilePlayed, PTL
<1>2. InStep'
  BY DEF InStep
<1> QED
  BY <1>1, <1>2 DEF Inv

LEMMA ToldInit == Init => Told
<1> SUFFICES ASSUME Init PROVE Told
  OBVIOUS
<1>1. TypeOK
  BY InvInit DEF Inv
<1> QED
  BY <1>1, ToldWhilePlayed DEF Init, InStep, Over, Public

LEMMA SendTold == ASSUME Inv, Inv', Told, NEW s \in Seats, Send(s) PROVE Told'
<1>1. /\ stage \in Public /\ s \in todo /\ todo' = todo \ {s}
      /\ heard' = [heard EXCEPT ![s] = Append(@, Word)]
      /\ stage' = stage /\ turn' = turn /\ events' = events /\ stage' \notin Over
  BY DEF Send, Word, law, Public, Over
<1>2. heard \in [Seats -> Seq(Messages)]
  BY DEF Inv, TypeOK
<1>3. Word' = Word
  BY <1>1 DEF Word
<1>4. InStep'
  <2> SUFFICES ASSUME NEW t \in Seats
               PROVE  heard'[t] = IF t \notin todo' THEN Append(events, Word) ELSE events
    BY <1>1, <1>3 DEF InStep
  <2>1. heard[t] = IF t \notin todo THEN Append(events, Word) ELSE events
    BY <1>1 DEF Told, InStep
  <2> QED
    BY <1>1, <1>2, <2>1
<1>5. (TypeOK /\ InStep => Told)'
  BY ToldWhilePlayed, PTL
<1> QED
  BY <1>4, <1>5 DEF Inv

(* Emitting logs the message that, by then, every seat was sent.           *)
LEMMA EmitTold == ASSUME Inv, Inv', Told, Emit \/ EmitRaises PROVE Told'
<1>1. /\ stage \in Public /\ todo = {} /\ heard' = heard
      /\ events' = Append(events, Word)
      /\ stage' \in Public => todo' = Seats
  BY DEF Emit, EmitRaises, Log, Word, Enter, Public, Asking
<1>2. \A s \in Seats : heard'[s] = events'
  BY <1>1 DEF Told, InStep, Public, Over
<1> QED
  BY <1>1, <1>2, EnteredTold

(* The other stages are entered from one that says nothing.                *)
LEMMA StageTold ==
  ASSUME Inv, Inv', Told,
         Introduced \/ Collect \/ GameOver \/ RuleAction \/ RuleTurn \/ JudgeFails
           \/ \E p \in Seats : BeginTurn(p)
  PROVE  Told'
<1>1. /\ stage \notin Public /\ stage \notin Over /\ heard' = heard /\ events' = events
      /\ stage' \in Public => todo' = Seats
  BY DEF Introduced, Collect, GameOver, RuleAction, RuleTurn, JudgeFails, BeginTurn, Enter,
         law, Public, Over, Asking, Judging
<1>2. \A s \in Seats : heard'[s] = events'
  BY <1>1 DEF Told, InStep
<1> QED
  BY <1>1, <1>2, EnteredTold

(* A stop leaves the seats as they are, in the middle of a message or not. *)
LEMMA StopTold ==
  ASSUME Told, stage' \in Over, heard' = heard, events' = events
  PROVE  Told'
BY DEF Told

LEMMA ToldStep == Inv /\ Inv' /\ Told /\ [Next]_vars => Told'
<1> SUFFICES ASSUME Inv, Inv', Told, [Next]_vars PROVE Told'
  OBVIOUS
<1>1. ASSUME NEW s \in Seats, Ask(s) PROVE Told'
  BY <1>1 DEF Ask, law, Told, InStep, Public, Asking
<1>2. ASSUME NEW r \in DOMAIN windows, Answer(r) PROVE Told'
  BY <1>2 DEF Answer, law, Told, InStep, Word
<1>3. ASSUME NEW r \in DOMAIN windows, AnswerRaises(r) PROVE Told'
  BY <1>3, StopTold DEF AnswerRaises, law, Over
<1>4. CASE CancelEpisode
  BY <1>4, StopTold DEF CancelEpisode, Enter, law, Over
<1>5. CASE Seal \/ UNCHANGED vars
  BY <1>5 DEF Seal, vars, exchange, law, Told, InStep, Word
<1> QED
  BY <1>1, <1>2, <1>3, <1>4, <1>5, SendTold, EmitTold, StageTold DEF Next, Progress

LEMMA Extends ==
  ASSUME NEW S, NEW q \in Seq(S), NEW m \in S
  PROVE  /\ IsPrefix(q, q) /\ IsPrefix(q, Append(q, m))
         /\ Len(q) \in Nat /\ Len(Append(q, m)) = Len(q) + 1
<1>1. /\ Append(q, m) \in Seq(S) /\ Len(q) \in Nat /\ Len(Append(q, m)) = Len(q) + 1
      /\ \A i \in 1 .. Len(q) : Append(q, m)[i] = q[i]
  BY AppendProperties
<1>2. SubSeq(q, 1, Len(q)) = SubSeq(Append(q, m), 1, Len(q))
  BY <1>1
<1> QED
  BY <1>1, <1>2 DEF IsPrefix

(* Every seat is told the same story in the same order, the spectators'    *)
(* own, and is never more than one message ahead of them: for any number   *)
(* of turns, and also when a send is cut short by a failure or a stop.     *)
THEOREM OneStory == Spec => []SameStory
<1>1. Inv /\ Told => SameStory
  <2> SUFFICES ASSUME Inv, Told PROVE SameStory
    OBVIOUS
  <2>1. PICK m \in Messages : \A s \in Seats : heard[s] \in {events, Append(events, m)}
    BY DEF Told
  <2>2. /\ IsPrefix(events, events) /\ IsPrefix(events, Append(events, m))
        /\ Len(events) \in Nat /\ Len(Append(events, m)) = Len(events) + 1
    BY Extends DEF Inv, TypeOK
  <2>3. /\ Len(events) <= Len(events) + 1 /\ Len(Append(events, m)) <= Len(events) + 1
        /\ Len(events) # Len(Append(events, m))
    BY <2>2
  <2> QED
    BY <2>1, <2>2, <2>3, Zenon DEF SameStory
<1>2. Spec => []Told
  BY ToldInit, ToldStep, Invariance, PTL DEF Spec
<1> QED
  BY <1>1, <1>2, Invariance, PTL
-----------------------------------------------------------------------------
(* What is left to do.                                                     *)

(* The attempt and the victory, stage by stage, as the turns are played.   *)
Paced ==
  /\ stage \in {"introduce", "game_start"} => ~won
  /\ stage \in {"turn_start", "action"} => attempt = 1
  /\ stage = "action_repair" => attempt = 2

(* An action ruling leads to the repair only of an invalid first attempt,  *)
(* and to the next turn only of a won game.                                *)
LEMMA RulingLeads ==
  ASSUME stage = "action_ruling"
  PROVE  /\ AfterPublic(stage) \in {"action_repair", "next", "proposal"}
         /\ AfterPublic(stage) = "action_repair" => attempt = 1
         /\ AfterPublic(stage) = "next" => won
BY DEF AfterPublic, AfterRuling

LEMMA PacedInit == Init => Paced
BY DEF Init, Paced

LEMMA PacedStep == Inv /\ Paced /\ [Next]_vars => Paced'
<1> SUFFICES ASSUME Inv, Paced, [Next]_vars PROVE Paced'
  OBVIOUS
<1>1. CASE Emit
  <2>1. /\ stage \in Public /\ stage' = AfterPublic(stage) /\ won' = won
        /\ attempt' = IF stage' = "action_repair" THEN 2 ELSE attempt
    BY <1>1 DEF Emit, Enter
  <2>2. stage' \notin {"introduce", "game_start", "turn_start"}
    BY <2>1, RulingLeads DEF AfterPublic, Public
  <2>3. stage' = "action" => stage = "turn_start"
    BY <2>1, RulingLeads DEF AfterPublic, Public
  <2> QED
    BY <2>1, <2>2, <2>3 DEF Paced
<1>2. CASE Collect
  <2>1. stage' \notin {"introduce", "game_start", "turn_start", "action", "action_repair"}
    BY <1>2 DEF Collect, Enter, AfterAsking, Asking
  <2> QED
    BY <2>1 DEF Paced
<1>3. CASE \E p \in Seats : BeginTurn(p)
  BY <1>3 DEF BeginTurn, Enter, Paced
<1>4. CASE Introduced \/ GameOver \/ RuleAction \/ RuleTurn \/ EmitRaises \/ JudgeFails
           \/ CancelEpisode
  <2>1. CASE Introduced
    BY <2>1 DEF Introduced, Enter, law, Paced
  <2>2. ASSUME NEW next \in {"game_over", "action_ruling", "judge_ruling", "failed",
                             "cancelled"},
               Enter(next)
        PROVE  Paced'
    BY <2>2, Entered DEF Inv, Paced
  <2> QED
    BY <1>4, <2>1, <2>2 DEF GameOver, RuleAction, RuleTurn, EmitRaises, JudgeFails,
                            CancelEpisode
<1>5. CASE \/ UNCHANGED vars \/ Seal
           \/ \E s \in Seats : Ask(s) \/ Send(s)
           \/ \E r \in DOMAIN windows : Answer(r) \/ AnswerRaises(r)
  <2>1. /\ stage' = stage \/ stage' = "failed"
        /\ attempt' = attempt /\ won' = won
    BY <1>5 DEF vars, exchange, law, Seal, Ask, Send, Answer, AnswerRaises
  <2> QED
    BY <2>1 DEF Paced
<1> QED
  BY <1>1, <1>2, <1>3, <1>4, <1>5 DEF Next, Progress

LEMMA PacedAlways == Spec => []Paced
BY PacedInit, PacedStep, Invariance, PTL DEF Spec

(* The places, stage by stage.                                             *)
Places ==
  /\ stage \in Over => Place = 0
  /\ stage = "game_over" => Place = 1
  /\ stage = "next" => Place = 2
  /\ stage \in {"judge_ruling", "game_start"} => Place = 3
  /\ stage \in {"judge", "introduce"} => Place = 4
  /\ stage = "vote_reveal" => Place = 5
  /\ stage = "vote" => Place = 6
  /\ stage = "debate_made" => Place = 7
  /\ stage = "debate" => Place = 8
  /\ stage = "proposal_made" => Place = 9
  /\ stage = "proposal" => Place = 10
  /\ stage = "action_ruling" => Place = 15 - 4 * (attempt - 1)
  /\ stage = "action_judge" => Place = 16 - 4 * (attempt - 1)
  /\ stage = "action_made" => Place = 17 - 4 * (attempt - 1)
  /\ stage = "action_repair" => Place = 14
  /\ stage = "action" => Place = 18
  /\ stage = "turn_start" => Place = 19

LEMMA Placed == Places
BY Zenon DEF Places, Place, Over

Bounded == /\ Place \in 0 .. 19 /\ (stage \notin Over => Place > 0)
           /\ Load(0) \in 0 .. 2 /\ Load(1) \in 0 .. 2 /\ Load(2) \in 0 .. 2

LEMMA Measured == TypeOK => Bounded
<1> SUFFICES ASSUME TypeOK PROVE Bounded
  OBVIOUS
<1>1. Place \in 0 .. 19 /\ (stage \notin Over => Place > 0)
  <2>1. 4 * (attempt - 1) \in {0, 4}
    BY DEF TypeOK
  <2>2. stage \in Asking \cup Public \cup Judging \cup Over \cup {"next"}
    BY DEF TypeOK
  <2> QED
    BY <2>1, <2>2, Placed DEF Places, Asking, Public, Judging, Over
<1>2. ASSUME NEW s PROVE Load(s) \in 0 .. 2
  <2>1. CASE s \in todo
    BY <2>1 DEF Load
  <2>2. CASE s \notin todo /\ \E r \in Unanswered : windows[r].seat = s
    BY <2>2 DEF Load
  <2>3. CASE s \notin todo /\ ~ \E r \in Unanswered : windows[r].seat = s
    BY <2>3 DEF Load
  <2> QED
    BY <2>1, <2>2, <2>3
<1> QED
  BY <1>1, <1>2 DEF Bounded

Less == Remaining' < Remaining

(* One seat less to ask, to tell or to hear from.                          *)
LEMMA SeatShortens ==
  ASSUME TypeOK, TypeOK', NEW s \in Seats, Load(s)' < Load(s),
         \A t \in Seats \ {s} : Load(t)' <= Load(t),
         Place' = Place, turn' = turn, sealed' = sealed
  PROVE  Less
<1>1. /\ Place \in Nat /\ turn \in Nat /\ TurnsMax \in Nat
      /\ Load(0) \in Nat /\ Load(1) \in Nat /\ Load(2) \in Nat
  <2>1. Bounded
    BY Measured
  <2>2. turn \in 0 .. TurnsMax
    BY DEF TypeOK
  <2> QED
    BY <2>1, <2>2, TurnsAssumption DEF Bounded
<1>2. (TypeOK => Bounded)'
  BY Measured, PTL
<1>3. Load(0)' \in Nat /\ Load(1)' \in Nat /\ Load(2)' \in Nat
  BY <1>2 DEF Bounded
<1>4. Load(0)' + Load(1)' + Load(2)' < Load(0) + Load(1) + Load(2)
  BY <1>1, <1>3 DEF Seats, SEAT_COUNT
<1> QED
  BY <1>1, <1>3, <1>4 DEF Less, Remaining

(* A later stage outweighs whatever it has to ask or to tell.              *)
LEMMA StageShortens ==
  ASSUME TypeOK, TypeOK', sealed' = sealed,
         \/ turn' = turn /\ Place' < Place
         \/ turn' = turn + 1 /\ Place' < Place + 18
  PROVE  Less
<1>1. /\ Place \in Nat /\ turn \in Nat /\ TurnsMax \in Nat
      /\ Load(0) \in 0 .. 2 /\ Load(1) \in 0 .. 2 /\ Load(2) \in 0 .. 2
  <2>1. Bounded
    BY Measured
  <2>2. turn \in 0 .. TurnsMax
    BY DEF TypeOK
  <2> QED
    BY <2>1, <2>2, TurnsAssumption DEF Bounded
<1>2. (TypeOK => Bounded)'
  BY Measured, PTL
<1>3. Place' \in Nat /\ Load(0)' \in 0 .. 2 /\ Load(1)' \in 0 .. 2 /\ Load(2)' \in 0 .. 2
  BY <1>2 DEF Bounded
<1>4. 18 * (TurnsMax - turn') + Place' <= 18 * (TurnsMax - turn) + Place - 1
  BY <1>1, <1>3
<1> QED
  BY <1>1, <1>3, <1>4 DEF Less, Remaining
Waiting(s) == \E r \in Unanswered : windows[r].seat = s
Loaded ==
  \A s \in Seats :
    /\ s \in todo => Load(s) = 2
    /\ s \notin todo /\ Waiting(s) => Load(s) = 1
    /\ s \notin todo /\ ~ Waiting(s) => Load(s) = 0

LEMMA Loads == Loaded
<1> SUFFICES ASSUME NEW s \in Seats
             PROVE  /\ s \in todo => Load(s) = 2
                    /\ s \notin todo /\ Waiting(s) => Load(s) = 1
                    /\ s \notin todo /\ ~ Waiting(s) => Load(s) = 0
  BY DEF Loaded
<1> QED
  BY Zenon DEF Load, Waiting

(* A seat is asked, told or, no longer waiting, heard from; the others are *)
(* as they were.                                                           *)
LEMMA SeatServed ==
  ASSUME TypeOK, TypeOK', UNCHANGED <<stage, turn, attempt, sealed>>, todo' \subseteq todo,
         NEW s \in Seats, s \notin todo',
         (Waiting(s) => Waiting(s)') => s \in todo,
         \A t \in Seats \ {s} : Waiting(t)' => Waiting(t)
  PROVE  Less
<1>1. Loaded /\ Loaded'
  BY Loads, PTL
<1>2. /\ s \in todo => Load(s) = 2
      /\ s \notin todo /\ Waiting(s) => Load(s) = 1
      /\ s \notin todo /\ ~ Waiting(s) => Load(s) = 0
      /\ Waiting(s)' => Load(s)' = 1
      /\ ~ Waiting(s)' => Load(s)' = 0
  BY <1>1 DEF Loaded
<1>3. Load(s)' < Load(s)
  BY <1>2
<1>4. ASSUME NEW t \in Seats \ {s} PROVE Load(t)' <= Load(t)
  <2>1. /\ t \in todo => Load(t) = 2
        /\ t \notin todo /\ Waiting(t) => Load(t) = 1
        /\ t \notin todo /\ ~ Waiting(t) => Load(t) = 0
        /\ t \in todo' => Load(t)' = 2
        /\ t \notin todo' /\ Waiting(t)' => Load(t)' = 1
        /\ t \notin todo' /\ ~ Waiting(t)' => Load(t)' = 0
    BY <1>1 DEF Loaded
  <2>2. Waiting(t)' => Waiting(t)
    OBVIOUS
  <2> QED
    BY <2>1, <2>2
<1>5. Place' = Place
  BY DEF Place
<1> QED
  BY <1>3, <1>4, <1>5, SeatShortens

LEMMA AskShortens == ASSUME Inv, Inv', NEW s \in Seats, Ask(s) PROVE Less
<1> DEFINE entry == [seat |-> s, kind |-> stage, turn |-> turn, state |-> "open"]
<1>1. /\ stage \in Asking /\ s \in todo /\ todo' = todo \ {s}
      /\ windows' = Append(windows, entry) /\ entry.seat = s
      /\ UNCHANGED <<stage, turn, attempt, sealed>>
  BY DEF Ask, law
<1>2. entry \in Window
  BY <1>1 DEF Inv, TypeOK, Window
<1> HIDE DEF entry
<1>3. \A r \in DOMAIN windows' : \/ r \in DOMAIN windows /\ windows'[r] = windows[r]
                                \/ windows'[r] = entry
  BY <1>1, <1>2, Extended DEF Inv, TypeOK
<1>4. \A t \in Seats \ {s} : Waiting(t)' => Waiting(t)
  BY <1>1, <1>3 DEF Waiting, Unanswered
<1>5. TypeOK /\ TypeOK' /\ todo' \subseteq todo /\ s \notin todo'
  BY <1>1 DEF Inv
<1> QED
  BY <1>1, <1>4, <1>5, SeatServed

LEMMA SendShortens == ASSUME Inv, Inv', NEW s \in Seats, Send(s) PROVE Less
<1>1. /\ s \in todo /\ todo' = todo \ {s} /\ windows' = windows
      /\ UNCHANGED <<stage, turn, attempt, sealed>>
  BY DEF Send, law
<1>2. \A t \in Seats \ {s} : Waiting(t)' => Waiting(t)
  BY <1>1 DEF Waiting, Unanswered
<1>3. TypeOK /\ TypeOK' /\ todo' \subseteq todo /\ s \notin todo'
  BY <1>1 DEF Inv
<1> QED
  BY <1>1, <1>2, <1>3, SeatServed

(* The only window its seat has open.                                      *)
LEMMA AnswerShortens ==
  ASSUME Inv, Inv', NEW r \in DOMAIN windows, Answer(r) PROVE Less
<1> DEFINE state == IF windows[r].kind = "introduce" THEN "answered" ELSE "closed"
<1>1. /\ stage \in Asking \cup {"failed"} /\ r \in Unanswered
      /\ windows' = [windows EXCEPT ![r].state = state]
      /\ UNCHANGED <<stage, turn, attempt, sealed>> /\ todo' = todo
  BY DEF Answer, law
<1>2. state # "open"
  OBVIOUS
<1> HIDE DEF state
<1>3. \A q \in DOMAIN windows : windows[q] \in Window
  BY DEF Inv, TypeOK
<1>4. PICK s \in Seats : s = windows[r].seat
  BY <1>1, <1>3 DEF Window
<1>5. /\ Unanswered' = Unanswered \ {r}
      /\ \A q \in Unanswered' : windows'[q].seat = windows[q].seat
  BY <1>1, <1>2, <1>3 DEF Unanswered, Window
<1>6. s \notin todo
  BY <1>1, <1>4 DEF Inv, Windowed, Over
<1>7. Waiting(s) /\ ~ Waiting(s)'
  <2>1. \A q \in Unanswered : windows[q].seat = s => q = r
    BY <1>1, <1>4 DEF Inv, Windowed, OneWindowPerSeat
  <2> QED
    BY <1>1, <1>4, <1>5, <2>1 DEF Waiting
<1>8. \A t \in Seats \ {s} : Waiting(t)' => Waiting(t)
  BY <1>5 DEF Waiting
<1>9. TypeOK /\ TypeOK' /\ todo' \subseteq todo /\ s \notin todo'
  BY <1>1, <1>6 DEF Inv
<1> QED
  BY <1>1, <1>7, <1>8, <1>9, SeatServed

LEMMA StagesShorten ==
  ASSUME Inv, Inv', Paced,
         \/ Introduced \/ Collect \/ Emit \/ GameOver \/ RuleAction \/ RuleTurn
         \/ \E p \in Seats : BeginTurn(p)
  PROVE  Less
<1>1. TypeOK /\ TypeOK' /\ attempt \in {1, 2}
  BY DEF Inv, TypeOK
<1>2. Places /\ Places'
  BY Placed, PTL
<1>3. CASE Introduced \/ GameOver \/ RuleAction \/ RuleTurn
  <2>1. /\ \/ stage = "introduce" /\ stage' = "game_start"
           \/ stage = "next" /\ stage' = "game_over"
           \/ stage = "action_judge" /\ stage' = "action_ruling"
           \/ stage = "judge" /\ stage' = "judge_ruling"
        /\ turn' = turn /\ attempt' = attempt /\ sealed' = sealed
    BY <1>1, <1>3, Entered DEF Introduced, GameOver, RuleAction, RuleTurn, law
  <2>2. Place' < Place
    BY <1>1, <1>2, <2>1 DEF Places
  <2> QED
    BY <1>1, <2>1, <2>2, StageShortens
<1>4. CASE Collect
  <2>1. /\ stage \in Asking \ {"introduce"} /\ stage' = AfterAsking(stage)
        /\ turn' = turn /\ attempt' = attempt /\ sealed' = sealed
    BY <1>4 DEF Collect, Enter, law
  <2>2. \/ stage = "action" /\ attempt = 1 /\ stage' = "action_made"
        \/ stage = "action_repair" /\ attempt = 2 /\ stage' = "action_made"
        \/ stage = "proposal" /\ stage' = "proposal_made"
        \/ stage = "debate" /\ stage' = "debate_made"
        \/ stage = "vote" /\ stage' = "vote_reveal"
    BY <2>1 DEF AfterAsking, Asking, Paced
  <2>3. Place' < Place
    BY <1>2, <2>1, <2>2 DEF Places
  <2> QED
    BY <1>1, <2>1, <2>3, StageShortens
<1>5. CASE Emit
  <2>1. /\ stage \in Public /\ stage' = AfterPublic(stage)
        /\ attempt' = IF stage' = "action_repair" THEN 2 ELSE attempt
        /\ turn' = turn /\ sealed' = sealed
    BY <1>5 DEF Emit, Enter
  <2>2. \/ stage \in {"game_start", "judge_ruling"} /\ stage' = "next"
        \/ stage = "turn_start" /\ stage' = "action"
        \/ stage = "action_made" /\ stage' = "action_judge"
        \/ stage = "action_ruling" /\ stage' = "action_repair" /\ attempt = 1
        \/ stage = "action_ruling" /\ stage' \in {"next", "proposal"}
        \/ stage = "proposal_made" /\ stage' = "debate"
        \/ stage = "debate_made" /\ stage' = "vote"
        \/ stage = "vote_reveal" /\ stage' = "judge"
        \/ stage = "game_over" /\ stage' = "done"
    BY <2>1, RulingLeads DEF AfterPublic, Public
  <2>3. Place' < Place
    BY <1>1, <1>2, <2>1, <2>2 DEF Places, Over
  <2> QED
    BY <1>1, <2>1, <2>3, StageShortens
<1>6. CASE \E p \in Seats : BeginTurn(p)
  <2>1. stage = "next" /\ stage' = "turn_start" /\ turn' = turn + 1 /\ sealed' = sealed
    BY <1>6 DEF BeginTurn, Enter
  <2>2. Place' < Place + 18
    BY <1>2, <2>1 DEF Places
  <2> QED
    BY <1>1, <2>1, <2>2, StageShortens
<1> QED
  BY <1>3, <1>4, <1>5, <1>6

(* An end is the last place.                                               *)
LEMMA EndShortens ==
  ASSUME Inv, Inv', stage \notin Over, stage' \in Over, turn' = turn, sealed' = sealed
  PROVE  Less
<1>1. TypeOK /\ TypeOK' /\ Places'
  BY Placed, PTL DEF Inv
<1>2. Place \in Nat /\ Place > 0
  BY <1>1, Measured DEF Bounded
<1>3. Place' = 0
  BY <1>1 DEF Places
<1> QED
  BY <1>1, <1>2, <1>3, StageShortens

LEMMA SealShortens == ASSUME Inv, Seal, ~sealed PROVE Less
<1>1. UNCHANGED <<stage, turn, attempt, todo, windows>> /\ sealed' = TRUE
  BY DEF Seal, exchange, law
<1>2. /\ Place' = Place /\ turn' = turn
      /\ Load(0)' = Load(0) /\ Load(1)' = Load(1) /\ Load(2)' = Load(2)
  BY <1>1 DEF Place, Load, Unanswered
<1>3. /\ Place \in Nat /\ turn \in Nat /\ TurnsMax \in Nat
      /\ Load(0) \in Nat /\ Load(1) \in Nat /\ Load(2) \in Nat
  <2>1. Bounded
    BY Measured DEF Inv
  <2>2. turn \in 0 .. TurnsMax
    BY DEF Inv, TypeOK
  <2> QED
    BY <2>1, <2>2, TurnsAssumption DEF Bounded
<1> QED
  BY <1>1, <1>2, <1>3 DEF Less, Remaining

(* What is left to do is never below zero, so there is an end to it.       *)
LEMMA RemainingIsNatural == Inv => Remaining \in Nat
<1> SUFFICES ASSUME Inv PROVE Remaining \in Nat
  OBVIOUS
<1>1. Bounded /\ turn \in 0 .. TurnsMax
  BY Measured DEF Inv, TypeOK
<1> QED
  BY <1>1, TurnsAssumption DEF Bounded, Remaining

(* The episode cannot go on for ever, whatever the players and the judge   *)
(* do: every step, of the episode or of an ask that outlives it, leaves    *)
(* less to do, and what is left is a natural number.                       *)
THEOREM EpisodeShortens == Spec => EveryStepShortens
<1>1. Inv /\ Inv' /\ Paced /\ [Next]_vars => [Shortens]_vars
  <2> SUFFICES ASSUME Inv, Inv', Paced, Next, ~ UNCHANGED vars PROVE Shortens
    OBVIOUS
  <2>1. ASSUME \E s \in Seats : Ask(s) \/ Send(s) PROVE Less
    BY <2>1, AskShortens, SendShortens
  <2>2. ASSUME \E r \in DOMAIN windows : Answer(r) PROVE Less
    BY <2>2, AnswerShortens
  <2>3. ASSUME \/ Introduced \/ Collect \/ Emit \/ GameOver \/ RuleAction \/ RuleTurn
               \/ \E p \in Seats : BeginTurn(p)
        PROVE  Less
    BY <2>3, StagesShorten
  <2>4. ASSUME NEW r \in DOMAIN windows, AnswerRaises(r) PROVE Less
    BY <2>4, EndShortens DEF AnswerRaises, law, Over
  <2>5. ASSUME EmitRaises \/ JudgeFails \/ CancelEpisode PROVE Less
    BY <2>5, EndShortens, Entered DEF Inv, EmitRaises, JudgeFails, CancelEpisode, law, Over,
                                      Public, Judging
  <2>6. ASSUME Seal PROVE Less
    <3>1. ~ sealed
      BY <2>6 DEF Seal, vars, Inv, TypeOK
    <3> QED
      BY <2>6, <3>1, SealShortens
  <2>7. Less
    BY <2>1, <2>2, <2>3, <2>4, <2>5, <2>6 DEF Next, Progress
  <2>8. Remaining \in Nat /\ Remaining' \in Nat
    <3>1. (Inv => Remaining \in Nat)'
      BY RemainingIsNatural, PTL
    <3> QED
      BY <3>1, RemainingIsNatural
  <2> QED
    BY <2>7, <2>8 DEF Shortens, Less
<1> QED
  BY <1>1, Invariance, PacedAlways, PTL DEF Spec, EveryStepShortens
-----------------------------------------------------------------------------
(* The course of the game.                                                 *)

Courses ==
  /\ stage \in {"introduce", "game_start"} => At = "between"
  /\ stage \in {"turn_start", "action", "action_repair", "action_made", "action_judge",
                "action_ruling"} => At = "action"
  /\ stage \in {"proposal", "proposal_made", "debate", "debate_made", "vote", "vote_reveal",
                "judge"} => At = "law"
  /\ stage \in {"judge_ruling", "next"} => At = IF won THEN "over" ELSE "between"
  /\ stage \in {"game_over", "done"} => At = "over"
  /\ stage \in Stopped => At = "failed"

LEMMA Coursed == Courses
BY Zenon DEF Courses, At, Stopped

LEMMA CourseInit == Init => Game!Init
BY Coursed DEF Init, Courses, Game!Init

LEMMA EmitCourse ==
  ASSUME Inv, Paced, Emit PROVE Game!Next \/ UNCHANGED <<At, turn, attempt>>
<1>1. Courses /\ Courses'
  BY Coursed, PTL
<1>2. /\ stage \in Public /\ stage' = AfterPublic(stage)
      /\ attempt' = IF stage' = "action_repair" THEN 2 ELSE attempt
      /\ turn' = turn /\ won' = won
  BY DEF Emit, Enter
<1>3. CASE stage = "action_ruling"
  <2>1. At = "action" /\ stage' \in {"action_repair", "next", "proposal"}
    BY <1>1, <1>2, <1>3, RulingLeads DEF Courses
  <2>2. CASE stage' = "action_repair"
    <3>1. attempt = 1 /\ attempt' = 2 /\ At' = "action"
      BY <1>1, <1>2, <1>3, <2>2, RulingLeads DEF Courses
    <3> QED
      BY <1>2, <2>1, <3>1 DEF Game!Next, Game!Repair
  <2>3. CASE stage' = "next"
    <3>1. won /\ attempt' = attempt /\ At' = "over"
      BY <1>1, <1>2, <1>3, <2>3, RulingLeads DEF Courses
    <3> QED
      BY <1>2, <2>1, <3>1 DEF Game!Next, Game!EndAction
  <2>4. CASE stage' = "proposal"
    <3>1. attempt' = attempt /\ At' = "law"
      BY <1>1, <1>2, <2>4 DEF Courses
    <3> QED
      BY <1>2, <2>1, <3>1 DEF Game!Next, Game!EndAction
  <2> QED
    BY <2>1, <2>2, <2>3, <2>4
<1>4. CASE stage # "action_ruling"
  <2>1. \/ stage = "game_start" /\ stage' = "next" /\ ~ won
        \/ stage = "judge_ruling" /\ stage' = "next"
        \/ stage = "turn_start" /\ stage' = "action"
        \/ stage = "action_made" /\ stage' = "action_judge"
        \/ stage = "proposal_made" /\ stage' = "debate"
        \/ stage = "debate_made" /\ stage' = "vote"
        \/ stage = "vote_reveal" /\ stage' = "judge"
        \/ stage = "game_over" /\ stage' = "done"
    BY <1>2, <1>4 DEF AfterPublic, Public, Paced
  <2>2. At' = At
    BY <1>1, <1>2, <2>1 DEF Courses
  <2> QED
    BY <1>2, <2>1, <2>2
<1> QED
  BY <1>3, <1>4

LEMMA StageCourse ==
  ASSUME Inv, Paced,
         Introduced \/ Collect \/ GameOver \/ RuleAction \/ RuleTurn
           \/ \E p \in Seats : BeginTurn(p)
  PROVE  Game!Next \/ UNCHANGED <<At, turn, attempt>>
<1>1. Courses /\ Courses' /\ TypeOK
  BY Coursed, PTL DEF Inv
<1>2. CASE Introduced \/ RuleAction
  <2>1. /\ \/ stage = "introduce" /\ stage' = "game_start"
           \/ stage = "action_judge" /\ stage' = "action_ruling"
        /\ turn' = turn /\ attempt' = attempt
    BY <1>1, <1>2, Entered DEF Introduced, RuleAction, law
  <2>2. At' = At
    BY <1>1, <2>1 DEF Courses
  <2> QED
    BY <2>1, <2>2
<1>3. CASE Collect
  <2>1. /\ stage \in Asking \ {"introduce"} /\ stage' = AfterAsking(stage)
        /\ turn' = turn /\ attempt' = attempt
    BY <1>3 DEF Collect, Enter, law
  <2>2. \/ stage \in {"action", "action_repair"} /\ stage' = "action_made"
        \/ stage \in {"proposal", "debate", "vote"}
           /\ stage' \in {"proposal_made", "debate_made", "vote_reveal"}
    BY <2>1 DEF AfterAsking, Asking
  <2>3. At' = At
    BY <1>1, <2>2 DEF Courses
  <2> QED
    BY <2>1, <2>3
<1>4. CASE GameOver
  <2>1. /\ stage = "next" /\ stage' = "game_over" /\ (won \/ turn = TurnsMax)
        /\ turn' = turn /\ attempt' = attempt
    BY <1>1, <1>4, Entered DEF GameOver
  <2>2. At = (IF won THEN "over" ELSE "between") /\ At' = "over"
    BY <1>1, <2>1 DEF Courses
  <2> QED
    BY <2>1, <2>2 DEF Game!Next, Game!ReachCap
<1>5. CASE RuleTurn
  <2>1. /\ stage = "judge" /\ stage' = "judge_ruling"
        /\ turn' = turn /\ attempt' = attempt
    BY <1>1, <1>5, Entered DEF RuleTurn
  <2>2. At = "law" /\ At' \in {"between", "over"}
    BY <1>1, <2>1 DEF Courses
  <2> QED
    BY <2>1, <2>2 DEF Game!Next, Game!EndTurn
<1>6. CASE \E p \in Seats : BeginTurn(p)
  <2>1. /\ stage = "next" /\ stage' = "turn_start" /\ ~won
        /\ turn < TurnsMax /\ turn' = turn + 1 /\ attempt' = 1
    BY <1>6 DEF BeginTurn, Enter
  <2>2. At = "between" /\ At' = "action"
    BY <1>1, <2>1 DEF Courses
  <2> QED
    BY <2>1, <2>2 DEF Game!Next, Game!BeginTurn
<1> QED
  BY <1>2, <1>3, <1>4, <1>5, <1>6

LEMMA StopCourse ==
  ASSUME stage' \in Stopped, turn' = turn, attempt' = attempt PROVE Game!Next
<1>1. At' = "failed"
  <2>1. Courses'
    BY Coursed, PTL
  <2> QED
    BY <2>1 DEF Courses
<1> QED
  BY <1>1 DEF Game!Next, Game!Fail

(* The exchange of messages is the exchange of a game: turn follows turn   *)
(* up to the cap, one repair of an action at most, a law unless the action *)
(* has won, and nothing after a victory, for any number of turns.          *)
THEOREM CourseTaken == Spec => TakesTheCourse
<1>1. Inv /\ Paced /\ [Next]_vars => [Game!Next]_<<At, turn, attempt>>
  <2> SUFFICES ASSUME Inv, Paced, [Next]_vars
               PROVE  Game!Next \/ UNCHANGED <<At, turn, attempt>>
    OBVIOUS
  <2>1. CASE Emit
    BY <2>1, EmitCourse
  <2>2. CASE \/ Introduced \/ Collect \/ GameOver \/ RuleAction \/ RuleTurn
             \/ \E p \in Seats : BeginTurn(p)
    BY <2>2, StageCourse
  <2>3. CASE \/ UNCHANGED vars \/ Seal
             \/ \E s \in Seats : Ask(s) \/ Send(s)
             \/ \E r \in DOMAIN windows : Answer(r)
    <3>1. UNCHANGED <<stage, won, turn, attempt>>
      BY <2>3 DEF vars, exchange, law, Seal, Ask, Send, Answer
    <3> QED
      BY <3>1 DEF At
  <2>4. ASSUME NEW r \in DOMAIN windows, AnswerRaises(r) PROVE Game!Next
    BY <2>4, StopCourse DEF AnswerRaises, law, Stopped
  <2>5. CASE EmitRaises \/ JudgeFails \/ CancelEpisode
    BY <2>5, StopCourse, Entered DEF Inv, EmitRaises, JudgeFails, CancelEpisode, law, Stopped
  <2> QED
    BY <2>1, <2>2, <2>3, <2>4, <2>5 DEF Next, Progress
<1> QED
  BY <1>1, CourseInit, Invariance, PacedAlways, PTL DEF Spec, TakesTheCourse, Game!Spec
=============================================================================
