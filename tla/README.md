# Gnomic: a formal model

Gnomic is a Nomic-style game for three AI players. A game server runs one episode: players connect over WebSocket,
act, propose rule changes, debate and vote in secret; a judge (a language model, or the deterministic certification
judge) turns each passed proposal into operations on the rulebook and the public state; the server seals a private
record of every decision and publishes results. A collector plays the same episode in one process to gather training
data. This directory holds the TLA+ model of that program, the TLC configurations that check it on small instances, and
TLAPS proofs of its safety properties for instances of any size.

Paths are relative to the repository, line numbers refer to the modelled commit.

## 1. The system

| Part | State it keeps | Operations | Talks to | What is hard |
|---|---|---|---|---|
| Engine (`gnomic/engine.py`) | `Board`: rules with versions and histories, `next_rule_id`, points, the `common` dictionary | rule operations, state operations, `apply_ops_atomic`, `proposer_for_turn`, victors | called by the judge boundary and the episode | sequences of legal operations that reach an illegal state; a ruling that fails half way; rotation under rewritten orders |
| Judge (`gnomic/judge.py`) | usage counters and generations only | `LlmJudge.rule`/`act` with gate, dry run and one repair; `CertificationJudge.rule` with its award and its projected winners; `adjudicate`, `adjudicate_action` | engine, native transport | the model judge is untrusted; the certification judge has no dry run and declares winners from a projection |
| Episode (`server/episode.py`) | phase, turn, history, events, `winner_slots`, rid counter | introductions, action with repair, proposal, debate, vote, ruling, turn loop | seats through channels, spectators through `broadcast`, the private capture | windows in parallel, messages sent at each seat's own pace, an ask that fails while its siblings go on |
| Seat channels (`server/channel.py`, `ws_channel.py`) | queue, `active_rid`, evidence journal, stop and seal state | reader loop, `recv_reply`, `stop_player`, `seal`, `settle_channels` | player process, episode, capture, game server | three tasks on one object; late replies and evidence; an acknowledgement that races open evidence |
| Player process (`lifecycle.player_loop`, `players/sdk.py`, `players/llm.py`, `llm_transport.complete_native`) | running callback, backlog, native calls | requests, stop handshake, evidence of up to two calls a decision | the channel, a model provider | cancelling a native call and proving it is over before acknowledging; a policy that swallows the failure to do so |
| Private capture (`gnomic/training.py`) | a window per request with its deadline, its attempts and executed action; ingress issues; `sealed` | `delivered`, `receive`, `consumed`, `finish` | episode, channels, server | a second journal of the same frames under other rules; what a "completed" status rests on |
| Game server (`server/app.py`) | channels per seat, `registered_channels`, the `_run` task, settlement, deadlines, `private_written`, spectators | `player_ws`, start, `_run`, `stop`, artifact writes, `broadcast`, `global_ws`, the spectator drain | everything | three ways out of `_run`, cancellation inside `except` and `finally`, reconnections during a settlement, writes that fail |
| Collector (`tools/export_posttrain.py`, `lifecycle.run_owned`) | the engine task, the player tasks, one cleanup deadline, the record | `collect`, its `finally`, the first signal | in-process channels, capture | a `return` before a `finally` that may decide otherwise; a signal thrown into the `finally` |
| Prompts, commissioner, viewer, scripts, packaging | none that the protocol reads | | | not modelled; see section 8 |

What makes each part correct:

* **engine and judge**: identifiers are never reissued; protection ends only by transmutation; histories only grow;
  only an adopted proposal changes the rulebook, and only as it says; a ruling lands whole or not at all; nobody who
  has reached the threshold on a checked turn is overlooked; proposers rotate through the order in force; the winners
  that are projected are the ones the points name afterwards;
* **episode**: everybody hears the same story; statements and votes are hidden until all windows close; a normal end
  leaves a whole record, and nothing changes it afterwards; it ends;
* **seat connection**: a reply answers its own window; evidence an SDK player sends in good order is never refused; an
  acknowledged stop means joined readers, complete evidence and an idle player; the private record agrees with the channel's journal or says that it
  does not; windows and stops always resolve;
* **game server**: the private record is sealed once, artifacts appear only with a completed one, a completed one has
  every connection's acknowledgement, and the process always ends with a sealed record;
* **spectators**: nobody past its replay misses an event, unless its broadcast was cut short; nobody holds a broadcast
  up; and a finished game waits for every viewer that is still there, up to the cap;
* **collector**: a record says completed only of a joined game, a listed game is the record that was written, every way
  out of a game but one leaves a record, and a signal ends it.

## 2. The modules

```
Course ─┬─ Moot ── MCMoot                           law
Engine ─┘    └─ MootProofs                          (TLAPS; with EngineProofs)
Course ─── Episode                                  episode, malformed
             └─ EpisodeProofs                       (TLAPS)
SeatWire ─┬─ Capture ── SeatChannel ─┬─ SeatLink    seat_stop, seat_record, seat_late
          └──────────── PlayerLoop ──┘    └─ SeatLinkProofs ── SettlementProofs   (TLAPS)
ConnectionEnd ─┬─ SeatLink
               └─ GameServer ── MCGameServer        server, reconnect
                      └─ GameServerProofs           (TLAPS)
EpisodeOutcome ─┬─ GameServer
                └─ Collector                        collector, collector_lost
                      └─ CollectorProofs            (TLAPS)
Spectators                                          spectators, late_viewer
   └─ SpectatorsProofs                              (TLAPS)
```

Course, ConnectionEnd and EpisodeOutcome are abstract: what two models of the same code must both implement.

**Engine** is the pure part of `engine.py`: operators on a board record. `apply_rule_op` and `apply_state_op` are
`_apply_rule_op` and `_apply_state_op`, and `RuleOpOk`/`StateOpOk` say when they do not raise, the runtime validation
that follows every state operation included. `common` is a function whose domain is the set of keys present, so that
deletion and defaults behave as in the code. Texts are members of a set; `Unusable` stands for any input refused
whatever the board (blank, too long, ill-typed, oversized).

**Moot** is `Episode._run_turn` as the law sees it, one operation of a ruling per step. `cand` is the copy that
`apply_ops_atomic` works on. `DraftRuling` offers *any* draft; `GateOk` is what `LlmJudge.rule` demands of it; `Refused`
drops the candidate, grants the one repair and then fails the episode. With the certification judge the ruling is
`DraftCertified`: the proposal's own operation if the vote passed, then the orders (`CertifiedOrders`) for the award and
the die, with the winners computed from the points projected *before* they are applied. `Entropy` is the seeded digest,
as the two numbers the code takes from it. `served` and `rewound` are history variables for the rotation property.

**Episode** is the exchange behind that turn. A stage is a request kind, a public message or a ruling. `Ask` opens
windows in seat order, `Answer` is a reply or a default with its `Capture.consumed`, `Collect` is the `gather` that
waits for all of them, `Send`/`Emit` are `_send_all`/`_emit` with every send at its own pace. Failures leave sibling
asks alive (`Answer` in stage `failed`), a cancellation does not. `heard` is the public messages each seat was sent. The
outcomes of the law are free choices here, the messages to the seats are left out of Moot: the two modules are two views
of the same code.

**Course** ties the two views together. It is the course of a game and nothing else: turns up to a cap, an action with
one repair, a law unless the action has won, an end. Moot maps its operations onto it and Episode its stages
(`TakesTheCourse` in both), so that no order of stages in the one is missing in the other.

**SeatWire**, **Capture**, **SeatChannel**, **PlayerLoop** and **SeatLink** are one seat's connection: two FIFO streams
that a cut truncates, the private record as far as one seat fills it, the server's end, the player's end, and their
composition. Evidence of a native call goes `started`, `open` (a response is being read), then `ended` (no response),
`whole` or `torn` (the reader joined, on a complete or a partial body) or `unjoined`. `Rejected` collects the
`ValueError`s of `consume_progress`: a rejected frame *breaks the reader*, as in `_read_loop`. An accepted one goes to
both journals, and `Refused` is what the capture turns away all the same. A policy is what the protocol sees of
`players/llm.py`: how many calls a decision makes (Opus makes a second one after a response it cannot use), whether it
answers without one, and whether it swallows `OwnershipUnsettled`. `Stray` adds frames of players not built on the SDK.

**ConnectionEnd** is how one connection ends, in four variables: its reader, the deadline, its stage and whether it has
acknowledged. It is vouched for only after its own acknowledgement, in time and over a reader that was reading, and what
was withheld stays withheld. SeatLink implements it with the frames of one connection (`EndsAsPromised`); GameServer,
which has no frames, implements it for every connection it ever accepted (`ConnectionsEnd`). This is what justifies the
one-step acknowledgement of GameServer: it is a step of the same abstract connection.

**GameServer** has one action per stretch of code between two awaits: `Connect`/`Replace` (`player_ws` registers before
an await and installs after it), `EnterJoin` (the one settlement everybody joins), the body, handler and `finally` of
`_run`, and `RequestStop` with `AfterCancel`, which says where a cancellation leaves `_run`. Writes of the record and of
artifacts may fail. **EpisodeOutcome** is its abstract specification; the refinement is `KeepsItsPromise`, with
`private` mapped to the record. Collector implements it too, as an episode without public artifacts.

**Spectators** is `broadcast` against `global_ws`, and what comes after: the fatal event of a failed episode and the
drain, which is left when the set of spectators is empty (`LeaveDrain`), at its cap (`CapDrain`) or because of a stop
(`SkipDrain`). The Python set iteration is modelled by what it does: it raises when the set has another size than at the
start, and may or may not visit a member added meanwhile. An exception out of it, a failure of the episode or the
cancellation of a timeout may end a broadcast in the middle (`Abandon`): the viewers it has not come to are not sent that
event, and the dead it has met stay in the set. `interrupted` remembers such events.

**Collector** is `collect` under `run_owned`. `stage` names the await the coroutine is suspended in, so that a step is
the code between two awaits, and `Interrupt` throws the cancellation of a signal at whichever it is: in the body it
leads into the `finally`, in the `finally` it leaves it.

## 3. The runs

| Run | Bounds | States | What it shows |
|---|---|---|---|
| `law` | 3 or 4 turns, four agendas: rulebook, orders, score, certification judge | 658 k | the rulebook follows adoption and is sound; rulings are atomic and a repaired draft starts afresh; the rotation follows the order; no victory is missed; the certification judge's winners are the right ones; the turns take the course of a game |
| `episode` | 2 turns, 3 seats | 23 k | one story, hidden statements and votes, whole record, sealing; it takes the course of a game, and every step brings its end nearer |
| `seat_stop` | 1 window, 2 native calls, scripted and Opus | 394 k | what a positive settlement stands on; everything asked or stopped resolves |
| `seat_record` | 2 windows, 1 native call, Haiku, Native, and a foreign player with 2 frames of its choosing | 3.9 M | answers are own, what may break the reader, both journals, the acknowledgement, the exactness of a completed record, refinement of `ConnectionEnd` |
| `server` | 2 seats, 3 connections (two for one seat) | 957 k | settlement, record, refinement of `EpisodeOutcome` and, by every connection, of `ConnectionEnd`; no step twice, exit |
| `spectators` | 2 viewers, 2 events, a failure or a cancellation anywhere, the fatal event and the drain | 867 k | nothing is missed but an event cut short; broadcasts end; no viewer that is still there is overlooked by the drain |
| `collector` | 3 players, an engine and players that may fail or never end, a signal | 6.2 k | what is sealed, listed and kept, and that a signal ends the game |
| `seat_late`, `reconnect`, `malformed`, `late_viewer`, `collector_lost` | as small as they need | | the findings of section 6 |

Why the bounds are enough to be interesting:

* *law*: an agenda, chosen in the initial state, says what the seats may propose and what the judge may do. A protected
  rule needs a transmutation, a ratified amendment and a repeal to go through every state, which is three turns; an
  enacted rule can be amended afterwards. Orders shorter and longer than the number of seats, with the cursor behind and
  past their ends, occur within four turns. The threshold of 6 is within reach of two awards. `MaxRules = 6` holds the
  two founding rules and one more per turn, as the program's 64 hold its 13 and 45. That the bound is never met is also
  proved (section 5).
* *episode*: the second turn is where anything left over from the first would show.
* *seat*: with two windows a reply, a request and a native call can each be one window late; a third window only repeats
  this. The second call of a decision needs one window only. Two strays are enough to contradict a journal entry; a
  `Depth` of two or three frames makes a sender wait.
* *server*: two seats distinguish "this seat" from "all seats"; two connections for one seat give the replacement in
  every state of the episode and of the settlement.
* *spectators*: with two, one can join as the other leaves, which keeps the size of the set and hides the change from
  the iteration.
* *collector*: three players, as in the program; one game, as nothing is carried from one game to the next.

`CHECK_DEADLOCK FALSE` is set where the system really stops: the connection is closed, the process has exited, the
episode is over. In Moot and Collector the end is an explicit step (`Ended`, `Adjourn`, `Over`), so deadlock is checked
there.

Every property of a passing run has a mutant (listed in `PROJECT.json`, defined beside the definition it replaces and
commented as such): a plausible bug of the code that makes TLC report that property. Some properties are theorems
(section 5) and are not run again, because a run already checks what rests on them: the type invariants,
`EveryConnectionOwned` and `WaitsAreBounded` (under `CompletedIsWhole`, `ConnectionsEnd` and `AlwaysExits`),
`OneWindowPerSeat` (under `EveryStepShortens`), `OutcomesStand` (beside `AnswersAreOwn`), `PastIsKept` (beside
`RulebookSound`), and the collector's `KeepsItsPromise` and `CollectAdvances` (beside `RecordKept` and `SignalEnds`).

## 4. Fairness

* *Episode*: weak fairness of progress. Every window has a deadline (`recv_reply`), both rulings run under
  `judge_window_s` (`bounded`), the loop is finite; a send to a peer that stopped reading ends when the server's
  WebSocket pings time out. Nothing forces a reply, a failure or a cancellation.
* *SeatLink*: the server's reader, window timers, stop deadline and owner are tasks and timers of one event loop, and
  are weakly fair. A player is only fair once it has taken a stop, when its own deadlines run. Cuts, replies, calls and
  strays are not fair. The episode's end (`StopPlayer`) is not fair either: `StopResolves` starts there.
* *GameServer*: `start_after_timeout`, `episode_timeout_seconds`, the owner's deadline and the spectator drain's cap
  make the server's own steps weakly fair. Acknowledgements, connections, failures and signals owe nothing.
* *Spectators*: the steps of a broadcast in progress, for the same reason as a send to a seat. Viewers owe nothing, and
  nothing says that the episode or the drain goes on: that the process exits is `AlwaysExits` of GameServer.
* *Collector*: timers fire and the event loop resumes `collect`. Nothing is asked of the engine, of a model call that
  ignores its cancellation, or of the players. `run_owned` gives the cancelled game 0.1 s beyond the cleanup deadline,
  which the model takes as enough for the steps that are left; cancelling a coroutine and throwing the `CancelledError`
  into it are one step.

## 5. What is proved

The proof modules hold for every value of the constants: every rulebook size, every set of texts and proposals, every
cap on turns, any number of windows, native calls, strays, connections, viewers, events and players.

| Module | Theorem | Statement |
|---|---|---|
| `MootProofs` | `TypeCorrect` | `Spec => []TypeOK`: every field the host reads at run time keeps its range |
| | `RulebookIsSound` | `Spec => []RulebookSound` |
| | `RulebookHasRoom` | `Spec => []RulebookNeverFull`: the branch at `engine.py:275` is dead code |
| | `LawOnlyByAdoption` | `Spec => LawFollowsAdoption` |
| | `ProtectionEndsByTransmutation` | `Spec => ProtectedOnlyTransmuted` |
| | `PastNeverRewritten` | `Spec => PastIsKept` |
| | `RulingsAreAtomic` | `Spec => AllOrNothing` |
| | `VictoryNotMissed` | `Spec => []NoMissedVictory` |
| | `RotationHolds` | `Spec => []RotationFollowsOrder` |
| | `WinnersAreProjected` | `Spec => []ProjectionIsExact` |
| | `OnlyAProposalFails` | `Spec => []CertifiedFailsOnProposal` |
| | `LawTakesTheCourse` | `Spec => TakesTheCourse`: Moot implements Course |
| `SeatLinkProofs` | `ConnectionTyped` | `Spec => []TypeOK` |
| | `AcksMeanJoined` | `Spec => []AckMeansJoined` |
| | `RecordAndJournal` | `Spec => []RecordFollowsJournal` |
| | `RepliesAreOwn` | `Spec => []AnswersAreOwn` |
| | `OutcomesFinal` | `Spec => OutcomesStand` |
| | `ConnectionEnds` | `Spec => EndsAsPromised`: SeatLink implements ConnectionEnd |
| `SettlementProofs` | `SettledWhole` | `Spec => []SettledIsWhole` |
| | `CompletedExact` | `Spec => []CompletedIsExact` |
| | `OnlyLatenessBreaks` | `Spec => []BreaksLate`: an SDK player's evidence in good order is never refused |
| `EpisodeProofs` | `ExchangeTyped` | `Spec => []TypeOK` |
| | `OneAskPerSeat` | `Spec => []OneWindowPerSeat` |
| | `StaysHidden` | `Spec => []HiddenUntilAllClosed` |
| | `EndsWhole` | `Spec => []DoneIsWhole` |
| | `SealStands` | `Spec => SealedStands` |
| | `OneStory` | `Spec => []SameStory` |
| | `CourseTaken` | `Spec => TakesTheCourse`: Episode implements Course |
| | `EpisodeShortens` | `Spec => EveryStepShortens`: no step of an episode makes what is left longer |
| `GameServerProofs` | `ServerTyped` | `Spec => []TypeOK` |
| | `ConnectionsOwned` | `Spec => []EveryConnectionOwned` |
| | `CompletedWhole` | `Spec => []CompletedIsWhole` |
| | `SealedAtExit` | `Spec => []ExitsSealed` |
| | `PromiseKept` | `Spec => KeepsItsPromise`: GameServer implements EpisodeOutcome |
| | `EveryConnectionEnds` | `Spec => ConnectionsEnd`: every connection implements ConnectionEnd |
| | `BoundedWaits` | `Spec => []WaitsAreBounded` |
| | `NothingRepeats` | `Spec => ServerAdvances`: the server takes fewer than twenty steps of its own |
| `SpectatorsProofs` | `StreamTyped` | `Spec => []TypeOK` |
| | `NobodyMissesAnEvent` | `Spec => []NothingMissed` |
| | `NobodyIsCutOff` | `Spec => NobodyCutOff`: the drain is left early only over viewers that have closed |
| `CollectorProofs` | `CleanupHasDeadline` | `FairSpec => []TypeOK`: no await of the cleanup is without the deadline |
| | `CompletedMeansJoined` | `FairSpec => []CompletedIsJoined` |
| | `ListedWasSealed` | `FairSpec => []ListedIsSealed` |
| | `RecordIsKept` | `FairSpec => []RecordKept` |
| | `PromiseKept` | `FairSpec => KeepsItsPromise`: Collector implements EpisodeOutcome |
| | `CollectorAdvances` | `FairSpec => CollectAdvances`: at most ten steps, the signal among them |

**Assumptions.** For the law: at most 100 protected founding rules (so that 101, 102, ... stay below 201), `MaxRules`,
`MaxOps` and `MaxProposerSequence` natural, the last at least three; founding rules and turns together at most `MaxRules`
(the program's 13 + 45 <= 64); proposals and operations of the shapes the parsers let through; room for three operations
in a ruling where the certification judge sits. For the rest: bounds that are natural numbers, policies among the
bundled ones, a finite set of viewers. TLC evaluates the same assumptions in every run.

**The law** (`EngineProofs`, `MootProofs`). None of the invariants is inductive by itself: when a ruling commits, the new
board is the *candidate*, about which `TypeOK` and `RulebookSound` of the board say nothing. `Inv` adds three things.
`CandidateOk` says what the gate and the dry run buy: during a ruling the candidate's rulebook is the board's, or the
board's with exactly the adopted proposal's operation applied, and then the vote passed. `LawTurn` dates the rulebook:
until this turn's ruling has landed nothing on the board is of this turn, so that a rule is revised at most once a turn
and the number of rules is bounded by the founding rules plus the turns ruled on. `CertifiedOk` keeps the certification
judge's account: the candidate's points plus what its remaining orders owe are the projection, and no more operations
are left than the limit allows, so that only the adopted rule operation can be refused. `CandidateRotation` carries the
cursor through the operations of a ruling, with the lemmas about remainders that the cyclic order needs. `EngineProofs`
has the lemmas about the operators: the founding board, `Seating` (`proposer_for_turn` keeps the cursor inside the
order), `StateOperation` (the runtime validator keeps every field in range), and `RuleOpTyped`, `RuleOpSound`,
`RuleParts`, `EnactEffect`, `ReviseEffect` (what each rule operation does and preserves).

**A seat** (`SeatLinkProofs`). `Streams` types the two ways a reply travels by the replies that were sent: every reply in
transit or in the queue is one the player made, and `Asked` ties the open window to its outcome. The acknowledgement and
the agreement of the two journals follow from the channel's own checks alone and so hold against every player. So does `ConnectionEnds`:
`Clocked` adds that the stop is what sets the deadline, and each step is then a step of ConnectionEnd or a stutter.

**A settlement** (`SettlementProofs`). What the server concludes about an SDK player from one frame, the acknowledgement,
needs an invariant about the whole way of a call. `PlayerInv`: the calls of a window are numbered without a gap, only the
latest can be in flight, and a player that acknowledged is idle. `StreamInv`: as long as the stream can still bring an
acknowledgement, the last version of every call that the server has, or has on its way, is the true one; the
acknowledgement is the last frame, so that a cut in front of which it survives has lost nothing; and once it is accepted
the stream is empty and the journal is the truth. `Books` carries this to the settlement and to the record. A foreign
player is excluded from it: about one only the theorems of `SeatLinkProofs` hold.

`OnlyLatenessBreaks` is the other side: what the server refuses of an SDK player's frames. `Extends` only compares a
frame with the journal, so the invariant orders the frames among themselves. `Spoken` says that a frame on its way is a
stage of a real call (`Credible`), that two frames about one call are in the order of its stages (`Ordered`), and that the
journal is at a stage before each of them (`Heard`), for as long as the reader reads. `Dated` says that no request is on
its way, queued or in hand before its window was opened, so that a call of a window the server has not reached does not
exist. What is left for a refusal is a call begun for a superseded window, the deadline, and a transport that would not
close; `ExcuseStays` keeps that true afterwards.

**The episode** (`EpisodeProofs`). `Windowed` ties the stage to the windows that may be open, `Chronicle` the record to
the stages passed, `Unheard` what has been said to what has been sent.

`SameStory` is not inductive: two seats that were sent equally much may, for all it says, be sent different things next.
`InStep` says that each seat has been sent exactly the spectators' events and, once it has been served, the message of the
present stage. A failure or a cancellation leaves the seats wherever the sends had got to; `Told` keeps of `InStep` that
one message is all some seats have more than the spectators.

`EveryStepShortens` is the variant of an episode. `Place` ranks the stages, those of the first action attempt above those
of the repair. A turn is worth 18 places and a place seven steps, as each of the three seats is asked and then answers.
That the public messages lead down this order needs `Paced`: a repair follows only a first attempt, and only a victory
skips the law. That a reply takes its seat's load away needs `OneWindowPerSeat`. `CourseTaken` follows from the same facts.

**The server** (`GameServerProofs`). `Settlement` relates the joins to the one settlement task and `Ways` the program
counters of `_run` and `stop` to the record. `PromiseKept` maps every step to a step of EpisodeOutcome or to a stutter,
`EveryConnectionEnds` every step, for every connection, to one of ConnectionEnd. `WaitsAreBounded` is not inductive, as
what comes after a join has forgotten it; `Waits` says that all those stages have the settlement behind them.
`NothingRepeats` counts down what `_run`, the two calls of `stop`, the settlement and the deadline have left.

**Spectators** (`SpectatorsProofs`). `Listed` and `Covered`: what the live loop has not sent a registered viewer is in
the log the viewer will copy, or is the event it is about to be sent, or was cut short. A viewer that has not closed is
`Listed` in the set at every step, whatever was abandoned, which is why an empty set means nobody is there.

**The collector** (`CollectorProofs`). `Secured` says what each await has already secured, `Sealed` what a record and an
outcome rest on. `CollectorAdvances` counts down the awaits, the signal and the deadline.

**Only model-checked.** Every invariant, action property and refinement of the passing runs is a theorem. What stays with TLC
is out of the prover's reach: `ENABLED`, and so everything under fairness (`EpisodeEnds`, `StopResolves`, `WindowsClose`,
`StoppedPlayerLeaves`, `AlwaysExits`, `BroadcastsEnd`, `SignalEnds`). For three of these the part that is
about the code is proved all the same. `EpisodeShortens`, `NothingRepeats` and `CollectorAdvances` are variants: they
bound the steps of any execution, for any number of turns and of connections, and leave to TLC that a step the code owes is
enabled. `BoundedWaits` shows for the server what that rests on, that nobody waits without a deadline. Induction over data
is not needed: no module declares a recursive operator.

## 6. What the checks found

* **A late request costs the whole connection** (`seat_late`, `channel.py:133`). Evidence for a window that is no
  longer active raises in `consume_progress`; `_read_loop` does not catch `ValueError`, so the reader dies while the
  channel still counts as connected. All later windows of the seat default and the results are withheld at settlement.
  `docs/player_protocol.md:4-5` promises a default for the late action alone. An SDK player gets there by taking a
  request up after its window closed, since its own deadline counts from that moment.
* **A reconnected player is not heard** (`reconnect`, `app.py:381`). The application swaps the channel, the Episode
  keeps the list it was built with. `ws_channel.py:4-5` promises replies again after the swap.
* **A malformed vote can end the game** (`malformed`, `episode.py:338`). A vote or `vote_intent` that is a JSON list or
  object is unhashable; the parser raises instead of defaulting to nay.
* **A spectator may see an event twice or out of order** (`late_viewer`, `app.py:404`), against
  `docs/global_protocol.md:3-4`.
* **An interrupted collection may leave no record** (`collector_lost`, `export_posttrain.py:76`). A signal that arrives
  while the `finally` of `collect` is settling throws the cancellation into the `finally`, which is left before `seal`.
  `README.md:225-226` and the message at `export_posttrain.py:174` promise one private partial record.

Met while modelling, and not the subject of a run:

* A replaced connection can never acknowledge, so after any reconnection the results of the episode are withheld.
* The iteration over the spectator set raises when a viewer joins or leaves under a send, and ends the episode
  (`app.py:84`). The viewers it had not come to are not sent the event (`NothingMissed` excepts it).
* A viewer that closes during its hello or its replay is not discarded by its handler, as both come before the `try` of
  `global_ws` (`app.py:394-405`), but by the next broadcast. After the last one there is none, and the drain lasts its
  whole 120 s for nobody (`ReplayRaises`, then `CapDrain`), although `app.py:36-37` says that the cap only bounds a live
  viewer.
* `settle` drops the `OwnershipUnsettled` of a cancelled callback (`lifecycle.py:48`), so that the player acknowledges
  over an unjoined reader and only the server's journal check refuses it, which is why `AckMeansJoined` is stated about
  the server.
* A native call begun after the record's deadline but before the next window is in the channel's journal and not in the
  record, which may still be completed; it then carries an ingress issue. `README.md:153-157` lists started calls among
  what the journal retains. `CompletedIsExact` is stated about completed records without an issue for this reason, and
  `RecordFollowsJournal` says the issue is always there.
* A signal that arrives as a collected game ends is swallowed: `run_owned` returns the result of a task that is done
  (`lifecycle.py`), and the collector goes on to its next game with signals ignored.

## 7. Plan

Done, in this order: Engine and Moot with their proofs; the seat connection; the game server; Episode; Spectators; then
Capture as the second journal of a seat, several native calls a window and the bundled policies; the certification
judge; the drain; the collector; the proofs of the seat, the server, the episode, the spectators and the collector; and
then the contracts that tie the modules together (Course, ConnectionEnd, EpisodeOutcome) with their refinement proofs, and
the variants of the episode, the server and the collector.

Left:

1. **SdkSession**: the reconnect loop of `run_ws_player` over several connections, with `GameView.fold` of snapshots. A
   reconnected player is not asked again (section 6), so that what it keeps has no effect on the game as it stands.
2. The suffixing of names and the introductions (`episode.py:206`).
3. Variants for the seat connection and the spectators, as for the other three.
4. The single deadline that `shutdown_deadline` passes through nested owners.

## 8. Abstractions, and what is not modelled

* Messages without a rid are not on SeatWire: the channel neither waits for nor answers them. Sends are FIFO and lost
  only by a cut. The reader's own 2 s join in `close_reader` always succeeds once the reader is cancelled.
* Evidence carries no bytes: `Extends` says which version may follow which. The record's choice of an accepted attempt
  and the record's contents are left out; its windows, deadlines, attempts, issues and status are not.
* SeatLink's acknowledgement of one connection is the single choice `Acknowledge` in GameServer and `PlayerAcks` in
  Collector; the engine's own tasks and the judge's native call are the choice in `Settle`. A capture destination is
  configured (`COGAME_SAVE_TRAJECTORY_URI`); without it no record is written at all.
* In Collector a write of the record always succeeds, and `main`'s loop over variants and seeds is left out. A finish
  status other than completed (`export_posttrain.py:65-67`) cannot come of the scripted policy that collects.
* `GameServer.done` only ends connection handlers that have nothing left to do, and is left out.
* `NullSeatChannel` defaults at once and keeps nothing. `GameView` folds public messages into what a prompt shows; no
  decision of the protocol reads it.
* The judge's text, the summaries, the players' prose, prompts and their parsing, pydantic validation, HTTP routes,
  replay mode, configuration, artifact formats, the browser viewer, the commissioner, scripts and packaging are not
  modelled: they keep no state the properties are about. `PROJECT.json` lists every part with its status and reason.
