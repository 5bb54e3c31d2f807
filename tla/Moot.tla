-------------------------------- MODULE Moot --------------------------------
(***************************************************************************)
(* The law-making of a Gnomic episode: Episode._run_turn with the judge    *)
(* boundary of gnomic/judge.py, at the granularity of one operation of a   *)
(* ruling per step.  The players' messages are reduced to what the law     *)
(* sees of them (a proposal, a vote count); module Episode has the         *)
(* messages.                                                               *)
(*                                                                         *)
(* The model judge is arbitrary: it may draft any ruling.  What stands     *)
(* between a draft and the board is the host's gate, the dry run on a      *)
(* copy, the single repair, and the commit.  cand is that copy: the        *)
(* candidate of Board.apply_ops_atomic.  The certification judge computes  *)
(* its ruling, and has neither a dry run nor a repair.                     *)
(***************************************************************************)
EXTENDS Engine

CONSTANTS TurnsMax,   \* config.turns_max
          Proposals,  \* what a proposer may put forward
          ScalarOps,  \* state operations with a number or a name as value
          OrderOps,   \* state operations on proposer_order
          Declared,   \* the winner sets a model judge may declare
          Judges,     \* the judges the episode may have
          Entropy     \* host_random.entropy

ASSUME TurnsAssumption ==
  /\ TurnsMax \in Nat \ {0}
  /\ ProtectedCount + MutableCount + TurnsMax <= MaxRules

ASSUME ProposalsAssumption ==
  Proposals \subseteq
    [kind : {"enact"}, text : Texts]
      \cup [kind : {"amend"}, rule_id : Int, text : Texts]
      \cup [kind : {"repeal", "transmute"}, rule_id : Int]

ASSUME OpsAssumption ==
  \A op \in ScalarOps \cup OrderOps :
    op.scope = "player" \/ (op.scope = "common" /\ op.key \in CommonKeys)

ASSUME DeclaredAssumption == Declared \subseteq SUBSET Seats

(* A certified ruling takes up to three operations.                        *)
ASSUME JudgesAssumption ==
  /\ Judges \subseteq {"model", "certification"}
  /\ Entropy \subseteq Nat
  /\ "certification" \in Judges => MaxOps >= 3

VARIABLES board,     \* Episode.board
          turn,      \* Episode.current_turn
          phase,     \* where the turn is
          proposer,  \* this turn's proposer
          attempt,   \* 1, or 2 for the action repair
          tries,     \* the judge's first or second draft of this ruling
          proposal,  \* the proposal put forward
          passed,    \* turn_record["passed_vote"]
          draft,     \* the rule operations of the draft still to be applied
          adopted,   \* Ruling.adopted of the draft
          cand,      \* the candidate the draft is applied to
          applied,   \* operations applied to cand
          judge,     \* Episode.judge
          orders,    \* what the certification judge has still to apply
          winners,   \* Episode.winner_slots
          served,    \* history: proposers taken from the order since it was set
          rewound    \* history: the draft has rewritten the order

judging == <<judge, cand, draft, adopted, applied, rewound, orders>>
vars == <<board, turn, phase, proposer, attempt, tries, proposal, passed,
          draft, adopted, cand, applied, judge, orders, winners, served, rewound>>

Phases == {"turn", "action", "action_ops", "propose", "vote", "rule",
           "ruling_ops", "over", "failed"}
RuleOps == {proposal_rule_op(p) : p \in Proposals}
RuleOpLists == {<< >>} \cup {<<o>> : o \in RuleOps} \cup {<<o, o>> : o \in RuleOps}

NoProposal == [kind |-> "none"]

PointOps == [op : {"increment"}, scope : {"player"}, seat : Seats, key : {"points"},
             value : Int]
Award(s, n) ==
  [op |-> "increment", scope |-> "player", seat |-> s, key |-> "points", value |-> n]
NoOrders == [ops |-> << >>, winners |-> {}]

Init ==
  /\ board = InitialBoard
  /\ turn = 0
  /\ phase = "turn"
  /\ proposer = 0
  /\ attempt = 1
  /\ tries = 1
  /\ proposal = NoProposal
  /\ passed = FALSE
  /\ draft = << >>
  /\ adopted = FALSE
  /\ cand = board
  /\ applied = 0
  /\ judge \in Judges
  /\ orders = NoOrders
  /\ winners = {}
  /\ served = << >>
  /\ rewound = FALSE

-----------------------------------------------------------------------------
(* The turn.                                                               *)

StartTurn ==
  /\ phase = "turn"
  /\ turn < TurnsMax
  /\ turn' = turn + 1
  /\ proposer' = proposer_for_turn(board)
  /\ board' = AfterProposer(board)
  /\ served' = IF HasOverride(board) THEN served ELSE Append(served, proposer')
  /\ phase' = "action"
  /\ attempt' = 1
  /\ tries' = 1
  /\ proposal' = NoProposal
  /\ passed' = FALSE
  /\ UNCHANGED <<winners, judging>>

(* An action text that passes is ruled valid by the host, with no judge.   *)
PassAction ==
  /\ phase = "action"
  /\ phase' = "propose"
  /\ UNCHANGED <<board, turn, proposer, attempt, tries, proposal, passed,
                 winners, served, judging>>

(* Mutant: a repaired action that is invalid again is repaired again.      *)
RejectAction_Again ==
  /\ phase = "action"
  /\ attempt' \in {1, 2} /\ tries' = 1 /\ phase' = "action"
  /\ UNCHANGED <<board, turn, proposer, proposal, passed, winners, served, judging>>

(* The judge rules the action invalid, as the certification judge rules    *)
(* every action but a pass: one repair, then the turn goes on.             *)
RejectAction ==
  /\ phase = "action"
  /\ IF attempt = 1
       THEN attempt' = 2 /\ tries' = 1 /\ phase' = "action"
       ELSE phase' = "propose" /\ UNCHANGED <<attempt, tries>>
  /\ UNCHANGED <<board, turn, proposer, proposal, passed, winners, served, judging>>

Propose(p) ==
  /\ phase = "propose"
  /\ proposal' = p
  /\ phase' = "vote"
  /\ UNCHANGED <<board, turn, proposer, attempt, tries, passed, winners,
                 served, judging>>

Vote(ayes) ==
  /\ phase = "vote"
  /\ passed' = (ayes >= votes_required(board, turn, proposal.kind))
  /\ tries' = 1
  /\ phase' = "rule"
  /\ UNCHANGED <<board, turn, proposer, attempt, proposal, winners, served, judging>>

ReachCap ==
  /\ phase = "turn"
  /\ turn = TurnsMax
  /\ winners' = cap_victors(board)
  /\ phase' = "over"
  /\ UNCHANGED <<board, turn, proposer, attempt, tries, proposal, passed,
                 served, judging>>

-----------------------------------------------------------------------------
(* The judge boundary.                                                     *)

OpenPhase == IF phase \in {"action", "action_ops"} THEN "action" ELSE "rule"

(* Mutant: the operations are applied in place.                            *)
Refused_InPlace ==
  /\ IF tries = 1
       THEN tries' = 2 /\ phase' = OpenPhase
       ELSE phase' = "failed" /\ UNCHANGED tries
  /\ board' = cand
  /\ cand' = cand
  /\ draft' = << >> /\ adopted' = FALSE /\ applied' = 0 /\ rewound' = FALSE
  /\ orders' = NoOrders
  /\ UNCHANGED <<judge, turn, proposer, attempt, proposal, passed, winners, served>>

(* A draft is refused and the model drafts once more; a second refusal, or *)
(* the certification judge's, fails the episode.  The candidate is left    *)
(* with what was applied to it.                                            *)
Refused ==
  /\ IF tries = 1 /\ judge = "model"
       THEN tries' = 2 /\ phase' = OpenPhase
       ELSE phase' = "failed" /\ UNCHANGED tries
  /\ draft' = << >>
  /\ adopted' = FALSE
  /\ applied' = 0
  /\ rewound' = FALSE
  /\ orders' = NoOrders
  /\ UNCHANGED <<judge, board, cand, turn, proposer, attempt, proposal, passed,
                 winners, served>>

(* Mutants: only the first operation is compared; the vote is not looked   *)
(* at.                                                                     *)
GateOk_FirstOp(d) ==
  /\ d.adopted \/ d.rule_ops # << >> => passed
  /\ d.adopted => d.valid
  /\ d.rule_ops # << >> => d.adopted
  /\ d.adopted => d.rule_ops # << >> /\ Head(d.rule_ops) = proposal_rule_op(proposal)
GateOk_AnyVote(d) ==
  /\ d.adopted => d.valid
  /\ d.rule_ops # << >> => d.adopted
  /\ d.adopted => d.rule_ops = <<proposal_rule_op(proposal)>>

(* What LlmJudge.rule demands of a draft before the dry run.               *)
GateOk(d) ==
  /\ d.adopted \/ d.rule_ops # << >> => passed
  /\ d.adopted => d.valid
  /\ d.rule_ops # << >> => d.adopted
  /\ d.adopted => d.rule_ops = <<proposal_rule_op(proposal)>>

(* Mutant: a repaired draft goes on from the refused one's candidate.      *)
Open_Resumes(d, todo) ==
  /\ cand' = IF tries = 2 THEN cand ELSE board
  /\ draft' = d.rule_ops
  /\ adopted' = d.adopted
  /\ applied' = 0
  /\ rewound' = FALSE
  /\ orders' = todo
  /\ UNCHANGED <<judge, board, turn, proposer, attempt, tries, proposal, passed,
                 winners, served>>

(* The draft is applied to a copy of the board.                            *)
Open(d, todo) ==
  /\ cand' = board
  /\ draft' = d.rule_ops
  /\ adopted' = d.adopted
  /\ applied' = 0
  /\ rewound' = FALSE
  /\ orders' = todo
  /\ UNCHANGED <<judge, board, turn, proposer, attempt, tries, proposal, passed,
                 winners, served>>

DraftAction ==
  /\ phase = "action" /\ judge = "model"
  /\ phase' = "action_ops"
  /\ Open([adopted |-> FALSE, rule_ops |-> << >>], NoOrders)

DraftRuling(d) ==
  /\ phase = "rule" /\ judge = "model"
  /\ IF GateOk(d) THEN phase' = "ruling_ops" /\ Open(d, NoOrders) ELSE Refused

(* The model's call fails, or what it says is not a ruling.                *)
JudgeErrs ==
  /\ phase \in {"action", "rule"} /\ judge = "model"
  /\ Refused

(* The certification judge scores the proposal and rolls the die of Fate,  *)
(* and names as winners whom the sum will carry over the threshold.        *)
award == proposal_points(board, passed)
roll(entropy) == (entropy % fate_die_sides(board)) + 1
recipient(seat) == IF fate_recipient(board) = "proposer" THEN proposer ELSE seat

(* Mutant: the award of the proposal is not projected.                     *)
projected_FateOnly(entropy, seat) ==
  [s \in Seats |-> board.points[s] + (IF s = recipient(seat) THEN roll(entropy) ELSE 0)]

projected(entropy, seat) ==
  [s \in Seats |-> board.points[s] + (IF s = proposer THEN award ELSE 0)
                     + (IF s = recipient(seat) THEN roll(entropy) ELSE 0)]

CertifiedOrders(entropy, seat) ==
  [ops |-> LET fate == Award(recipient(seat), roll(entropy))
           IN  IF award = 0 THEN <<fate>> ELSE <<Award(proposer, award), fate>>,
   winners |-> {s \in Seats : /\ victory_check_due(board, turn)
                              /\ projected(entropy, seat)[s] >= victory_points(board)}]

(* Mutant: the vote is not looked at.                                      *)
CertifiedRuling_AnyVote(entropy, seat) ==
  /\ phase = "rule" /\ judge = "certification"
  /\ phase' = "ruling_ops"
  /\ Open([adopted |-> TRUE, rule_ops |-> <<proposal_rule_op(proposal)>>],
          CertifiedOrders(entropy, seat))

CertifiedRuling(entropy, seat) ==
  /\ phase = "rule" /\ judge = "certification"
  /\ phase' = "ruling_ops"
  /\ Open([adopted |-> passed,
           rule_ops |-> IF passed THEN <<proposal_rule_op(proposal)>> ELSE << >>],
          CertifiedOrders(entropy, seat))

(* Rule operations come before state operations.                           *)
ApplyRuleOp ==
  /\ phase = "ruling_ops"
  /\ draft # << >>
  /\ IF RuleOpOk(cand, Head(draft)) /\ applied < MaxOps
       THEN /\ cand' = apply_rule_op(cand, Head(draft), turn)
            /\ draft' = Tail(draft)
            /\ applied' = applied + 1
            /\ UNCHANGED <<judge, board, turn, phase, proposer, attempt, tries, proposal,
                           passed, adopted, orders, winners, served, rewound>>
       ELSE Refused

ApplyOrder ==
  /\ phase = "ruling_ops"
  /\ draft = << >>
  /\ orders.ops # << >>
  /\ IF StateOpOk(cand, Head(orders.ops)) /\ applied < MaxOps
       THEN /\ cand' = apply_state_op(cand, Head(orders.ops))
            /\ orders' = [orders EXCEPT !.ops = Tail(@)]
            /\ applied' = applied + 1
            /\ UNCHANGED <<judge, board, turn, phase, proposer, attempt, tries, proposal,
                           passed, draft, adopted, winners, served, rewound>>
       ELSE Refused

ApplyStateOp(op) ==
  /\ phase \in {"action_ops", "ruling_ops"} /\ judge = "model"
  /\ draft = << >>
  /\ IF StateOpOk(cand, op) /\ applied < MaxOps
       THEN /\ cand' = apply_state_op(cand, op)
            /\ applied' = applied + 1
            /\ rewound' = (rewound \/ WritesOrder(op))
            /\ UNCHANGED <<judge, board, turn, phase, proposer, attempt, tries, proposal,
                           passed, draft, adopted, orders, winners, served>>
       ELSE Refused

Commit ==
  /\ draft = << >> /\ orders.ops = << >>
  /\ board' = cand
  /\ served' = IF rewound THEN << >> ELSE served
  /\ rewound' = FALSE
  /\ orders' = NoOrders
  /\ UNCHANGED <<judge, turn, proposer, attempt, tries, proposal, passed,
                 draft, adopted, cand, applied>>

(* An action that declares winners ends the episode with no proposal.      *)
CommitAction(declared) ==
  /\ phase = "action_ops"
  /\ Commit
  /\ winners' = declared
  /\ phase' = IF declared # {} THEN "over" ELSE "propose"

(* Mutant: the points are compared on the board before the ruling.         *)
CommitRuling_Before(declared) ==
  /\ phase = "ruling_ops"
  /\ Commit
  /\ winners' = IF declared # {} THEN declared ELSE point_victors(board, turn)
  /\ phase' = IF winners' # {} THEN "over" ELSE "turn"

(* Winners the judge declares stand; otherwise the points decide, on the   *)
(* board the ruling leaves.                                                *)
CommitRuling(declared) ==
  /\ phase = "ruling_ops"
  /\ Commit
  /\ winners' = IF declared # {} THEN declared ELSE point_victors(cand, turn)
  /\ phase' = IF winners' # {} THEN "over" ELSE "turn"

(* The judge misses judge_window_s, or its transport would not settle.     *)
JudgeTimesOut ==
  /\ phase \in {"action", "rule"} /\ judge = "model"
  /\ phase' = "failed"
  /\ UNCHANGED <<board, turn, proposer, attempt, tries, proposal, passed,
                 winners, served, judging>>

Ended ==
  /\ phase \in {"over", "failed"}
  /\ UNCHANGED vars

(* The winners a ruling may name.                                          *)
Named(declared) == IF judge = "model" THEN declared ELSE {orders.winners}

Steps(proposals, scalars, writes, declared) ==
  \/ StartTurn
  \/ PassAction
  \/ RejectAction
  \/ DraftAction
  \/ \E p \in proposals : Propose(p)
  \/ \E ayes \in 0 .. SEAT_COUNT : Vote(ayes)
  \/ \E d \in [valid : BOOLEAN, adopted : BOOLEAN, rule_ops : RuleOpLists] :
       DraftRuling(d)
  \/ JudgeErrs
  \/ \E entropy \in Entropy, seat \in Seats : CertifiedRuling(entropy, seat)
  \/ ApplyRuleOp
  \/ ApplyOrder
  \/ \E op \in scalars : ApplyStateOp(op)
  \/ \E op \in writes : ApplyStateOp(op)
  \/ \E w \in declared : CommitAction(w)
  \/ \E w \in Named(declared) : CommitRuling(w)
  \/ JudgeTimesOut
  \/ ReachCap
  \/ Ended

Next == Steps(Proposals, ScalarOps, OrderOps, Declared)

Spec == Init /\ [][Next]_vars

-----------------------------------------------------------------------------
(* Properties.                                                             *)

(* The board and every candidate are well typed, and the fields the host   *)
(* reads at run time (engine.py:376-430) stay inside their ranges whatever *)
(* sequence of operations the judges get accepted.                         *)
TypeOK ==
  /\ BoardOk(board)
  /\ BoardOk(cand)
  /\ turn \in 0 .. TurnsMax
  /\ phase \in Phases
  /\ proposer \in Seats
  /\ attempt \in {1, 2} /\ tries \in {1, 2}
  /\ proposal \in Proposals \cup {NoProposal}
  /\ passed \in BOOLEAN /\ adopted \in BOOLEAN /\ rewound \in BOOLEAN
  /\ draft \in Seq(RuleOps)
  /\ applied \in 0 .. MaxOps
  /\ judge \in Judges
  /\ orders \in [ops : Seq(PointOps), winners : SUBSET Seats]
  /\ winners \in SUBSET Seats
  /\ served \in Seq(Seats)

(* Stable identifiers (engine.py:52-71): rules stay in the order of their  *)
(* ids, no id is ever reissued, a rule's versions are numbered without a   *)
(* gap, and no rule goes through two versions in one turn.                 *)
RulebookSound == SoundRulebook(board, turn)

(* The rulebook limit of engine.py:275 never turns an adopted enactment    *)
(* away: one rule per turn and the turn cap leave room below MAX_RULES.    *)
RulebookNeverFull ==
  phase = "ruling_ops" /\ draft # << >> => Len(cand.rules) < MaxRules

(* Rule 201 and docs/rules.md:26-30: the proposers are the order read      *)
(* cyclically from its first seat, since it was last written; a one-shot   *)
(* next_proposer neither takes nor skips a place in it.                    *)
RotationFollowsOrder ==
  LET order == proposer_order(board)
  IN  /\ proposer_cursor(board) = Len(served) % Len(order)
      /\ \A i \in DOMAIN served : served[i] = order[((i - 1) % Len(order)) + 1]

(* Rule 205: when a turn at which victory is checked has been ruled on and *)
(* the episode goes on, nobody has reached the threshold in force on the   *)
(* board the players now see; and an episode that is over has a winner.    *)
NoMissedVictory ==
  /\ phase = "turn" /\ turn > 0 => point_victors(board, turn) = {}
  /\ phase = "over" => winners # {}

(* Rule 102 and HOST_CONSTRAINTS[2]: the rulebook changes only in a ruling *)
(* on a proposal that passed its vote, and then by exactly that proposal:  *)
(* one rule appended, or the one rule it names revised as it says.  An     *)
(* amendment sets the rule's text, nothing else does, and a repeal alone   *)
(* puts the rule out of force.                                             *)
EnactedOrRevised ==
  board'.rules # board.rules =>
    /\ phase = "ruling_ops" /\ passed
    /\ IF proposal.kind = "enact"
         THEN /\ Len(board'.rules) = Len(board.rules) + 1
              /\ \A i \in DOMAIN board.rules : board'.rules[i] = board.rules[i]
              /\ board'.rules[Len(board'.rules)].text = proposal.text
         ELSE /\ DOMAIN board'.rules = DOMAIN board.rules
              /\ \A i \in DOMAIN board.rules :
                   board'.rules[i] # board.rules[i] =>
                     /\ board.rules[i].id = proposal.rule_id
                     /\ board'.rules[i].text = IF proposal.kind = "amend"
                                                 THEN proposal.text ELSE board.rules[i].text
                     /\ board'.rules[i].active <=> proposal.kind # "repeal"

LawFollowsAdoption == [][EnactedOrRevised]_vars

(* Rule 103: a protected rule keeps its text and stays in force; all that  *)
(* can ever happen to it is that a transmutation makes it mutable.         *)
ProtectionHolds ==
  \A i \in DOMAIN board.rules :
    ~ board.rules[i].mutable =>
      /\ board'.rules[i].text = board.rules[i].text
      /\ board.rules[i].active => board'.rules[i].active
      /\ board'.rules[i].mutable => proposal.kind = "transmute" /\ passed

ProtectedOnlyTransmuted == [][ProtectionHolds]_vars

(* A rule's past is never rewritten: whenever it changes, what it was is   *)
(* appended to its history, and a repealed rule never changes again.       *)
HistoryGrows ==
  \A i \in DOMAIN board.rules :
    LET r == board.rules[i]
        s == board'.rules[i]
    IN  s # r => /\ r.active
                 /\ s.id = r.id /\ s.created_turn = r.created_turn
                 /\ Len(s.history) = Len(r.history) + 1
                 /\ \A k \in 1 .. Len(r.history) : s.history[k] = r.history[k]
                 /\ s.history[Len(s.history)] =
                      [version |-> r.version, text |-> r.text,
                       mutable |-> r.mutable, ended_turn |-> turn]

PastIsKept == [][HistoryGrows]_vars

(* judge.py:501-515: the winners the certification judge names from a      *)
(* projection of its own are those the points name once its ruling has     *)
(* been applied, or the episode would end for the wrong seats.             *)
ProjectionIsExact ==
  judge = "certification" /\ phase = "ruling_ops" /\ draft = << >> /\ orders.ops = << >>
    => orders.winners = point_victors(cand, turn)

(* With the certification judge an episode fails on a passed proposal the  *)
(* board refuses, and on nothing else: its awards always apply.            *)
CertifiedFailsOnProposal ==
  judge = "certification" /\ phase = "failed" =>
    passed /\ ~ RuleOpOk(board, proposal_rule_op(proposal))

(* engine.py:432-449: a ruling lands whole or not at all.  The board       *)
(* changes only by taking a complete candidate or by seating a proposer,   *)
(* and a candidate on which no operation of the draft has been applied is  *)
(* the board: a refused draft leaves a trace neither on the board nor in   *)
(* the draft that repairs it.                                              *)
LandsWhole ==
  /\ board' # board =>
       \/ phase = "turn" /\ board'.rules = board.rules /\ board'.points = board.points
       \/ draft = << >> /\ board' = cand /\ phase' \in {"propose", "turn", "over"}
  /\ phase' \in {"action_ops", "ruling_ops"} /\ applied' = 0 => cand' = board'

AllOrNothing == [][LandsWhole]_vars

(* The turns take the course that module Episode gives them: the law and   *)
(* the messages are two views of one game (episode.py:533-662).            *)
At ==
  CASE phase = "turn" -> "between"
    [] phase \in {"action", "action_ops"} -> "action"
    [] phase \in {"propose", "vote", "rule", "ruling_ops"} -> "law"
    [] OTHER -> phase
Game == INSTANCE Course WITH at <- At
TakesTheCourse == Game!Spec
=============================================================================
