----------------------------- MODULE MootProofs -----------------------------
(***************************************************************************)
(* The law-making of Moot, for every rulebook, every cap on turns, every   *)
(* set of proposals and every judge.                                       *)
(*                                                                         *)
(* Inv is inductive.  Its core is CandidateOk, which says what the host's  *)
(* gate buys: the candidate differs from the board by the operation of the *)
(* adopted proposal or not at all; and LawTurn, which dates the rulebook:  *)
(* until this turn's ruling lands, nothing on the board is of this turn.   *)
(***************************************************************************)
EXTENDS Moot, EngineProofs, SequenceTheorems

MidTurn == {"action", "action_ops", "propose", "vote", "rule", "ruling_ops"}
LawTurn == IF phase \in MidTurn THEN turn - 1 ELSE turn

TheOp == proposal_rule_op(proposal)
Untouched == cand.rules = board.rules /\ cand.next_rule_id = board.next_rule_id
Enforced == /\ RuleOpOk(board, TheOp)
            /\ cand.rules = apply_rule_op(board, TheOp, turn).rules
            /\ cand.next_rule_id = apply_rule_op(board, TheOp, turn).next_rule_id

CandidateOk ==
  /\ phase = "action_ops" => Untouched
  /\ phase = "ruling_ops" =>
       \/ draft = << >> /\ Untouched
       \/ draft = <<TheOp>> /\ passed /\ Untouched
       \/ draft = << >> /\ passed /\ Enforced

(* The certification judge: what it still owes each seat, what it may      *)
(* take, and the one way its episode fails.                                *)
Worth(op, s) == IF op.seat = s THEN op.value ELSE 0
Owed(ops, s) ==
  IF ops = << >> THEN 0
  ELSE IF Len(ops) = 1 THEN Worth(ops[1], s)
  ELSE Worth(ops[1], s) + Worth(ops[2], s)

Projected(entropy, seat) ==
  /\ orders.winners = CertifiedOrders(entropy, seat).winners
  /\ \A s \in Seats : cand.points[s] + Owed(orders.ops, s) = projected(entropy, seat)[s]

Doomed == passed /\ ~ RuleOpOk(board, TheOp)

CertifiedOk ==
  judge = "certification" =>
    /\ phase # "action_ops"
    /\ phase = "failed" => Doomed
    /\ phase = "ruling_ops" =>
         /\ applied + Len(draft) + Len(orders.ops) <= 3
         /\ Len(orders.ops) <= 2
         /\ cand.common = board.common
         /\ \E entropy \in Entropy, seat \in Seats : Projected(entropy, seat)

Inv ==
  /\ TypeOK
  /\ phase \in MidTurn => turn > 0
  /\ phase \in {"vote", "rule", "ruling_ops"} => proposal \in Proposals
  /\ SoundRulebook(board, LawTurn)
  /\ Len(board.rules) <= ProtectedCount + MutableCount + LawTurn
  /\ CandidateOk
  /\ CertifiedOk

-----------------------------------------------------------------------------
(* A proposal's operation is a well-formed rule operation of its kind.     *)
LEMMA ProposalOp ==
  ASSUME NEW p \in Proposals
  PROVE  /\ proposal_rule_op(p) \in RuleOp
         /\ proposal_rule_op(p).op = p.kind
         /\ p.kind \in {"enact", "amend"} => proposal_rule_op(p).text = p.text
         /\ p.kind # "enact" => proposal_rule_op(p).rule_id = p.rule_id
<1>1. CASE p \in [kind : {"enact"}, text : Texts]
  BY <1>1 DEF proposal_rule_op, RuleOp
<1>2. CASE p \in [kind : {"amend"}, rule_id : Int, text : Texts]
  BY <1>2 DEF proposal_rule_op, RuleOp
<1>3. CASE p \in [kind : {"repeal", "transmute"}, rule_id : Int]
  BY <1>3 DEF proposal_rule_op, RuleOp
<1> QED
  BY <1>1, <1>2, <1>3, ProposalsAssumption

(* Rule operations read and write the rulebook and nothing else.           *)
LEMMA RulebookOnly ==
  ASSUME NEW a, NEW b, BoardOk(a), BoardOk(b), NEW op, NEW t,
         a.rules = b.rules, a.next_rule_id = b.next_rule_id
  PROVE  /\ RuleOpOk(a, op) <=> RuleOpOk(b, op)
         /\ apply_rule_op(a, op, t).rules = apply_rule_op(b, op, t).rules
         /\ apply_rule_op(a, op, t).next_rule_id = apply_rule_op(b, op, t).next_rule_id
<1>1. ActiveRule(a, op.rule_id) = ActiveRule(b, op.rule_id)
  BY DEF ActiveRule
<1>2. find_rule(a, op.rule_id) = find_rule(b, op.rule_id)
  BY <1>1 DEF find_rule
<1>3. RuleOpOk(a, op) <=> RuleOpOk(b, op)
  BY <1>1, <1>2 DEF RuleOpOk
<1>4. CASE op.op = "enact"
  <2>1. /\ apply_rule_op(a, op, t).rules =
             Append(a.rules, NewRule(a.next_rule_id, op.text, t, TRUE))
        /\ apply_rule_op(a, op, t).next_rule_id = a.next_rule_id + 1
    BY ONLY <1>4, EnactEffect, BoardOk(a)
  <2>2. /\ apply_rule_op(b, op, t).rules =
             Append(b.rules, NewRule(b.next_rule_id, op.text, t, TRUE))
        /\ apply_rule_op(b, op, t).next_rule_id = b.next_rule_id + 1
    BY ONLY <1>4, EnactEffect, BoardOk(b)
  <2> QED BY <1>3, <2>1, <2>2
<1>5. CASE op.op # "enact"
  <2> DEFINE f == find_rule(b, op.rule_id)
  <2>1. apply_rule_op(a, op, t) =
          [a EXCEPT !.rules = [a.rules EXCEPT ![f] = Revised(a.rules[f], op, t)]]
    BY <1>2, <1>5 DEF apply_rule_op, BoardOk
  <2>2. apply_rule_op(b, op, t) =
          [b EXCEPT !.rules = [b.rules EXCEPT ![f] = Revised(b.rules[f], op, t)]]
    BY <1>5 DEF apply_rule_op, BoardOk
  <2> HIDE DEF f
  <2> QED BY <1>3, <2>1, <2>2 DEF BoardOk
<1> QED
  BY <1>3, <1>4, <1>5

-----------------------------------------------------------------------------
(* The initial state.                                                      *)
LEMMA InitInv == Init => Inv
<1> SUFFICES ASSUME Init PROVE Inv
  OBVIOUS
<1>1. TypeOK
  <2>1. BoardOk(board) /\ BoardOk(cand)
    BY FoundingBoard DEF Init
  <2>2. << >> \in Seq(RuleOps) /\ << >> \in Seq(Seats) /\ << >> \in Seq(PointOps)
    OBVIOUS
  <2>3. 0 \in Seats
    BY DEF Seats, SEAT_COUNT
  <2>4. passed \in BOOLEAN /\ adopted \in BOOLEAN /\ rewound \in BOOLEAN
    BY Zenon DEF Init
  <2>5. winners \in SUBSET Seats /\ proposal \in Proposals \cup {NoProposal}
    BY Zenon DEF Init
  <2>6. turn \in 0 .. TurnsMax /\ applied \in 0 .. MaxOps
    BY TurnsAssumption, LimitAssumption DEF Init
  <2>7. /\ phase \in Phases /\ proposer \in Seats
        /\ attempt \in {1, 2} /\ tries \in {1, 2}
        /\ draft \in Seq(RuleOps) /\ served \in Seq(Seats)
        /\ orders \in [ops : Seq(PointOps), winners : SUBSET Seats]
        /\ judge \in Judges
    BY <2>2, <2>3 DEF Init, Phases, NoOrders
  <2> QED
    BY <2>1, <2>4, <2>5, <2>6, <2>7 DEF TypeOK
<1> QED
  BY <1>1, FoundingBoard DEF Init, Inv, LawTurn, MidTurn, CandidateOk, CertifiedOk

(* A step of the turn that leaves the board and the candidate alone, and   *)
(* does not enter or leave the judge's operations.                         *)
LEMMA TurnStep ==
  ASSUME Inv, TypeOK', UNCHANGED <<board, turn, judge>>,
         phase' = "failed" /\ judge = "certification" => Doomed',
         phase \in MidTurn, phase' \in MidTurn \cup {"failed"},
         phase' \notin {"action_ops", "ruling_ops"},
         phase' \in {"vote", "rule"} => proposal' \in Proposals
  PROVE  Inv'
<1>1. turn \in Nat /\ turn > 0 /\ BoardOk(board)
  BY DEF Inv, TypeOK
<1>2. SoundRulebook(board, turn - 1) /\ SoundRulebook(board, turn)
  BY <1>1, SoundLater DEF Inv, LawTurn
<1>3. SoundRulebook(board', LawTurn')
  BY <1>2 DEF LawTurn
<1>4. Len(board.rules) <= ProtectedCount + MutableCount + LawTurn
  BY DEF Inv
<1>5. Len(board.rules) \in Nat
  BY <1>1 DEF BoardOk
<1>6. Len(board'.rules) <= ProtectedCount + MutableCount + LawTurn'
  BY <1>1, <1>4, <1>5, RulebookAssumption DEF LawTurn
<1>7. CandidateOk' /\ CertifiedOk'
  BY DEF CandidateOk, CertifiedOk
<1> QED
  BY <1>1, <1>3, <1>6, <1>7 DEF Inv, MidTurn

(* The steps of the turn, one by one.                                      *)
LEMMA StartTurnInv == ASSUME Inv, StartTurn PROVE Inv'
<1>1. /\ BoardOk(board) /\ turn \in Nat /\ turn' = turn + 1 /\ turn' \in 0 .. TurnsMax
      /\ SoundRulebook(board, turn)
      /\ Len(board.rules) <= ProtectedCount + MutableCount + turn
  BY TurnsAssumption DEF Inv, TypeOK, StartTurn, LawTurn, MidTurn
<1>2. /\ proposer' \in Seats /\ BoardOk(board')
      /\ board'.rules = board.rules /\ board'.next_rule_id = board.next_rule_id
  BY <1>1, Seating DEF StartTurn
<1>3. served' \in Seq(Seats)
  BY <1>2 DEF Inv, TypeOK, StartTurn
<1>4. TypeOK'
  BY <1>1, <1>2, <1>3 DEF Inv, TypeOK, StartTurn, Phases, judging
<1>5. SoundRulebook(board', turn)
  BY <1>1, <1>2 DEF SoundRulebook
<1>6. LawTurn' = turn
  BY <1>1 DEF LawTurn, MidTurn, StartTurn
<1> QED
  BY <1>1, <1>2, <1>4, <1>5, <1>6 DEF Inv, StartTurn, CandidateOk, CertifiedOk, MidTurn

LEMMA PassActionInv == ASSUME Inv, PassAction PROVE Inv'
<1>1. TypeOK'
  BY DEF Inv, TypeOK, PassAction, Phases, judging
<1> QED
  BY <1>1, TurnStep DEF PassAction, MidTurn, judging

LEMMA RejectActionInv == ASSUME Inv, RejectAction PROVE Inv'
<1>1. TypeOK'
  BY DEF Inv, TypeOK, RejectAction, Phases, judging
<1> QED
  BY <1>1, TurnStep DEF RejectAction, MidTurn, judging

LEMMA ProposeInv == ASSUME Inv, NEW p \in Proposals, Propose(p) PROVE Inv'
<1>1. TypeOK'
  BY DEF Inv, TypeOK, Propose, Phases, judging
<1> QED
  BY <1>1, TurnStep DEF Propose, MidTurn, judging

LEMMA VoteInv == ASSUME Inv, NEW ayes, Vote(ayes) PROVE Inv'
<1>1. passed' \in BOOLEAN
  <2> DEFINE carried == ayes >= votes_required(board, turn, proposal.kind)
  <2>1. passed' = carried
    BY DEF Vote
  <2>2. carried \in BOOLEAN
    OBVIOUS
  <2> HIDE DEF carried
  <2> QED
    BY Zenon, <2>1, <2>2
<1>2. TypeOK'
  BY <1>1 DEF Inv, TypeOK, Vote, Phases, judging
<1>3. proposal' \in Proposals
  BY DEF Inv, Vote
<1> QED
  BY <1>2, <1>3, TurnStep DEF Vote, MidTurn, judging

LEMMA JudgeTimesOutInv == ASSUME Inv, JudgeTimesOut PROVE Inv'
<1>1. TypeOK'
  BY DEF Inv, TypeOK, JudgeTimesOut, Phases, judging
<1> QED
  BY <1>1, TurnStep DEF JudgeTimesOut, MidTurn, judging

LEMMA ReachCapInv == ASSUME Inv, ReachCap PROVE Inv'
<1>1. winners' \in SUBSET Seats
  BY DEF ReachCap, cap_victors
<1>2. TypeOK'
  BY <1>1 DEF Inv, TypeOK, ReachCap, Phases, judging
<1> QED
  BY <1>2 DEF Inv, ReachCap, LawTurn, MidTurn, CandidateOk, CertifiedOk

LEMMA NoneLeft == NoOrders \in [ops : Seq(PointOps), winners : SUBSET Seats]
<1>1. << >> \in Seq(PointOps)
  OBVIOUS
<1> QED
  BY <1>1 DEF NoOrders

LEMMA RefusedInv ==
  ASSUME Inv, Refused, phase \in {"action", "action_ops", "rule", "ruling_ops"},
         judge = "certification" => Doomed
  PROVE  Inv'
<1>1. /\ << >> \in Seq(RuleOps) /\ 0 \in 0 .. MaxOps
      /\ NoOrders \in [ops : Seq(PointOps), winners : SUBSET Seats]
  BY LimitAssumption, NoneLeft
<1>2. phase' \in {"action", "rule", "failed"}
  BY DEF Refused, OpenPhase
<1>3. TypeOK'
  BY <1>1, <1>2 DEF Inv, TypeOK, Refused, Phases
<1>4. UNCHANGED <<board, turn, proposal, passed, judge>>
  BY DEF Refused
<1>5. phase' = "rule" => proposal \in Proposals
  BY DEF Refused, OpenPhase, Inv
<1>6. Doomed => Doomed'
  BY <1>4 DEF Doomed, TheOp
<1> QED
  BY <1>2, <1>3, <1>4, <1>5, <1>6, TurnStep DEF MidTurn

LEMMA JudgeErrsInv == ASSUME Inv, JudgeErrs PROVE Inv'
BY RefusedInv DEF JudgeErrs

-----------------------------------------------------------------------------
(* The judge boundary.                                                     *)
LEMMA DraftActionInv == ASSUME Inv, DraftAction PROVE Inv'
<1>1. << >> \in Seq(RuleOps) /\ 0 \in 0 .. MaxOps
  BY LimitAssumption
<1>2. /\ phase = "action" /\ phase' = "action_ops" /\ judge = "model"
      /\ cand' = board /\ draft' = << >> /\ adopted' = FALSE
      /\ applied' = 0 /\ rewound' = FALSE /\ orders' = NoOrders
      /\ UNCHANGED <<judge, board, turn, proposer, attempt, tries, proposal, passed,
                     winners, served>>
  BY DEF DraftAction, Open
<1>3. TypeOK'
  BY <1>1, <1>2, NoneLeft DEF Inv, TypeOK, Phases
<1>4. LawTurn' = LawTurn
  BY <1>2 DEF LawTurn, MidTurn
<1> QED
  BY <1>2, <1>3, <1>4 DEF Inv, MidTurn, CandidateOk, Untouched, CertifiedOk

LEMMA DraftRulingInv ==
  ASSUME Inv, NEW d \in [valid : BOOLEAN, adopted : BOOLEAN, rule_ops : RuleOpLists],
         DraftRuling(d)
  PROVE  Inv'
<1>1. CASE ~ GateOk(d)
  <2>1. Refused /\ phase = "rule" /\ judge = "model"
    BY <1>1 DEF DraftRuling
  <2> QED
    BY <2>1, RefusedInv
<1>2. CASE GateOk(d)
  <2>1. /\ phase = "rule" /\ phase' = "ruling_ops" /\ judge = "model"
        /\ cand' = board /\ draft' = d.rule_ops /\ adopted' = d.adopted
        /\ applied' = 0 /\ rewound' = FALSE /\ orders' = NoOrders
        /\ UNCHANGED <<judge, board, turn, proposer, attempt, tries, proposal, passed,
                       winners, served>>
    BY <1>2 DEF DraftRuling, Open
  <2>2. proposal \in Proposals
    BY <2>1 DEF Inv
  <2>3. TheOp \in RuleOps
    BY <2>2 DEF TheOp, RuleOps
  <2>4. d.rule_ops = << >> \/ (d.rule_ops = <<TheOp>> /\ passed)
    BY <1>2 DEF GateOk, TheOp
  <2>5. draft' \in Seq(RuleOps)
    <3>1. \A o \in RuleOps : <<o>> \in Seq(RuleOps)
      OBVIOUS
    <3>2. << >> \in Seq(RuleOps)
      OBVIOUS
    <3> QED
      BY Zenon, <2>1, <2>3, <2>4, <3>1, <3>2
  <2>6. 0 \in 0 .. MaxOps /\ d.adopted \in BOOLEAN
    BY LimitAssumption
  <2>7. TypeOK'
    BY <2>1, <2>5, <2>6, NoneLeft DEF Inv, TypeOK, Phases
  <2>8. LawTurn' = LawTurn
    BY <2>1 DEF LawTurn, MidTurn
  <2>9. CandidateOk' /\ CertifiedOk'
    BY <2>1, <2>4 DEF CandidateOk, Untouched, TheOp, CertifiedOk
  <2> QED
    BY <2>1, <2>2, <2>7, <2>8, <2>9 DEF Inv, MidTurn
<1> QED
  BY <1>1, <1>2

LEMMA ApplyRuleOpInv == ASSUME Inv, ApplyRuleOp PROVE Inv'
<1>1. phase = "ruling_ops" /\ draft # << >>
  BY DEF ApplyRuleOp
<1>2. CASE ~ (RuleOpOk(cand, Head(draft)) /\ applied < MaxOps)
  <2>1. Refused
    BY <1>2 DEF ApplyRuleOp
  <2>2. judge = "certification" => Doomed
    <3> SUFFICES ASSUME judge = "certification" PROVE Doomed
      OBVIOUS
    <3>1. /\ draft = <<TheOp>> /\ passed /\ Untouched
          /\ BoardOk(board) /\ BoardOk(cand) /\ applied \in Nat
          /\ judge \in Judges /\ orders.ops \in Seq(PointOps)
      BY <1>1 DEF Inv, CandidateOk, TypeOK
    <3>2. Len(draft) = 1 /\ Len(orders.ops) \in Nat /\ Head(draft) = TheOp
      BY <3>1
    <3>3. applied + Len(draft) + Len(orders.ops) <= 3
      BY <1>1 DEF Inv, CertifiedOk
    <3>4. applied < MaxOps
      <4>1. MaxOps >= 3 /\ MaxOps \in Nat
        BY <3>1, JudgesAssumption, LimitAssumption
      <4> QED
        <5> DEFINE n == Len(orders.ops)
        <5>1. applied \in Nat /\ n \in Nat /\ applied + 1 + n <= 3
          BY ONLY <3>1, <3>2, <3>3
        <5> HIDE DEF n
        <5> QED
          BY ONLY <4>1, <5>1
    <3>5. ~ RuleOpOk(cand, TheOp)
      BY <1>2, <3>2, <3>4
    <3>6. RuleOpOk(cand, TheOp) <=> RuleOpOk(board, TheOp)
      BY <3>1, RulebookOnly DEF Untouched
    <3> QED
      BY <3>1, <3>5, <3>6 DEF Doomed
  <2> QED
    BY <1>1, <2>1, <2>2, RefusedInv
<1>3. CASE RuleOpOk(cand, Head(draft)) /\ applied < MaxOps
  <2>1. /\ draft = <<TheOp>> /\ passed /\ Untouched
        /\ proposal \in Proposals /\ BoardOk(board) /\ BoardOk(cand)
        /\ turn \in Nat /\ turn > 0
    BY <1>1 DEF Inv, CandidateOk, TypeOK, MidTurn
  <2>2. Head(draft) = TheOp /\ Tail(draft) = << >>
    BY <2>1
  <2>3. /\ cand' = apply_rule_op(cand, TheOp, turn)
        /\ draft' = << >> /\ applied' = applied + 1
        /\ UNCHANGED <<judge, board, turn, phase, proposer, attempt, tries, proposal,
                       passed, adopted, orders, winners, served, rewound>>
    BY <1>3, <2>2 DEF ApplyRuleOp
  <2>4. TheOp \in RuleOp /\ RuleOpOk(cand, TheOp)
    BY <1>3, <2>1, <2>2, ProposalOp DEF TheOp
  <2>5. BoardOk(cand')
    BY ONLY <2>1, <2>3, <2>4, RuleOpTyped
  <2>6. /\ RuleOpOk(board, TheOp)
        /\ cand'.rules = apply_rule_op(board, TheOp, turn).rules
        /\ cand'.next_rule_id = apply_rule_op(board, TheOp, turn).next_rule_id
    <3>1. cand.rules = board.rules /\ cand.next_rule_id = board.next_rule_id
      BY <2>1 DEF Untouched
    <3> QED
      BY ONLY <2>1, <2>3, <2>4, <3>1, RulebookOnly
  <2>7. Enforced'
    BY <2>3, <2>6 DEF Enforced, TheOp
  <2>8. applied' \in 0 .. MaxOps
    BY <1>3, <2>3, LimitAssumption DEF Inv, TypeOK
  <2>9. TypeOK'
    BY <2>3, <2>5, <2>8 DEF Inv, TypeOK
  <2>10. CandidateOk' /\ LawTurn' = LawTurn
    BY <1>1, <2>1, <2>3, <2>7 DEF CandidateOk, LawTurn
  <2>11. cand'.points = cand.points /\ cand'.common = cand.common
    <3>1. CASE TheOp.op = "enact"
      BY ONLY <2>1, <2>3, <3>1, EnactEffect
    <3>2. CASE TheOp.op # "enact"
      BY ONLY <2>1, <2>3, <2>4, <3>2, ReviseEffect
    <3> QED
      BY <3>1, <3>2
  <2>12. CertifiedOk'
    <3> SUFFICES ASSUME judge = "certification" PROVE CertifiedOk'
      BY <2>3 DEF CertifiedOk
    <3>1. /\ applied + Len(draft) + Len(orders.ops) <= 3 /\ Len(orders.ops) <= 2
          /\ cand.common = board.common
      BY <1>1 DEF Inv, CertifiedOk
    <3>2. PICK entropy \in Entropy, seat \in Seats : Projected(entropy, seat)
      BY <1>1 DEF Inv, CertifiedOk
    <3>3. Len(draft) = 1 /\ Len(draft') = 0
      BY <2>1, <2>3
    <3>8. applied' = applied + 1 /\ Len(orders'.ops) = Len(orders.ops)
      BY ONLY <2>3
    <3>9. Len(orders.ops) \in Nat
      BY <1>1 DEF Inv, TypeOK
    <3>10. applied \in Nat
      BY <1>1 DEF Inv, TypeOK
    <3>4. applied' + Len(draft') + Len(orders'.ops) <= 3
      <4>1. applied + 1 + Len(orders.ops) <= 3
        BY <3>1, <3>3
      <4> DEFINE n == Len(orders.ops)
                 a == applied'
      <4>2. applied \in Nat /\ n \in Nat /\ applied + 1 + n <= 3 /\ a = applied + 1
        BY ONLY <4>1, <3>8, <3>9, <3>10
      <4> HIDE DEF n, a
      <4>3. a + 0 + n <= 3
        BY ONLY <4>2
      <4> QED
        BY <4>3, <3>3, <3>8 DEF n, a
    <3>5. projected(entropy, seat)' = projected(entropy, seat)
      BY <2>3 DEF projected, award, recipient, roll
    <3>6. CertifiedOrders(entropy, seat)' = CertifiedOrders(entropy, seat)
      BY <2>3, <3>5 DEF CertifiedOrders, award, recipient, roll
    <3>7. Projected(entropy, seat)'
      BY <2>3, <2>11, <3>2, <3>5, <3>6 DEF Projected, Owed
    <3> QED
      BY <1>1, <2>3, <2>11, <3>1, <3>4, <3>7 DEF CertifiedOk
  <2> QED
    BY <2>3, <2>9, <2>10, <2>12 DEF Inv
<1> QED
  BY <1>2, <1>3

LEMMA ApplyStateOpInv ==
  ASSUME Inv, NEW op \in ScalarOps \cup OrderOps, ApplyStateOp(op) PROVE Inv'
<1>1. phase \in {"action_ops", "ruling_ops"} /\ draft = << >> /\ judge = "model"
  BY DEF ApplyStateOp
<1>2. CASE ~ (StateOpOk(cand, op) /\ applied < MaxOps)
  BY <1>1, <1>2, RefusedInv DEF ApplyStateOp
<1>3. CASE StateOpOk(cand, op) /\ applied < MaxOps
  <2>1. /\ cand' = apply_state_op(cand, op) /\ applied' = applied + 1
        /\ rewound' = (rewound \/ WritesOrder(op))
        /\ UNCHANGED <<judge, board, turn, phase, proposer, attempt, tries, proposal,
                       passed, draft, adopted, orders, winners, served>>
    BY <1>3 DEF ApplyStateOp
  <2>2. BoardOk(cand)
    BY DEF Inv, TypeOK
  <2>3. op.scope # "player" => op.key \in CommonKeys
    BY OpsAssumption
  <2>4. /\ BoardOk(cand')
        /\ cand'.rules = cand.rules /\ cand'.next_rule_id = cand.next_rule_id
    BY ONLY <1>3, <2>1, <2>2, <2>3, StateOperation
  <2>5. rewound' \in BOOLEAN
    <3> DEFINE writes == WritesOrder(op)
    <3>1. writes \in BOOLEAN /\ rewound \in BOOLEAN /\ rewound' = (rewound \/ writes)
      BY <2>1 DEF Inv, TypeOK, WritesOrder
    <3> HIDE DEF writes
    <3> QED
      BY Zenon, <3>1
  <2>6. applied' \in 0 .. MaxOps
    BY <1>3, <2>1, LimitAssumption DEF Inv, TypeOK
  <2>7. TypeOK'
    BY <2>1, <2>4, <2>5, <2>6 DEF Inv, TypeOK
  <2>8. CandidateOk' /\ CertifiedOk' /\ LawTurn' = LawTurn
    BY <1>1, <2>1, <2>4
       DEF Inv, CandidateOk, LawTurn, Untouched, Enforced, TheOp, CertifiedOk
  <2> QED
    BY <2>1, <2>7, <2>8 DEF Inv
<1> QED
  BY <1>2, <1>3

(* What is owed is an amount, and its first order is the first part of it. *)
LEMMA OwedTyped ==
  ASSUME NEW ops \in Seq(PointOps), Len(ops) <= 2, NEW s \in Seats
  PROVE  Owed(ops, s) \in Int
<1>1. \A o \in PointOps : Worth(o, s) \in Int
  BY DEF Worth, PointOps
<1>2. Len(ops) \in Nat /\ (Len(ops) = 0 <=> ops = << >>)
  OBVIOUS
<1>3. \A i \in 1 .. Len(ops) : ops[i] \in PointOps
  OBVIOUS
<1>4. CASE Len(ops) = 1
  BY ONLY <1>1, <1>3, <1>4, <1>2 DEF Owed
<1>5. CASE Len(ops) = 2
  <2>1. Worth(ops[1], s) \in Int /\ Worth(ops[2], s) \in Int
    BY ONLY <1>1, <1>3, <1>5
  <2> QED
    BY ONLY <1>2, <1>5, <2>1 DEF Owed
<1>6. CASE Len(ops) = 0
  BY ONLY <1>2, <1>6 DEF Owed
<1>7. Len(ops) \in {0, 1, 2}
  <2> DEFINE n == Len(ops)
  <2>1. n \in Nat /\ n <= 2
    BY ONLY <1>2, Len(ops) <= 2
  <2> HIDE DEF n
  <2>2. n \in {0, 1, 2}
    BY ONLY <2>1
  <2> QED
    BY ONLY <2>2 DEF n
<1> QED
  BY ONLY <1>4, <1>5, <1>6, <1>7

LEMMA OwedSplits ==
  ASSUME NEW ops \in Seq(PointOps), Len(ops) <= 2, ops # << >>, NEW s \in Seats
  PROVE  Owed(ops, s) = Worth(Head(ops), s) + Owed(Tail(ops), s)
<1>1. /\ Head(ops) = ops[1] /\ Head(ops) \in PointOps
      /\ Tail(ops) \in Seq(PointOps) /\ Len(Tail(ops)) = Len(ops) - 1
      /\ \A i \in 1 .. Len(ops) - 1 : Tail(ops)[i] = ops[i + 1]
      /\ Len(ops) \in Nat
      /\ Len(ops) # 0
  BY HeadTailProperties, EmptySeq, LenProperties
<1>2. Worth(Head(ops), s) \in Int
  BY ONLY <1>1 DEF Worth, PointOps
<1>3. Tail(ops) = << >> <=> Len(Tail(ops)) = 0
  BY ONLY <1>1, EmptySeq
<1>4. CASE Len(ops) = 1
  BY ONLY <1>1, <1>2, <1>3, <1>4, ops # << >> DEF Owed
<1>5. CASE Len(ops) = 2
  <2>1. Tail(ops)[1] = ops[2]
    <3>1. 1 \in 1 .. Len(ops) - 1
      BY ONLY <1>5
    <3> QED
      BY ONLY <1>1, <3>1
  <2> QED
    BY ONLY <1>1, <1>3, <1>5, <2>1, ops # << >> DEF Owed
<1>6. Len(ops) \in {1, 2}
  BY ONLY <1>1, Len(ops) <= 2
<1> QED
  BY ONLY <1>4, <1>5, <1>6

(* An award always applies: it moves the points of one seat and no more.   *)
LEMMA AwardApplies ==
  ASSUME NEW b, BoardOk(b), NEW op \in PointOps
  PROVE  /\ StateOpOk(b, op) /\ BoardOk(apply_state_op(b, op))
         /\ apply_state_op(b, op).rules = b.rules
         /\ apply_state_op(b, op).next_rule_id = b.next_rule_id
         /\ apply_state_op(b, op).common = b.common
         /\ \A s \in Seats :
              apply_state_op(b, op).points[s] = b.points[s] + Worth(op, s)
<1> DEFINE a == apply_state_op(b, op)
<1>1. op.op = "increment" /\ op.scope = "player" /\ op.seat \in Seats /\ op.value \in Int
  BY DEF PointOps
<1>2. \A s \in Seats : b.points[s] \in Int
  BY DEF BoardOk, runtime_fields_valid
<1>3. a = [b EXCEPT !.points[op.seat] = @ + op.value]
  BY <1>1 DEF apply_state_op, WritesOrder, Written
<1>4. /\ DOMAIN a = DOMAIN b /\ DOMAIN a.points = Seats
      /\ a.rules = b.rules /\ a.next_rule_id = b.next_rule_id /\ a.common = b.common
  BY <1>3 DEF BoardOk
<1>5. \A s \in Seats :
        a.points[s] = IF op.seat = s THEN b.points[s] + op.value ELSE b.points[s]
  BY <1>1, <1>3 DEF BoardOk
<1> HIDE DEF a
<1>6. \A s \in Seats : a.points[s] = b.points[s] + Worth(op, s) /\ a.points[s] \in Int
  BY <1>1, <1>2, <1>5 DEF Worth
<1>7. runtime_fields_valid(a)
  BY <1>4, <1>6 DEF BoardOk, runtime_fields_valid, proposer_order
<1>8. StateOpAccepted(b, op)
  BY <1>1, UnusableAssumption DEF StateOpAccepted
<1> QED
  BY <1>4, <1>6, <1>7, <1>8 DEF BoardOk, StateOpOk, a

(* What a certified ruling orders.                                         *)
LEMMA Certified ==
  ASSUME TypeOK, NEW entropy \in Entropy, NEW seat \in Seats
  PROVE  /\ CertifiedOrders(entropy, seat) \in [ops : Seq(PointOps), winners : SUBSET Seats]
         /\ Len(CertifiedOrders(entropy, seat).ops) <= 2
         /\ \A s \in Seats :
              board.points[s] + Owed(CertifiedOrders(entropy, seat).ops, s)
                = projected(entropy, seat)[s]
<1> DEFINE o == CertifiedOrders(entropy, seat)
           fate == Award(recipient(seat), roll(entropy))
           due == Award(proposer, award)
<1>1. award \in Int
  BY DEF TypeOK, BoardOk, runtime_fields_valid, FieldOk, AwardKeys, award,
         proposal_points, Lookup
<1>2. fate_die_sides(board) \in 1 .. 1000
  <2>1. \A k \in DOMAIN board.common : FieldOk(k, board.common[k])
    BY DEF TypeOK, BoardOk, runtime_fields_valid
  <2>2. "fate_die_sides" \in DOMAIN board.common =>
          board.common["fate_die_sides"] \in 1 .. 1000
    BY <2>1 DEF FieldOk
  <2> QED
    BY <2>2 DEF fate_die_sides, Lookup
<1>3. roll(entropy) \in Int
  BY <1>2, JudgesAssumption DEF roll
<1>4. recipient(seat) \in Seats /\ proposer \in Seats
  BY DEF TypeOK, recipient
<1>5. fate \in PointOps /\ due \in PointOps
  BY <1>1, <1>3, <1>4 DEF Award, PointOps
<1>6. /\ \A s \in Seats : Worth(fate, s) = IF s = recipient(seat) THEN roll(entropy) ELSE 0
      /\ \A s \in Seats : Worth(due, s) = IF s = proposer THEN award ELSE 0
  BY DEF Worth, Award
<1>7. \A s \in Seats : board.points[s] \in Int
  BY DEF TypeOK, BoardOk, runtime_fields_valid
<1>8. o.ops = IF award = 0 THEN <<fate>> ELSE <<due, fate>>
  BY DEF CertifiedOrders
<1>9. o.winners \in SUBSET Seats /\ DOMAIN o = {"ops", "winners"}
  BY DEF CertifiedOrders
<1>10. \A s \in Seats :
         projected(entropy, seat)[s] =
           board.points[s] + (IF s = proposer THEN award ELSE 0)
             + (IF s = recipient(seat) THEN roll(entropy) ELSE 0)
  BY DEF projected
<1>11. o = [ops |-> o.ops, winners |-> o.winners]
  BY DEF CertifiedOrders
<1> HIDE DEF o, fate, due
<1>12. o.ops \in Seq(PointOps) /\ Len(o.ops) <= 2
  BY <1>5, <1>8
<1>13. \A s \in Seats :
         Owed(o.ops, s) = (IF s = proposer THEN award ELSE 0)
                            + (IF s = recipient(seat) THEN roll(entropy) ELSE 0)
  <2> SUFFICES ASSUME NEW s \in Seats
               PROVE  Owed(o.ops, s) = (IF s = proposer THEN award ELSE 0)
                            + (IF s = recipient(seat) THEN roll(entropy) ELSE 0)
    OBVIOUS
  <2>1. CASE award = 0
    <3>1. Owed(<<fate>>, s) = Worth(fate, s)
      BY DEF Owed
    <3> QED
      BY <1>3, <1>6, <1>8, <2>1, <3>1
  <2>2. CASE award # 0
    <3>1. Owed(<<due, fate>>, s) = Worth(due, s) + Worth(fate, s)
      BY DEF Owed
    <3> QED
      BY <1>6, <1>8, <2>2, <3>1
  <2> QED
    BY <2>1, <2>2
<1>14. \A s \in Seats : board.points[s] + Owed(o.ops, s) = projected(entropy, seat)[s]
  BY <1>1, <1>3, <1>7, <1>10, <1>13
<1> QED
  BY <1>9, <1>11, <1>12, <1>14 DEF o

LEMMA CertifiedRulingInv ==
  ASSUME Inv, NEW entropy \in Entropy, NEW seat \in Seats, CertifiedRuling(entropy, seat)
  PROVE  Inv'
<1>1. /\ phase = "rule" /\ phase' = "ruling_ops" /\ judge = "certification"
      /\ cand' = board /\ applied' = 0 /\ rewound' = FALSE /\ adopted' = passed
      /\ draft' = IF passed THEN <<TheOp>> ELSE << >>
      /\ orders' = CertifiedOrders(entropy, seat)
      /\ UNCHANGED <<judge, board, turn, proposer, attempt, tries, proposal, passed,
                     winners, served>>
  BY DEF CertifiedRuling, Open, TheOp
<1>2. proposal \in Proposals /\ TypeOK /\ turn > 0
  BY <1>1 DEF Inv, MidTurn
<1>3. TheOp \in RuleOps
  BY <1>2 DEF TheOp, RuleOps
<1>4. draft' \in Seq(RuleOps) /\ Len(draft') <= 1
  <2>1. <<TheOp>> \in Seq(RuleOps) /\ << >> \in Seq(RuleOps)
    BY <1>3
  <2>2. Len(<<TheOp>>) = 1 /\ Len(<< >>) = 0
    OBVIOUS
  <2> QED
    BY <1>1, <2>1, <2>2
<1>5. /\ orders' \in [ops : Seq(PointOps), winners : SUBSET Seats]
      /\ Len(orders'.ops) <= 2
  BY ONLY <1>1, <1>2, Certified, entropy \in Entropy, seat \in Seats
<1>6. 0 \in 0 .. MaxOps
  BY LimitAssumption
<1>7. TypeOK'
  BY <1>1, <1>4, <1>5, <1>6 DEF Inv, TypeOK, Phases
<1>8. LawTurn' = LawTurn
  BY <1>1 DEF LawTurn, MidTurn
<1>9. CandidateOk'
  BY <1>1 DEF CandidateOk, Untouched, TheOp
<1>10. Projected(entropy, seat)'
  <2>1. \A s \in Seats :
          board.points[s] + Owed(CertifiedOrders(entropy, seat).ops, s)
            = projected(entropy, seat)[s]
    BY ONLY <1>2, Certified, entropy \in Entropy, seat \in Seats
  <2>2. projected(entropy, seat)' = projected(entropy, seat)
    BY <1>1 DEF projected, award, recipient, roll
  <2>3. CertifiedOrders(entropy, seat)' = CertifiedOrders(entropy, seat)
    BY <1>1, <2>2 DEF CertifiedOrders, award, recipient, roll
  <2> QED
    BY <1>1, <2>1, <2>2, <2>3 DEF Projected, Owed
<1>11. applied' + Len(draft') + Len(orders'.ops) <= 3
  BY <1>1, <1>4, <1>5
<1>12. CertifiedOk'
  BY <1>1, <1>5, <1>10, <1>11 DEF CertifiedOk
<1> QED
  BY <1>1, <1>2, <1>7, <1>8, <1>9, <1>12 DEF Inv, MidTurn

LEMMA ApplyOrderInv == ASSUME Inv, ApplyOrder PROVE Inv'
<1> DEFINE op == Head(orders.ops)
<1>1. phase = "ruling_ops" /\ draft = << >> /\ orders.ops # << >>
  BY DEF ApplyOrder
<1>2. /\ BoardOk(cand) /\ BoardOk(board) /\ judge \in Judges /\ applied \in Nat
      /\ orders \in [ops : Seq(PointOps), winners : SUBSET Seats]
  BY DEF Inv, TypeOK
<1>3. op \in PointOps /\ Tail(orders.ops) \in Seq(PointOps)
  BY <1>1, <1>2
<1>4. /\ StateOpOk(cand, op) /\ BoardOk(apply_state_op(cand, op))
      /\ apply_state_op(cand, op).rules = cand.rules
      /\ apply_state_op(cand, op).next_rule_id = cand.next_rule_id
      /\ apply_state_op(cand, op).common = cand.common
      /\ \A s \in Seats :
           apply_state_op(cand, op).points[s] = cand.points[s] + Worth(op, s)
  BY ONLY <1>2, <1>3, AwardApplies
<1>5. CASE ~ (applied < MaxOps)
  <2>1. Refused
    BY <1>5 DEF ApplyOrder
  <2>2. ~ (judge = "certification")
    <3> SUFFICES ASSUME judge = "certification" PROVE FALSE
      OBVIOUS
    <3>1. MaxOps >= 3 /\ MaxOps \in Nat
      BY <1>2, JudgesAssumption, LimitAssumption
    <3>2. applied + Len(draft) + Len(orders.ops) <= 3
      BY <1>1 DEF Inv, CertifiedOk
    <3>3. Len(draft) = 0 /\ Len(orders.ops) > 0
      BY <1>1, <1>2
    <3> QED
      BY <1>2, <1>5, <3>1, <3>2, <3>3
  <2> QED
    BY <1>1, <2>1, <2>2, RefusedInv
<1>6. CASE applied < MaxOps
  <2>1. /\ cand' = apply_state_op(cand, op) /\ applied' = applied + 1
        /\ orders' = [orders EXCEPT !.ops = Tail(@)]
        /\ UNCHANGED <<judge, board, turn, phase, proposer, attempt, tries, proposal,
                       passed, draft, adopted, winners, served, rewound>>
    BY <1>4, <1>6 DEF ApplyOrder
  <2> HIDE DEF op
  <2>2. applied' \in 0 .. MaxOps
    BY <1>2, <1>6, <2>1, LimitAssumption
  <2>3. /\ orders' \in [ops : Seq(PointOps), winners : SUBSET Seats]
        /\ orders'.ops = Tail(orders.ops) /\ orders'.winners = orders.winners
    BY <1>2, <1>3, <2>1
  <2>4. BoardOk(cand')
    BY <1>4, <2>1
  <2>5. TypeOK'
    BY <2>1, <2>2, <2>3, <2>4 DEF Inv, TypeOK
  <2>6. CandidateOk' /\ LawTurn' = LawTurn
    BY <1>1, <1>4, <2>1 DEF Inv, CandidateOk, LawTurn, Untouched, Enforced, TheOp
  <2>7. CertifiedOk'
    <3> SUFFICES ASSUME judge = "certification" PROVE CertifiedOk'
      BY <2>1 DEF CertifiedOk
    <3>1. /\ applied + Len(draft) + Len(orders.ops) <= 3 /\ Len(orders.ops) <= 2
          /\ cand.common = board.common
      BY <1>1 DEF Inv, CertifiedOk
    <3>2. PICK entropy \in Entropy, seat \in Seats : Projected(entropy, seat)
      BY <1>1 DEF Inv, CertifiedOk
    <3>3. Len(Tail(orders.ops)) = Len(orders.ops) - 1 /\ Len(draft) = 0
      BY <1>1, <1>2
    <3>4. Len(orders.ops) \in Nat
      BY <1>2
    <3>5. /\ applied' + Len(draft') + Len(orders'.ops) <= 3 /\ Len(orders'.ops) <= 2
          /\ cand'.common = board'.common
      <4> DEFINE n == Len(orders.ops)
      <4>1. Len(orders'.ops) = n - 1 /\ Len(draft') = 0 /\ applied' = applied + 1
        BY ONLY <2>1, <2>3, <3>3
      <4>2. applied \in Nat /\ n \in Nat /\ applied + n <= 3 /\ n <= 2
        BY ONLY <1>2, <3>1, <3>3, <3>4
      <4>3. cand'.common = board'.common
        BY ONLY <1>4, <2>1, <3>1
      <4> HIDE DEF n
      <4> QED
        BY ONLY <4>1, <4>2, <4>3
    <3>6. \A s \in Seats :
            Owed(orders.ops, s) = Worth(op, s) + Owed(orders'.ops, s)
      BY <1>1, <1>2, <1>3, <2>3, <3>1, OwedSplits DEF op
    <3>7. \A s \in Seats : /\ cand.points[s] \in Int /\ Worth(op, s) \in Int
                            /\ Owed(orders'.ops, s) \in Int
      <4>1. \A s \in Seats : cand.points[s] \in Int
        BY <1>2 DEF BoardOk, runtime_fields_valid
      <4>2. \A s \in Seats : Worth(op, s) \in Int
        BY <1>3 DEF Worth, PointOps
      <4>3. \A s \in Seats : Owed(orders'.ops, s) \in Int
        BY <1>3, <2>3, <3>5, OwedTyped
      <4> QED
        BY <4>1, <4>2, <4>3
    <3>8. \A s \in Seats :
            cand'.points[s] + Owed(orders'.ops, s) = projected(entropy, seat)[s]
      BY <1>4, <2>1, <3>2, <3>6, <3>7 DEF Projected
    <3>9. projected(entropy, seat)' = projected(entropy, seat)
      BY <2>1 DEF projected, award, recipient, roll
    <3>10. CertifiedOrders(entropy, seat)' = CertifiedOrders(entropy, seat)
      BY <2>1, <3>9 DEF CertifiedOrders, award, recipient, roll
    <3>11. Projected(entropy, seat)'
      BY <2>3, <3>2, <3>8, <3>9, <3>10 DEF Projected, Owed
    <3> QED
      BY <1>1, <2>1, <3>5, <3>11 DEF CertifiedOk
  <2> QED
    BY <2>1, <2>5, <2>6, <2>7 DEF Inv
<1> QED
  BY <1>5, <1>6

(* What a ruling leaves on the board when it lands.                        *)
LEMMA Landing ==
  ASSUME Inv, phase = "ruling_ops", draft = << >>
  PROVE  \/ cand.rules = board.rules /\ cand.next_rule_id = board.next_rule_id
         \/ /\ passed /\ TheOp \in RuleOp /\ RuleOpOk(board, TheOp)
            /\ proposal \in Proposals
            /\ cand.rules = apply_rule_op(board, TheOp, turn).rules
            /\ cand.next_rule_id = apply_rule_op(board, TheOp, turn).next_rule_id
<1>1. proposal \in Proposals
  BY DEF Inv
<1>2. TheOp \in RuleOp
  BY <1>1, ProposalOp DEF TheOp
<1> QED
  BY <1>1, <1>2 DEF Inv, CandidateOk, Untouched, Enforced

LEMMA CommitActionInv ==
  ASSUME Inv, NEW w \in Declared, CommitAction(w) PROVE Inv'
<1>1. /\ phase = "action_ops" /\ draft = << >>
      /\ board' = cand /\ rewound' = FALSE /\ winners' = w
      /\ phase' \in {"over", "propose"}
      /\ served' \in {<< >>, served} /\ orders' = NoOrders
      /\ UNCHANGED <<judge, turn, proposer, attempt, tries, proposal, passed,
                     draft, adopted, cand, applied>>
  BY DEF CommitAction, Commit
<1>2. w \in SUBSET Seats
  BY DeclaredAssumption
<1>3. TypeOK'
  <2>1. served' \in Seq(Seats)
    <3>1. << >> \in Seq(Seats)
      OBVIOUS
    <3> QED
      BY <1>1, <3>1 DEF Inv, TypeOK
  <2> QED
    BY <1>1, <1>2, <2>1, NoneLeft DEF Inv, TypeOK, Phases
<1>4. board'.rules = board.rules /\ board'.next_rule_id = board.next_rule_id
  BY <1>1 DEF Inv, CandidateOk, Untouched
<1>5. BoardOk(board) /\ turn \in Nat /\ turn > 0
  BY <1>1 DEF Inv, TypeOK, MidTurn
<1>6. LawTurn = turn - 1 /\ LawTurn' \in {turn - 1, turn}
  BY <1>1 DEF LawTurn, MidTurn
<1>7. SoundRulebook(board, turn - 1) /\ SoundRulebook(board, turn)
  BY <1>5, <1>6, SoundLater DEF Inv
<1>8. SoundRulebook(board', LawTurn')
  BY <1>4, <1>6, <1>7 DEF SoundRulebook
<1>9. Len(board.rules) \in Nat
  BY <1>5 DEF BoardOk
<1>10. Len(board'.rules) <= ProtectedCount + MutableCount + LawTurn'
  <2>1. Len(board.rules) <= ProtectedCount + MutableCount + LawTurn
    BY DEF Inv
  <2> QED
    BY ONLY <1>4, <1>5, <1>6, <1>9, <2>1, RulebookAssumption
<1> QED
  BY <1>1, <1>3, <1>5, <1>8, <1>10 DEF Inv, MidTurn, CandidateOk, CertifiedOk

LEMMA CommitRulingInv ==
  ASSUME Inv, NEW w \in Named(Declared), CommitRuling(w) PROVE Inv'
<1>1. /\ phase = "ruling_ops" /\ draft = << >>
      /\ board' = cand /\ rewound' = FALSE
      /\ winners' = IF w # {} THEN w ELSE point_victors(cand, turn)
      /\ phase' \in {"over", "turn"}
      /\ served' \in {<< >>, served} /\ orders' = NoOrders
      /\ UNCHANGED <<judge, turn, proposer, attempt, tries, proposal, passed,
                     draft, adopted, cand, applied>>
  BY DEF CommitRuling, Commit
<1>2. winners' \in SUBSET Seats
  <2>1. w \in SUBSET Seats
    BY DeclaredAssumption DEF Named, Inv, TypeOK
  <2> QED
    BY <1>1, <2>1 DEF point_victors
<1>3. TypeOK'
  <2>1. served' \in Seq(Seats)
    <3>1. << >> \in Seq(Seats)
      OBVIOUS
    <3> QED
      BY <1>1, <3>1 DEF Inv, TypeOK
  <2> QED
    BY <1>1, <1>2, <2>1, NoneLeft DEF Inv, TypeOK, Phases
<1>4. BoardOk(board) /\ turn \in Nat /\ turn > 0 /\ LawTurn = turn - 1
  BY <1>1 DEF Inv, TypeOK, MidTurn, LawTurn
<1>5. SoundRulebook(board, turn - 1) /\ SoundRulebook(board, turn)
  BY <1>4, SoundLater DEF Inv
<1>6. Len(board.rules) \in Nat /\ Len(board.rules) <= ProtectedCount + MutableCount + turn - 1
  BY <1>4, RulebookAssumption DEF Inv, BoardOk
<1>7. /\ SoundRulebook(board', turn)
      /\ Len(board'.rules) <= ProtectedCount + MutableCount + turn
  <2>1. CASE cand.rules = board.rules /\ cand.next_rule_id = board.next_rule_id
    BY <1>1, <1>4, <1>5, <1>6, <2>1, RulebookAssumption DEF SoundRulebook
  <2>2. CASE /\ TheOp \in RuleOp /\ RuleOpOk(board, TheOp)
             /\ cand.rules = apply_rule_op(board, TheOp, turn).rules
             /\ cand.next_rule_id = apply_rule_op(board, TheOp, turn).next_rule_id
    <3>1. SoundRulebook(apply_rule_op(board, TheOp, turn), turn)
      BY ONLY <1>4, <1>5, <2>2, RuleOpSound
    <3>2. Len(apply_rule_op(board, TheOp, turn).rules) \in
            {Len(board.rules), Len(board.rules) + 1}
      BY ONLY <1>4, <2>2, RuleOpTyped
    <3>3. SoundRulebook(board', turn)
      BY ONLY <1>1, <2>2, <3>1 DEF SoundRulebook
    <3> QED
      BY <1>1, <1>4, <1>6, <2>2, <3>2, <3>3, RulebookAssumption
  <2> QED
    BY <1>1, <2>1, <2>2, Landing
<1>8. LawTurn' = turn
  BY <1>1 DEF LawTurn, MidTurn
<1> QED
  BY <1>1, <1>3, <1>7, <1>8 DEF Inv, MidTurn, CandidateOk, CertifiedOk

LEMMA StutterInv == ASSUME Inv, UNCHANGED vars PROVE Inv'
<1>1. TypeOK' /\ LawTurn' = LawTurn
  BY DEF Inv, TypeOK, LawTurn, vars
<1>2. CandidateOk'
  BY DEF Inv, CandidateOk, Untouched, Enforced, TheOp, vars
<1>3. CertifiedOk'
  <2>1. Doomed' <=> Doomed
    BY DEF Doomed, TheOp, vars
  <2>2. \A entropy \in Entropy, seat \in Seats :
          Projected(entropy, seat) => Projected(entropy, seat)'
    <3> SUFFICES ASSUME NEW entropy \in Entropy, NEW seat \in Seats,
                        Projected(entropy, seat)
                 PROVE  Projected(entropy, seat)'
      OBVIOUS
    <3>1. UNCHANGED <<board, turn, proposer, passed, cand, orders>>
      BY DEF vars
    <3>2. projected(entropy, seat)' = projected(entropy, seat)
      BY <3>1 DEF projected, award, recipient, roll
    <3>3. CertifiedOrders(entropy, seat)' = CertifiedOrders(entropy, seat)
      BY <3>1, <3>2 DEF CertifiedOrders, award, recipient, roll
    <3> QED
      BY <3>1, <3>2, <3>3 DEF Projected, Owed
  <2>3. UNCHANGED <<judge, phase, applied, draft, orders, cand, board>>
    BY DEF vars
  <2> QED
    BY <2>1, <2>2, <2>3 DEF Inv, CertifiedOk
<1> QED
  BY <1>1, <1>2, <1>3 DEF Inv, vars

LEMMA StepInv == ASSUME Inv, [Next]_vars PROVE Inv'
<1>1. CASE StartTurn BY <1>1, StartTurnInv
<1>2. CASE PassAction BY <1>2, PassActionInv
<1>3. CASE RejectAction BY <1>3, RejectActionInv
<1>4. CASE DraftAction BY <1>4, DraftActionInv
<1>5. CASE \E p \in Proposals : Propose(p) BY <1>5, ProposeInv
<1>6. CASE \E ayes \in 0 .. SEAT_COUNT : Vote(ayes) BY <1>6, VoteInv
<1>7. CASE \E d \in [valid : BOOLEAN, adopted : BOOLEAN, rule_ops : RuleOpLists] :
             DraftRuling(d)
  BY <1>7, DraftRulingInv
<1>8. CASE ApplyRuleOp BY <1>8, ApplyRuleOpInv
<1>9. CASE \E op \in ScalarOps : ApplyStateOp(op) BY <1>9, ApplyStateOpInv
<1>10. CASE \E op \in OrderOps : ApplyStateOp(op) BY <1>10, ApplyStateOpInv
<1>11. CASE \E w \in Declared : CommitAction(w) BY <1>11, CommitActionInv
<1>12. CASE \E w \in Named(Declared) : CommitRuling(w) BY <1>12, CommitRulingInv
<1>13. CASE JudgeTimesOut BY <1>13, JudgeTimesOutInv
<1>14. CASE ReachCap BY <1>14, ReachCapInv
<1>15. CASE Ended BY <1>15, StutterInv DEF Ended
<1>16. CASE UNCHANGED vars BY <1>16, StutterInv
<1>17. CASE JudgeErrs BY <1>17, JudgeErrsInv
<1>18. CASE \E entropy \in Entropy, seat \in Seats : CertifiedRuling(entropy, seat)
  BY <1>18, CertifiedRulingInv
<1>19. CASE ApplyOrder BY <1>19, ApplyOrderInv
<1> QED
  BY <1>1, <1>2, <1>3, <1>4, <1>5, <1>6, <1>7, <1>8, <1>9, <1>10, <1>11, <1>12,
     <1>13, <1>14, <1>15, <1>16, <1>17, <1>18, <1>19 DEF Next, Steps

(* The inductive invariant holds throughout every behaviour.               *)
LEMMA AlwaysInv == Spec => []Inv
<1>1. Init => Inv
  BY InitInv
<1>2. Inv /\ [Next]_vars => Inv'
  BY StepInv
<1> QED
  BY <1>1, <1>2, PTL DEF Spec

(* The board and every candidate keep their types, so every field the host *)
(* reads at run time keeps its range (engine.py:376-430).                  *)
THEOREM TypeCorrect == Spec => []TypeOK
<1>1. Inv => TypeOK
  BY DEF Inv
<1> QED
  BY <1>1, AlwaysInv, PTL

(* Identifiers are stable and never reissued, versions are numbered with   *)
(* no gap, and a rule changes at most once in a turn (engine.py:267-329).  *)
THEOREM RulebookIsSound == Spec => []RulebookSound
<1>1. Inv => RulebookSound
  <2> SUFFICES ASSUME Inv PROVE RulebookSound
    OBVIOUS
  <2>1. BoardOk(board) /\ turn \in Nat /\ (phase \in MidTurn => turn > 0)
    BY DEF Inv, TypeOK
  <2>2. SoundRulebook(board, LawTurn) /\ LawTurn \in {turn - 1, turn}
    BY DEF Inv, LawTurn
  <2>3. SoundRulebook(board, turn)
    BY <2>1, <2>2, SoundLater
  <2> QED
    BY <2>3 DEF RulebookSound
<1> QED
  BY <1>1, AlwaysInv, PTL

(* The branch engine.py:275-276 is dead: no adopted enactment meets a full *)
(* rulebook.                                                               *)
THEOREM RulebookHasRoom == Spec => []RulebookNeverFull
<1>1. Inv => RulebookNeverFull
  <2> SUFFICES ASSUME Inv, phase = "ruling_ops", draft # << >>
               PROVE  Len(cand.rules) < MaxRules
    BY DEF RulebookNeverFull
  <2>1. cand.rules = board.rules /\ LawTurn = turn - 1
    BY DEF Inv, CandidateOk, Untouched, LawTurn, MidTurn
  <2>2. Len(board.rules) \in Nat /\ turn \in 0 .. TurnsMax
    BY DEF Inv, TypeOK, BoardOk
  <2> QED
    BY <2>1, <2>2, TurnsAssumption, RulebookAssumption, LimitAssumption DEF Inv
<1> QED
  BY <1>1, AlwaysInv, PTL

-----------------------------------------------------------------------------
(* The law: what a step may do to the rulebook.                            *)
LEMMA LawStep ==
  ASSUME Inv, [Next]_vars
  PROVE  \/ board'.rules = board.rules
         \/ /\ phase = "ruling_ops" /\ passed /\ proposal \in Proposals
            /\ TheOp \in RuleOp /\ RuleOpOk(board, TheOp)
            /\ board'.rules = apply_rule_op(board, TheOp, turn).rules
<1>1. CASE StartTurn
  BY <1>1, Seating DEF StartTurn, Inv, TypeOK
<1>2. CASE \E w \in Declared : CommitAction(w)
  BY <1>2 DEF CommitAction, Commit, Inv, CandidateOk, Untouched
<1>3. CASE \E w \in Named(Declared) : CommitRuling(w)
  <2>1. phase = "ruling_ops" /\ draft = << >> /\ board' = cand
    BY <1>3 DEF CommitRuling, Commit
  <2> QED
    BY <2>1, Landing
<1>4. CASE board' = board
  BY <1>4
<1> QED
  BY <1>1, <1>2, <1>3, <1>4
     DEF Next, Steps, vars, PassAction, RejectAction, DraftAction, Propose, Vote, DraftRuling,
         ApplyRuleOp, ApplyStateOp, ApplyOrder, CertifiedRuling, JudgeErrs,
         JudgeTimesOut, ReachCap, Ended, Refused, Open

(* The two shapes of a change to the rulebook.                             *)
LEMMA LawShape ==
  ASSUME Inv, [Next]_vars, board'.rules # board.rules
  PROVE  /\ phase = "ruling_ops" /\ passed /\ proposal \in Proposals
         /\ \/ /\ proposal.kind = "enact"
               /\ \E id : board'.rules =
                    Append(board.rules, NewRule(id, proposal.text, turn, TRUE))
            \/ /\ proposal.kind # "enact"
               /\ \E i \in DOMAIN board.rules :
                    /\ board.rules[i].id = proposal.rule_id
                    /\ board.rules[i].active
                    /\ board.rules[i].mutable = (proposal.kind # "transmute")
                    /\ board'.rules =
                         [board.rules EXCEPT ![i] = Revised(board.rules[i], TheOp, turn)]
<1>1. /\ phase = "ruling_ops" /\ passed /\ proposal \in Proposals
      /\ TheOp \in RuleOp /\ RuleOpOk(board, TheOp)
      /\ board'.rules = apply_rule_op(board, TheOp, turn).rules
  BY LawStep
<1>2. BoardOk(board)
  BY DEF Inv, TypeOK
<1>3. /\ TheOp.op = proposal.kind
      /\ proposal.kind = "enact" => TheOp.text = proposal.text
      /\ proposal.kind # "enact" => TheOp.rule_id = proposal.rule_id
  BY <1>1, ProposalOp DEF TheOp
<1>4. CASE proposal.kind = "enact"
  <2>1. board'.rules =
          Append(board.rules, NewRule(board.next_rule_id, TheOp.text, turn, TRUE))
    BY ONLY <1>1, <1>2, <1>3, <1>4, EnactEffect
  <2> QED
    BY <1>1, <1>3, <1>4, <2>1
<1>5. CASE proposal.kind # "enact"
  <2>1. \E i \in 1 .. Len(board.rules) :
          /\ board.rules[i].id = TheOp.rule_id /\ board.rules[i].active
          /\ board.rules[i].mutable = (TheOp.op # "transmute")
          /\ apply_rule_op(board, TheOp, turn).rules =
               [board.rules EXCEPT ![i] = Revised(board.rules[i], TheOp, turn)]
    BY ONLY <1>1, <1>2, <1>3, <1>5, ReviseEffect
  <2>2. DOMAIN board.rules = 1 .. Len(board.rules)
    BY <1>2 DEF BoardOk
  <2> QED
    BY <1>1, <1>3, <1>5, <2>1, <2>2
<1> QED
  BY <1>4, <1>5

(* Rules the enactment does not touch, and the one it adds.                *)
LEMMA Enactment ==
  ASSUME NEW rules \in Seq(Rule), NEW r
  PROVE  /\ Len(Append(rules, r)) = Len(rules) + 1
         /\ Append(rules, r)[Len(rules) + 1] = r
         /\ \A i \in DOMAIN rules : Append(rules, r)[i] = rules[i]
OBVIOUS

(* A revision of a rule of the book, spelled out once for what follows.    *)
LEMMA RevisionStep ==
  ASSUME Inv, [Next]_vars, NEW i \in DOMAIN board.rules,
         board'.rules[i] # board.rules[i]
  PROVE  /\ proposal.kind # "enact" /\ passed
         /\ board.rules[i].active
         /\ board.rules[i].mutable = (proposal.kind # "transmute")
         /\ board'.rules[i] = Revised(board.rules[i], TheOp, turn)
         /\ board.rules[i] \in Rule /\ turn \in Nat
         /\ TheOp \in RuleOp /\ TheOp.op = proposal.kind
<1>1. board.rules \in Seq(Rule) /\ turn \in Nat
  BY DEF Inv, TypeOK, BoardOk
<1>2. board.rules[i] \in Rule
  BY <1>1
<1>3. board'.rules # board.rules
  OBVIOUS
<1>4. TheOp \in RuleOp /\ TheOp.op = proposal.kind
  BY <1>3, LawShape, ProposalOp DEF TheOp
<1>5. proposal.kind # "enact"
  <2> SUFFICES ASSUME proposal.kind = "enact" PROVE FALSE
    OBVIOUS
  <2>1. PICK id : board'.rules =
                    Append(board.rules, NewRule(id, proposal.text, turn, TRUE))
    BY <1>3, LawShape
  <2> DEFINE r == NewRule(id, proposal.text, turn, TRUE)
  <2>2. board'.rules = Append(board.rules, r)
    BY <2>1
  <2> HIDE DEF r
  <2>3. board'.rules[i] = board.rules[i]
    BY ONLY <1>1, <2>2, Enactment, i \in DOMAIN board.rules
  <2> QED
    BY <2>3
<1>6. PICK j \in DOMAIN board.rules :
           /\ board.rules[j].active
           /\ board.rules[j].mutable = (proposal.kind # "transmute")
           /\ board'.rules =
                [board.rules EXCEPT ![j] = Revised(board.rules[j], TheOp, turn)]
  BY <1>3, <1>5, LawShape
<1>7. i = j
  BY <1>6
<1> QED
  BY <1>1, <1>2, <1>3, <1>4, <1>5, <1>6, <1>7, LawShape

(* Rule 102 and HOST_CONSTRAINTS[2]: only the adopted proposal changes the *)
(* rulebook, and only as it says.                                          *)
THEOREM LawOnlyByAdoption == Spec => LawFollowsAdoption
<1>1. Inv /\ [Next]_vars => [EnactedOrRevised]_vars
  <2> SUFFICES ASSUME Inv, [Next]_vars, board'.rules # board.rules
               PROVE  EnactedOrRevised
    BY DEF EnactedOrRevised
  <2>1. board.rules \in Seq(Rule)
    BY DEF Inv, TypeOK, BoardOk
  <2>2. CASE proposal.kind = "enact"
    <3>1. PICK id : board'.rules =
                      Append(board.rules, NewRule(id, proposal.text, turn, TRUE))
      BY <2>2, LawShape
    <3> DEFINE r == NewRule(id, proposal.text, turn, TRUE)
    <3>2. r.text = proposal.text
      BY DEF NewRule
    <3>4. board'.rules = Append(board.rules, r)
      BY <3>1
    <3> HIDE DEF r
    <3>3. /\ Len(board'.rules) = Len(board.rules) + 1
          /\ board'.rules[Len(board'.rules)] = r
          /\ \A i \in DOMAIN board.rules : board'.rules[i] = board.rules[i]
      BY ONLY <2>1, <3>4, Enactment
    <3> QED
      BY <2>2, <3>2, <3>3, LawShape DEF EnactedOrRevised
  <2>3. CASE proposal.kind # "enact"
    <3>1. PICK i \in DOMAIN board.rules :
               /\ board.rules[i].id = proposal.rule_id
               /\ board'.rules =
                    [board.rules EXCEPT ![i] = Revised(board.rules[i], TheOp, turn)]
      BY <2>3, LawShape
    <3>2. /\ DOMAIN board'.rules = DOMAIN board.rules
          /\ \A j \in DOMAIN board.rules : j # i => board'.rules[j] = board.rules[j]
      BY <3>1
    <3>3. CASE board'.rules[i] = board.rules[i]
      BY <2>3, <3>2, <3>3, LawShape DEF EnactedOrRevised
    <3>4. CASE board'.rules[i] # board.rules[i]
      <4>1. /\ TheOp.op # "enact" /\ board.rules[i] \in Rule
            /\ TheOp \in RuleOp /\ turn \in Nat
            /\ board'.rules[i] = Revised(board.rules[i], TheOp, turn)
        BY <3>4, RevisionStep
      <4>2. /\ TheOp.op # "amend" => board'.rules[i].text = board.rules[i].text
            /\ TheOp.op = "amend" => board'.rules[i].text = TheOp.text
            /\ board'.rules[i].active <=> TheOp.op # "repeal"
        BY ONLY <4>1, Wording
      <4>3. /\ TheOp.op = proposal.kind
            /\ proposal.kind = "amend" => TheOp.text = proposal.text
        BY LawShape, ProposalOp DEF TheOp
      <4> QED
        BY <2>3, <3>1, <3>2, <4>2, <4>3, LawShape DEF EnactedOrRevised
    <3> QED
      BY <3>3, <3>4
  <2> QED
    BY <2>2, <2>3
<1> QED
  BY <1>1, AlwaysInv, PTL DEF Spec, LawFollowsAdoption

(* Rule 103: protection ends only by an adopted transmutation.             *)
THEOREM ProtectionEndsByTransmutation == Spec => ProtectedOnlyTransmuted
<1>1. Inv /\ [Next]_vars => [ProtectionHolds]_vars
  <2> SUFFICES ASSUME Inv, [Next]_vars, NEW i \in DOMAIN board.rules,
                      ~ board.rules[i].mutable
               PROVE  /\ board'.rules[i].text = board.rules[i].text
                      /\ board.rules[i].active => board'.rules[i].active
                      /\ board'.rules[i].mutable => proposal.kind = "transmute" /\ passed
    BY DEF ProtectionHolds
  <2>1. CASE board'.rules[i] = board.rules[i]
    BY <2>1
  <2>2. CASE board'.rules[i] # board.rules[i]
    <3>1. proposal.kind = "transmute" /\ passed /\ TheOp.op = "transmute"
      BY <2>2, RevisionStep
    <3>2. /\ board.rules[i] \in Rule /\ TheOp \in RuleOp /\ turn \in Nat
          /\ board'.rules[i] = Revised(board.rules[i], TheOp, turn)
      BY <2>2, RevisionStep
    <3>3. /\ board'.rules[i].text = board.rules[i].text
          /\ board'.rules[i].active
      BY ONLY <3>1, <3>2, Transmutation
    <3> QED
      BY <3>1, <3>3
  <2> QED
    BY <2>1, <2>2
<1> QED
  BY <1>1, AlwaysInv, PTL DEF Spec, ProtectedOnlyTransmuted

(* The history of every rule only grows, by what the rule was.             *)
THEOREM PastNeverRewritten == Spec => PastIsKept
<1>1. Inv /\ [Next]_vars => [HistoryGrows]_vars
  <2> SUFFICES ASSUME Inv, [Next]_vars, NEW i \in DOMAIN board.rules,
                      board'.rules[i] # board.rules[i]
               PROVE  LET r == board.rules[i]
                          s == board'.rules[i]
                      IN  /\ r.active
                          /\ s.id = r.id /\ s.created_turn = r.created_turn
                          /\ Len(s.history) = Len(r.history) + 1
                          /\ \A k \in 1 .. Len(r.history) : s.history[k] = r.history[k]
                          /\ s.history[Len(s.history)] =
                               [version |-> r.version, text |-> r.text,
                                mutable |-> r.mutable, ended_turn |-> turn]
    BY DEF HistoryGrows
  <2>1. /\ board.rules[i].active /\ TheOp.op # "enact"
        /\ board.rules[i] \in Rule /\ TheOp \in RuleOp /\ turn \in Nat
        /\ board'.rules[i] = Revised(board.rules[i], TheOp, turn)
    BY RevisionStep
  <2> QED
    BY ONLY <2>1, Revision
<1> QED
  BY <1>1, AlwaysInv, PTL DEF Spec, PastIsKept

(* Somebody is ahead at the cap on turns.                                  *)
LEMMA Leader ==
  ASSUME NEW b, BoardOk(b) PROVE cap_victors(b) # {}
<1>1. /\ b.points[0] \in Int /\ b.points[1] \in Int /\ b.points[2] \in Int
      /\ \A s \in Seats : s = 0 \/ s = 1 \/ s = 2
      /\ 0 \in Seats /\ 1 \in Seats /\ 2 \in Seats
  BY DEF BoardOk, runtime_fields_valid, Seats, SEAT_COUNT
<1>2. \E s \in Seats : \A t \in Seats : b.points[t] <= b.points[s]
  BY ONLY <1>1
<1> QED
  BY <1>2 DEF cap_victors

(* A judge that declares nobody cannot keep the game from a seat that has  *)
(* the points, and no game ends without a winner (judge.py:574-577).       *)
THEOREM VictoryNotMissed == Spec => []NoMissedVictory
<1>1. Init => NoMissedVictory
  BY DEF Init, NoMissedVictory
<1>2. Inv /\ NoMissedVictory /\ [Next]_vars => NoMissedVictory'
  <2> SUFFICES ASSUME Inv, NoMissedVictory, [Next]_vars PROVE NoMissedVictory'
    OBVIOUS
  <2>1. CASE \E w \in Declared : CommitAction(w)
    BY <2>1 DEF CommitAction, NoMissedVictory
  <2>2. CASE \E w \in Named(Declared) : CommitRuling(w)
    <3>1. PICK w \in Named(Declared) :
               /\ winners' = IF w # {} THEN w ELSE point_victors(cand, turn)
               /\ phase' = IF winners' # {} THEN "over" ELSE "turn"
               /\ board' = cand /\ turn' = turn
      BY <2>2 DEF CommitRuling, Commit
    <3>2. CASE winners' # {}
      BY <3>1, <3>2 DEF NoMissedVictory
    <3>3. CASE winners' = {}
      <4>1. point_victors(cand, turn) = {} /\ phase' = "turn"
        BY <3>1, <3>3
      <4> QED
        BY <3>1, <4>1 DEF NoMissedVictory
    <3> QED
      BY <3>2, <3>3
  <2>3. CASE ReachCap
    <3>1. winners' # {} /\ phase' = "over"
      BY <2>3, Leader DEF ReachCap, Inv, TypeOK
    <3> QED
      BY <3>1 DEF NoMissedVictory
  <2>4. CASE phase' \notin {"turn", "over"}
    BY <2>4 DEF NoMissedVictory
  <2>5. CASE UNCHANGED vars
    BY <2>5 DEF NoMissedVictory, vars
  <2>6. CASE ApplyRuleOp \/ ApplyOrder \/ (\E op \in ScalarOps \cup OrderOps : ApplyStateOp(op))
    <3>1. phase' \in {"action_ops", "ruling_ops"} \/ Refused
      BY <2>6 DEF ApplyRuleOp, ApplyOrder, ApplyStateOp
    <3>2. Refused => phase' \in {"action", "rule", "failed"}
      BY DEF Refused, OpenPhase
    <3> QED
      BY <2>4, <3>1, <3>2
  <2>7. CASE \/ JudgeErrs \/ DraftAction
             \/ \E d \in [valid : BOOLEAN, adopted : BOOLEAN, rule_ops : RuleOpLists] :
                  DraftRuling(d)
    <3>1. phase' \in {"action_ops", "ruling_ops"} \/ Refused
      BY <2>7 DEF JudgeErrs, DraftAction, DraftRuling
    <3>2. Refused => phase' \in {"action", "rule", "failed"}
      BY DEF Refused, OpenPhase
    <3> QED
      BY <2>4, <3>1, <3>2
  <2> QED
    BY <2>1, <2>2, <2>3, <2>4, <2>5, <2>6, <2>7
       DEF Next, Steps, StartTurn, PassAction, RejectAction, Propose, Vote,
           CertifiedRuling, JudgeTimesOut, Ended
<1> QED
  BY <1>1, <1>2, AlwaysInv, PTL DEF Spec

(* What a draft may do to the rotation before it lands.                    *)
CandidateRotation ==
  phase \in {"action_ops", "ruling_ops"} =>
    IF rewound THEN proposer_cursor(cand) = 0
    ELSE /\ proposer_order(cand) = proposer_order(board)
         /\ proposer_cursor(cand) = proposer_cursor(board)

LEMMA Cursor ==
  ASSUME NEW b, BoardOk(b)
  PROVE  /\ proposer_order(b) \in Seq(Seats) /\ Len(proposer_order(b)) \in Nat \ {0}
         /\ proposer_cursor(b) \in 0 .. Len(proposer_order(b)) - 1
<1>1. "proposer_order" \in DOMAIN b.common => valid_proposer_order(b.common["proposer_order"])
  BY DEF BoardOk, runtime_fields_valid, FieldOk
<1>2. valid_proposer_order(<<0, 1, 2>>)
  BY LimitAssumption DEF valid_proposer_order, Seats, SEAT_COUNT
<1>3. valid_proposer_order(proposer_order(b))
  BY <1>1, <1>2 DEF proposer_order, Lookup
<1>4. Len(proposer_order(b)) \in Nat \ {0}
  BY <1>3, LimitAssumption DEF valid_proposer_order
<1>5. "proposer_cursor" \in DOMAIN b.common =>
        b.common["proposer_cursor"] \in 0 .. Len(proposer_order(b)) - 1
  BY DEF BoardOk, runtime_fields_valid
<1> QED
  BY <1>3, <1>4, <1>5 DEF valid_proposer_order, proposer_cursor, Lookup

LEMMA SeatingRotates ==
  ASSUME Inv, RotationFollowsOrder, StartTurn
  PROVE  RotationFollowsOrder'
<1> DEFINE order == proposer_order(board)
           n == Len(order)
<1>1. /\ BoardOk(board) /\ served \in Seq(Seats)
      /\ board' = AfterProposer(board)
      /\ served' = IF HasOverride(board) THEN served ELSE Append(served, proposer')
      /\ proposer' = proposer_for_turn(board)
  BY DEF Inv, TypeOK, StartTurn
<1>2. /\ proposer_cursor(board) = Len(served) % n
      /\ \A i \in DOMAIN served : served[i] = order[((i - 1) % n) + 1]
  BY DEF RotationFollowsOrder
<1>3. n \in Nat \ {0} /\ Len(served) \in Nat
  BY <1>1, Cursor
<1>4. proposer_order(board') = order
  BY <1>1 DEF AfterProposer, proposer_order, Lookup, Put, Drop, BoardOk
<1>5. CASE HasOverride(board)
  <2>1. proposer_cursor(board') = proposer_cursor(board) /\ served' = served
    BY <1>1, <1>5 DEF AfterProposer, proposer_cursor, Lookup, Drop, BoardOk
  <2> QED
    BY <1>2, <1>4, <2>1 DEF RotationFollowsOrder
<1>6. CASE ~ HasOverride(board)
  <2>1. proposer_cursor(board') = (proposer_cursor(board) + 1) % n
    BY <1>1, <1>6 DEF AfterProposer, proposer_cursor, Lookup, Put, BoardOk
  <2>2. proposer' = order[proposer_cursor(board) + 1] /\ served' = Append(served, proposer')
    BY <1>1, <1>6 DEF proposer_for_turn
  <2> HIDE DEF order, n
  <2>3. (Len(served) + 1) % n = ((Len(served) % n) + 1) % n
    BY ONLY <1>3, NextRemainder
  <2>4. /\ Len(served') = Len(served) + 1
        /\ DOMAIN served' = 1 .. Len(served) + 1 /\ DOMAIN served = 1 .. Len(served)
        /\ served'[Len(served) + 1] = proposer'
        /\ \A i \in 1 .. Len(served) : served'[i] = served[i]
    BY ONLY <1>1, <2>2
  <2>5. proposer_cursor(board') = Len(served') % n
    BY ONLY <1>2, <2>1, <2>3, <2>4
  <2>6. ASSUME NEW i \in DOMAIN served'
        PROVE  served'[i] = order[((i - 1) % n) + 1]
    <3>1. CASE i \in 1 .. Len(served)
      BY ONLY <1>2, <2>4, <3>1
    <3>2. CASE i = Len(served) + 1
      <4>1. i - 1 = Len(served)
        BY ONLY <1>3, <3>2
      <4> QED
        BY ONLY <1>2, <2>2, <2>4, <3>2, <4>1
    <3>3. i \in 1 .. Len(served) \/ i = Len(served) + 1
      BY ONLY <1>3, <2>4, i \in DOMAIN served'
    <3> QED
      BY <3>1, <3>2, <3>3
  <2>7. proposer_order(board)' = order
    BY <1>4
  <2> QED
    BY <2>5, <2>6, <2>7 DEF RotationFollowsOrder, n
<1> QED
  BY <1>5, <1>6

LEMMA LandingRotates ==
  ASSUME Inv, RotationFollowsOrder, CandidateRotation, Commit,
         phase \in {"action_ops", "ruling_ops"}
  PROVE  RotationFollowsOrder'
<1>1. /\ board' = cand /\ served' = IF rewound THEN << >> ELSE served
      /\ rewound \in BOOLEAN /\ BoardOk(cand)
  BY DEF Commit, Inv, TypeOK
<1>2. CASE rewound
  <2> DEFINE n == Len(proposer_order(cand))
  <2>1. proposer_cursor(cand) = 0 /\ served' = << >>
    BY <1>1, <1>2 DEF CandidateRotation
  <2>2. n \in Nat \ {0}
    BY <1>1, Cursor
  <2> HIDE DEF n
  <2>3. 0 % n = 0
    BY <2>2
  <2>4. DOMAIN << >> = {} /\ Len(<< >>) = 0
    OBVIOUS
  <2> QED
    BY <1>1, <2>1, <2>3, <2>4 DEF RotationFollowsOrder, n
<1>3. CASE ~ rewound
  BY <1>1, <1>3 DEF RotationFollowsOrder, CandidateRotation
<1> QED
  BY <1>2, <1>3

(* The steps that leave board and served alone, and what they do to cand.  *)
LEMMA DraftingRotates ==
  ASSUME Inv, CandidateRotation, [Next]_vars, ~ StartTurn,
         UNCHANGED <<board, served>>
  PROVE  CandidateRotation'
<1>1. CASE phase' \notin {"action_ops", "ruling_ops"}
  BY <1>1 DEF CandidateRotation
<1>2. Refused => phase' \notin {"action_ops", "ruling_ops"}
  BY DEF Refused, OpenPhase
<1>3. CASE cand' = board /\ rewound' = FALSE
  BY <1>3 DEF CandidateRotation
<1>4. CASE UNCHANGED <<phase, cand, rewound>>
  BY <1>4 DEF CandidateRotation
<1>5. CASE ApplyRuleOp /\ ~ Refused
  <2>1. /\ phase = "ruling_ops" /\ draft # << >> /\ RuleOpOk(cand, Head(draft))
        /\ cand' = apply_rule_op(cand, Head(draft), turn)
        /\ UNCHANGED <<phase, rewound>>
    BY <1>5 DEF ApplyRuleOp
  <2>2. BoardOk(cand)
    BY DEF Inv, TypeOK
  <2>3. cand'.common = cand.common
    <3>1. CASE Head(draft).op = "enact"
      BY ONLY <2>1, <2>2, <3>1, EnactEffect
    <3>2. CASE Head(draft).op # "enact"
      BY ONLY <2>1, <2>2, <3>2, ReviseEffect
    <3> QED
      BY <3>1, <3>2
  <2> QED
    BY <2>1, <2>3 DEF CandidateRotation, proposer_order, proposer_cursor
<1>6. CASE ApplyOrder /\ ~ Refused
  <2>1. /\ phase = "ruling_ops" /\ orders.ops # << >>
        /\ cand' = apply_state_op(cand, Head(orders.ops))
        /\ UNCHANGED <<phase, rewound>>
    BY <1>6 DEF ApplyOrder
  <2>2. BoardOk(cand) /\ Head(orders.ops) \in PointOps
    BY <2>1 DEF Inv, TypeOK
  <2>3. cand'.common = cand.common
    BY ONLY <2>1, <2>2, AwardApplies
  <2> QED
    BY <2>1, <2>3 DEF CandidateRotation, proposer_order, proposer_cursor
<1>7. CASE (\E op \in ScalarOps \cup OrderOps : ApplyStateOp(op)) /\ ~ Refused
  <2>1. PICK op \in ScalarOps \cup OrderOps :
             /\ StateOpOk(cand, op) /\ cand' = apply_state_op(cand, op)
             /\ rewound' = (rewound \/ WritesOrder(op))
             /\ phase' = phase /\ phase \in {"action_ops", "ruling_ops"}
    BY <1>7 DEF ApplyStateOp
  <2>2. BoardOk(cand) /\ rewound \in BOOLEAN
    BY DEF Inv, TypeOK
  <2>3. op.scope = "player" \/ op.scope = "common"
    BY OpsAssumption
  <2>4. IF WritesOrder(op)
          THEN proposer_cursor(cand') = 0
          ELSE /\ proposer_order(cand') = proposer_order(cand)
               /\ proposer_cursor(cand') = proposer_cursor(cand)
    BY ONLY <2>1, <2>2, <2>3, OrderWrite
  <2>5. CASE WritesOrder(op)
    BY <2>1, <2>4, <2>5 DEF CandidateRotation
  <2>6. CASE ~ WritesOrder(op)
    <3>1. rewound' <=> rewound
      BY Zenon, <2>1, <2>6
    <3> QED
      BY <2>1, <2>4, <2>6, <3>1 DEF CandidateRotation
  <2> QED
    BY <2>5, <2>6
<1> QED
  BY <1>1, <1>2, <1>3, <1>4, <1>5, <1>6, <1>7
     DEF Next, Steps, vars, judging, PassAction, RejectAction, DraftAction, Propose, Vote,
         DraftRuling, CertifiedRuling, JudgeErrs, JudgeTimesOut, ReachCap, Ended, Open,
         ApplyRuleOp, ApplyOrder, ApplyStateOp, CommitAction, CommitRuling

(* Rule 201 and docs/rules.md:26-30: a proposer is never skipped and never *)
(* served twice in a round, across any number of rewritten orders and      *)
(* one-shot overrides.                                                     *)
THEOREM RotationHolds == Spec => []RotationFollowsOrder
<1>1. Init => RotationFollowsOrder /\ CandidateRotation
  <2> SUFFICES ASSUME Init PROVE RotationFollowsOrder /\ CandidateRotation
    OBVIOUS
  <2>1. board = InitialBoard /\ served = << >> /\ phase = "turn"
    BY DEF Init
  <2>2. proposer_order(board) = <<0, 1, 2>> /\ proposer_cursor(board) = 0
    BY <2>1 DEF InitialBoard, InitialCommon, proposer_order, proposer_cursor, Lookup
  <2>3. DOMAIN << >> = {} /\ Len(<< >>) = 0 /\ Len(<<0, 1, 2>>) = 3
    OBVIOUS
  <2> QED
    BY <2>1, <2>2, <2>3 DEF RotationFollowsOrder, CandidateRotation
<1>2. ASSUME Inv, RotationFollowsOrder, CandidateRotation, [Next]_vars
      PROVE  RotationFollowsOrder' /\ CandidateRotation'
  <2>1. CASE StartTurn
    <3>1. phase' = "action"
      BY <2>1 DEF StartTurn
    <3> QED
      BY <1>2, <2>1, <3>1, SeatingRotates DEF CandidateRotation
  <2>2. CASE \/ \E w \in Declared : CommitAction(w)
             \/ \E w \in Named(Declared) : CommitRuling(w)
    <3>1. Commit /\ phase \in {"action_ops", "ruling_ops"}
      BY <2>2 DEF CommitAction, CommitRuling
    <3>2. phase' \notin {"action_ops", "ruling_ops"}
      BY <2>2 DEF CommitAction, CommitRuling
    <3> QED
      BY <1>2, <3>1, <3>2, LandingRotates DEF CandidateRotation
  <2>3. CASE UNCHANGED <<board, served>> /\ ~ StartTurn
    <3>1. RotationFollowsOrder'
      BY <1>2, <2>3 DEF RotationFollowsOrder
    <3>2. CandidateRotation'
      BY <1>2, <2>3, DraftingRotates
    <3> QED
      BY <3>1, <3>2
  <2> QED
    BY <1>2, <2>1, <2>2, <2>3
       DEF Next, Steps, vars, PassAction, RejectAction, DraftAction, Propose, Vote,
           DraftRuling, CertifiedRuling, JudgeErrs, JudgeTimesOut, ReachCap, Ended, Open,
           Refused, ApplyRuleOp, ApplyOrder, ApplyStateOp
<1> QED
  BY <1>1, <1>2, AlwaysInv, PTL DEF Spec

(* judge.py:501-515: the certification judge declares exactly the winners  *)
(* that the points name on the board its ruling leaves.                    *)
THEOREM WinnersAreProjected == Spec => []ProjectionIsExact
<1>1. Inv => ProjectionIsExact
  <2> SUFFICES ASSUME Inv, judge = "certification", phase = "ruling_ops",
                      draft = << >>, orders.ops = << >>
               PROVE  orders.winners = point_victors(cand, turn)
    BY DEF ProjectionIsExact
  <2>1. PICK entropy \in Entropy, seat \in Seats : Projected(entropy, seat)
    BY DEF Inv, CertifiedOk
  <2>2. cand.common = board.common
    BY DEF Inv, CertifiedOk
  <2>3. \A s \in Seats : cand.points[s] \in Int
    BY DEF Inv, TypeOK, BoardOk, runtime_fields_valid
  <2>4. \A s \in Seats : cand.points[s] = projected(entropy, seat)[s]
    BY <2>1, <2>3 DEF Projected, Owed
  <2>5. /\ victory_points(cand) = victory_points(board)
        /\ victory_check_due(cand, turn) <=> victory_check_due(board, turn)
    BY <2>2 DEF victory_points, victory_check_due
  <2>6. CertifiedOrders(entropy, seat).winners =
          {s \in Seats : /\ victory_check_due(board, turn)
                         /\ projected(entropy, seat)[s] >= victory_points(board)}
    BY DEF CertifiedOrders
  <2> QED
    BY <2>1, <2>4, <2>5, <2>6 DEF Projected, point_victors
<1> QED
  BY <1>1, AlwaysInv, PTL

(* judge.py:448-531: with the certification judge an episode fails on a    *)
(* passed proposal the board refuses, and on nothing else.                 *)
THEOREM OnlyAProposalFails == Spec => []CertifiedFailsOnProposal
<1>1. Inv => CertifiedFailsOnProposal
  BY DEF Inv, CertifiedOk, CertifiedFailsOnProposal, Doomed, TheOp
<1> QED
  BY <1>1, AlwaysInv, PTL

(* A board changes by seating a proposer or by taking its candidate.       *)
StartsOrLands ==
  \/ phase = "turn" /\ board'.rules = board.rules /\ board'.points = board.points
  \/ draft = << >> /\ board' = cand /\ phase' \in {"propose", "turn", "over"}

LEMMA LandingStep ==
  ASSUME Inv, Next, board' # board
  PROVE  StartsOrLands
<1>1. CASE StartTurn
  BY <1>1, Seating DEF StartTurn, Inv, TypeOK, StartsOrLands
<1>2. CASE \E w \in Declared : CommitAction(w)
  BY <1>2 DEF CommitAction, Commit, StartsOrLands
<1>3. CASE \E w \in Named(Declared) : CommitRuling(w)
  BY <1>3 DEF CommitRuling, Commit, StartsOrLands
<1> QED
  BY <1>1, <1>2, <1>3
     DEF Next, Steps, vars, PassAction, RejectAction, DraftAction, Propose, Vote, DraftRuling,
         ApplyRuleOp, ApplyStateOp, ApplyOrder, CertifiedRuling, JudgeErrs,
         JudgeTimesOut, ReachCap, Ended, Refused, Open

(* A draft is opened on the board; once an operation of it is applied, the *)
(* count of them is no longer zero.                                        *)
LEMMA FreshCandidate ==
  ASSUME Inv, Next, phase' \in {"action_ops", "ruling_ops"}, applied' = 0
  PROVE  cand' = board'
<1>1. applied \in Nat
  BY DEF Inv, TypeOK
<1>2. ~ Refused
  BY DEF Refused, OpenPhase
<1>3. CASE \/ DraftAction
           \/ \E d \in [valid : BOOLEAN, adopted : BOOLEAN, rule_ops : RuleOpLists] :
                DraftRuling(d)
           \/ \E entropy \in Entropy, seat \in Seats : CertifiedRuling(entropy, seat)
  BY <1>2, <1>3 DEF DraftAction, DraftRuling, CertifiedRuling, Open
<1>4. CASE ApplyRuleOp \/ ApplyOrder \/ \E op \in ScalarOps \cup OrderOps : ApplyStateOp(op)
  BY <1>1, <1>2, <1>4 DEF ApplyRuleOp, ApplyOrder, ApplyStateOp
<1> QED
  BY <1>2, <1>3, <1>4
     DEF Next, Steps, StartTurn, PassAction, RejectAction, Propose, Vote, JudgeErrs,
         CommitAction, CommitRuling, JudgeTimesOut, ReachCap, Ended, vars

(* engine.py:432-449 and docs/rules.md:32-35: rulings are atomic.          *)
THEOREM RulingsAreAtomic == Spec => AllOrNothing
<1>1. Inv /\ [Next]_vars => [LandsWhole]_vars
  <2> SUFFICES ASSUME Inv, Next PROVE LandsWhole
    OBVIOUS
  <2>1. board' # board => StartsOrLands
    BY LandingStep
  <2>2. phase' \in {"action_ops", "ruling_ops"} /\ applied' = 0 => cand' = board'
    BY FreshCandidate
  <2> QED
    BY <2>1, <2>2 DEF LandsWhole, StartsOrLands
<1> QED
  BY <1>1, AlwaysInv, PTL DEF Spec, AllOrNothing

-----------------------------------------------------------------------------
(* The course of the game.                                                 *)

Courses ==
  /\ phase = "turn" => At = "between"
  /\ phase \in {"action", "action_ops"} => At = "action"
  /\ phase \in {"propose", "vote", "rule", "ruling_ops"} => At = "law"
  /\ phase \in {"over", "failed"} => At = phase

LEMMA Coursed == Courses
BY Zenon DEF Courses, At

(* The judge boundary stays in its half of the turn, or fails.             *)
LEMMA BoundaryCourse ==
  ASSUME phase \in {"action", "action_ops", "rule", "ruling_ops"},
         turn' = turn, attempt' = attempt,
         phase' \in {phase, OpenPhase, "failed"}
  PROVE  Game!Next \/ UNCHANGED <<At, turn, attempt>>
<1>1. Courses /\ Courses'
  BY Coursed, PTL
<1>2. CASE phase' = "failed"
  <2>1. At' = "failed"
    BY <1>1, <1>2 DEF Courses
  <2> QED
    BY <2>1 DEF Game!Next, Game!Fail
<1>3. CASE phase' \in {phase, OpenPhase}
  <2>1. At' = At
    BY <1>1, <1>3 DEF Courses, OpenPhase
  <2> QED
    BY <2>1
<1> QED
  BY <1>2, <1>3

LEMMA TurnCourse ==
  ASSUME Inv,
         \/ StartTurn \/ PassAction \/ RejectAction \/ ReachCap
         \/ \E w \in Declared : CommitAction(w)
         \/ \E w \in Named(Declared) : CommitRuling(w)
  PROVE  Game!Next
<1>1. Courses /\ Courses'
  BY Coursed, PTL
<1>2. CASE StartTurn
  <2>1. /\ phase = "turn" /\ phase' = "action"
        /\ turn < TurnsMax /\ turn' = turn + 1 /\ attempt' = 1
    BY <1>2 DEF StartTurn
  <2>2. At = "between" /\ At' = "action"
    BY <1>1, <2>1 DEF Courses
  <2> QED
    BY <2>1, <2>2 DEF Game!Next, Game!BeginTurn
<1>3. CASE RejectAction /\ attempt = 1
  <2>1. phase = "action" /\ phase' = "action" /\ turn' = turn /\ attempt' = 2
    BY <1>3 DEF RejectAction
  <2>2. At = "action" /\ At' = "action"
    BY <1>1, <2>1 DEF Courses
  <2> QED
    BY <1>3, <2>1, <2>2 DEF Game!Next, Game!Repair
<1>4. CASE \/ PassAction
           \/ RejectAction /\ attempt # 1
           \/ \E w \in Declared : CommitAction(w)
  <2>1. /\ phase \in {"action", "action_ops"} /\ phase' \in {"propose", "over"}
        /\ turn' = turn /\ attempt' = attempt
    BY <1>4 DEF PassAction, RejectAction, CommitAction, Commit
  <2>2. At = "action" /\ At' \in {"law", "over"}
    BY <1>1, <2>1 DEF Courses
  <2> QED
    BY <2>1, <2>2 DEF Game!Next, Game!EndAction
<1>5. CASE \E w \in Named(Declared) : CommitRuling(w)
  <2>1. /\ phase = "ruling_ops" /\ phase' \in {"turn", "over"}
        /\ turn' = turn /\ attempt' = attempt
    BY <1>5 DEF CommitRuling, Commit
  <2>2. At = "law" /\ At' \in {"between", "over"}
    BY <1>1, <2>1 DEF Courses
  <2> QED
    BY <2>1, <2>2 DEF Game!Next, Game!EndTurn
<1>6. CASE ReachCap
  <2>1. /\ phase = "turn" /\ phase' = "over" /\ turn = TurnsMax
        /\ turn' = turn /\ attempt' = attempt
    BY <1>6 DEF ReachCap
  <2>2. At = "between" /\ At' = "over"
    BY <1>1, <2>1 DEF Courses
  <2> QED
    BY <2>1, <2>2 DEF Game!Next, Game!ReachCap
<1> QED
  BY <1>2, <1>3, <1>4, <1>5, <1>6, Zenon

(* The law takes the course that the messages take, whatever the judge     *)
(* drafts and however often it is refused: one repair of an action at most, *)
(* a law unless the action has won, nothing after a victory, and no turn   *)
(* past the cap.                                                           *)
THEOREM LawTakesTheCourse == Spec => TakesTheCourse
<1>1. Init => Game!Init
  BY Coursed DEF Init, Courses, Game!Init
<1>2. Inv /\ [Next]_vars => [Game!Next]_<<At, turn, attempt>>
  <2> SUFFICES ASSUME Inv, [Next]_vars
               PROVE  Game!Next \/ UNCHANGED <<At, turn, attempt>>
    OBVIOUS
  <2>1. CASE \/ StartTurn \/ PassAction \/ RejectAction \/ ReachCap
             \/ \E w \in Declared : CommitAction(w)
             \/ \E w \in Named(Declared) : CommitRuling(w)
    BY <2>1, TurnCourse
  <2>2. CASE (\E p \in Proposals : Propose(p)) \/ (\E ayes \in 0 .. SEAT_COUNT : Vote(ayes))
    <3>1. /\ phase \in {"propose", "vote"} /\ phase' \in {"vote", "rule"}
          /\ turn' = turn /\ attempt' = attempt
      BY <2>2 DEF Propose, Vote
    <3>2. At = "law" /\ At' = "law"
      <4>1. Courses /\ Courses'
        BY Coursed, PTL
      <4> QED
        BY <3>1, <4>1 DEF Courses
    <3> QED
      BY <3>1, <3>2
  <2>3. CASE Ended \/ UNCHANGED vars
    BY <2>3 DEF Ended, vars, At
  <2>4. ASSUME \/ DraftAction \/ JudgeErrs \/ ApplyRuleOp \/ ApplyOrder \/ JudgeTimesOut
               \/ \E d \in [valid : BOOLEAN, adopted : BOOLEAN, rule_ops : RuleOpLists] :
                    DraftRuling(d)
               \/ \E entropy \in Entropy, seat \in Seats : CertifiedRuling(entropy, seat)
               \/ \E op \in ScalarOps \cup OrderOps : ApplyStateOp(op)
        PROVE  Game!Next \/ UNCHANGED <<At, turn, attempt>>
    <3>1. \/ phase = "action" /\ phase' = "action_ops"
          \/ phase = "rule" /\ phase' = "ruling_ops"
          \/ /\ phase \in {"action", "action_ops", "rule", "ruling_ops"}
             /\ phase' \in {phase, OpenPhase, "failed"}
      BY <2>4 DEF DraftAction, JudgeErrs, ApplyRuleOp, ApplyOrder, JudgeTimesOut, DraftRuling,
                  CertifiedRuling, ApplyStateOp, Refused
    <3>2. turn' = turn /\ attempt' = attempt
      BY <2>4 DEF DraftAction, JudgeErrs, ApplyRuleOp, ApplyOrder, JudgeTimesOut, DraftRuling,
                  CertifiedRuling, ApplyStateOp, Refused, Open
    <3>3. CASE \/ phase = "action" /\ phase' = "action_ops"
               \/ phase = "rule" /\ phase' = "ruling_ops"
      <4>1. Courses /\ Courses'
        BY Coursed, PTL
      <4>2. At' = At
        BY <3>3, <4>1 DEF Courses
      <4> QED
        BY <3>2, <4>2
    <3> QED
      BY <3>1, <3>2, <3>3, BoundaryCourse
  <2> QED
    BY <2>1, <2>2, <2>3, <2>4 DEF Next, Steps
<1> QED
  BY <1>1, <1>2, AlwaysInv, PTL DEF Spec, TakesTheCourse, Game!Spec
=============================================================================
