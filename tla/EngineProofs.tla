---------------------------- MODULE EngineProofs ----------------------------
(***************************************************************************)
(* What the operations of Engine preserve, for every rulebook size, every  *)
(* set of texts and every operation.                                       *)
(***************************************************************************)
EXTENDS Engine, SequenceTheorems, WellFoundedInduction, TLAPS

(* The operations a proposal can become.                                   *)
RuleOp == [op : {"enact"}, text : Texts]
            \cup [op : {"amend"}, rule_id : Int, text : Texts]
            \cup [op : {"repeal", "transmute"}, rule_id : Int]

(* The founding board is well typed and sound.                             *)
LEMMA FoundingBoard ==
  /\ BoardOk(InitialBoard)
  /\ SoundRulebook(InitialBoard, 0)
  /\ Len(InitialBoard.rules) = ProtectedCount + MutableCount
<1> DEFINE N == ProtectedCount + MutableCount
<1>1. N \in Nat
  BY RulebookAssumption
<1>2. \A i \in 1 .. N : initial_rules[i] \in Rule
  <2> SUFFICES ASSUME NEW i \in 1 .. N PROVE initial_rules[i] \in Rule
    OBVIOUS
  <2>1. << >> \in Seq(Version)
    OBVIOUS
  <2> QED
    BY <2>1, RulebookAssumption DEF initial_rules, NewRule, Rule
<1>3. initial_rules \in Seq(Rule) /\ Len(initial_rules) = N
        /\ DOMAIN initial_rules = 1 .. N
  <2>1. initial_rules = [i \in 1 .. N |-> initial_rules[i]]
    BY DEF initial_rules
  <2> QED
    BY <1>1, <1>2, <2>1, IsASeq
<1>4. runtime_fields_valid(InitialBoard)
  <2> DEFINE c == InitialCommon
  <2>1. valid_proposer_order(<<0, 1, 2>>)
    BY LimitAssumption DEF valid_proposer_order, Seats, SEAT_COUNT
  <2>2. \A k \in DOMAIN c : FieldOk(k, c[k])
    <3>1. /\ DOMAIN c = {"votes_required", "majority_begins_turn",
                         "transmutation_votes_required", "proposer_order",
                         "proposer_cursor", "points_per_adopted_proposal",
                         "points_per_rejected_proposal", "victory_points",
                         "victory_check_every", "fate_die_sides", "fate_recipient"}
          /\ \A k \in VoteKeys : c[k] \in 1 .. SEAT_COUNT
          /\ \A k \in CountKeys : c[k] \in Nat \ {0}
          /\ \A k \in AwardKeys : c[k] \in Int
          /\ c["fate_die_sides"] = 6 /\ c["fate_recipient"] = "random"
          /\ c["proposer_order"] = <<0, 1, 2>>
      BY LimitAssumption DEF InitialCommon, VoteKeys, CountKeys, AwardKeys, SEAT_COUNT
    <3> HIDE DEF c
    <3>2. \A k \in DOMAIN c : k # "next_proposer"
      BY <3>1
    <3>3. "random" \in FateModes
      BY RulebookAssumption
    <3> QED
      BY <2>1, <3>1, <3>2, <3>3 DEF FieldOk
  <2>3. c["proposer_cursor"] = 0 /\ c["proposer_order"] = <<0, 1, 2>>
    BY DEF InitialCommon
  <2>4. InitialBoard.common = c /\ InitialBoard.points = [s \in Seats |-> 0]
    BY DEF InitialBoard
  <2>5. proposer_order(InitialBoard) = <<0, 1, 2>>
    BY <2>3, <2>4 DEF proposer_order, Lookup, InitialCommon
  <2> HIDE DEF c
  <2> QED
    BY <2>2, <2>3, <2>4, <2>5 DEF runtime_fields_valid
<1>5. DOMAIN InitialBoard.common \subseteq CommonKeys
  BY DEF InitialBoard, InitialCommon, CommonKeys, VoteKeys, CountKeys, AwardKeys
<1>6. BoardOk(InitialBoard)
  BY <1>3, <1>4, <1>5, RulebookAssumption DEF BoardOk, InitialBoard
<1>7. SoundRulebook(InitialBoard, 0)
  <2>1. /\ InitialBoard.rules = initial_rules
        /\ InitialBoard.next_rule_id = 201 + MutableCount
    BY RulebookAssumption DEF InitialBoard
  <2>2. \A i \in 1 .. N :
          /\ initial_rules[i].id =
               IF i <= ProtectedCount THEN 100 + i ELSE 200 + i - ProtectedCount
          /\ initial_rules[i].created_turn = 0
          /\ initial_rules[i].version = 1
          /\ initial_rules[i].history = << >>
    BY DEF initial_rules, NewRule
  <2>3. \A i \in 1 .. N : SoundRule(initial_rules[i], 0)
    <3>1. DOMAIN << >> = {} /\ Len(<< >>) = 0
      OBVIOUS
    <3> SUFFICES ASSUME NEW i \in 1 .. N PROVE SoundRule(initial_rules[i], 0)
      OBVIOUS
    <3> HIDE DEF N
    <3> QED
      BY <2>2, <3>1 DEF SoundRule
  <2>4. \A i, j \in 1 .. N : i < j => initial_rules[i].id < initial_rules[j].id
    BY <1>1, <2>2, RulebookAssumption
  <2>5. \A i \in 1 .. N : initial_rules[i].id < 201 + MutableCount
    BY <1>1, <2>2, RulebookAssumption
  <2> HIDE DEF N
  <2> QED
    BY <1>3, <2>1, <2>3, <2>4, <2>5 DEF SoundRulebook
<1> QED
  BY <1>3, <1>6, <1>7 DEF InitialBoard

(* Seating a proposer: a seat is chosen, the cursor still indexes the      *)
(* order, and neither the rulebook nor the points move.                    *)
LEMMA Seating ==
  ASSUME NEW b, BoardOk(b)
  PROVE  /\ proposer_for_turn(b) \in Seats
         /\ BoardOk(AfterProposer(b))
         /\ AfterProposer(b).rules = b.rules
         /\ AfterProposer(b).next_rule_id = b.next_rule_id
         /\ AfterProposer(b).points = b.points
<1> DEFINE order == proposer_order(b)
           cursor == proposer_cursor(b)
<1>1. order \in Seq(Seats) /\ Len(order) \in Nat \ {0}
  <2>1. <<0, 1, 2>> \in Seq(Seats) /\ Len(<<0, 1, 2>>) = 3
    BY DEF Seats, SEAT_COUNT
  <2>2. CASE "proposer_order" \in DOMAIN b.common
    <3>1. FieldOk("proposer_order", order)
      BY <2>2 DEF BoardOk, runtime_fields_valid, proposer_order, Lookup
    <3>2. valid_proposer_order(order)
      BY <3>1 DEF FieldOk
    <3> HIDE DEF order
    <3> QED
      BY <3>2, LimitAssumption DEF valid_proposer_order
  <2>3. CASE "proposer_order" \notin DOMAIN b.common
    BY <2>1, <2>3 DEF proposer_order, Lookup
  <2> QED BY <2>2, <2>3
<1>2. cursor \in 0 .. Len(order) - 1
  BY <1>1 DEF BoardOk, runtime_fields_valid, proposer_cursor, Lookup
<1>3. proposer_for_turn(b) \in Seats
  <2>1. CASE HasOverride(b)
    BY <2>1 DEF HasOverride, proposer_for_turn, BoardOk, runtime_fields_valid, FieldOk
  <2>2. CASE ~ HasOverride(b)
    BY <1>1, <1>2, <2>2, ElementOfSeq DEF proposer_for_turn
  <2> QED BY <2>1, <2>2
<1>4. (cursor + 1) % Len(order) \in 0 .. Len(order) - 1
  BY <1>1, <1>2
<1>5. BoardOk(AfterProposer(b))
  <2>1. CASE HasOverride(b)
    <3> DEFINE c == Drop(b.common, "next_proposer")
    <3>1. /\ DOMAIN c = DOMAIN b.common \ {"next_proposer"}
          /\ \A k \in DOMAIN c : c[k] = b.common[k]
      BY DEF Drop
    <3>2. AfterProposer(b) = [b EXCEPT !.common = c]
      BY <2>1 DEF AfterProposer
    <3> HIDE DEF c
    <3>3. proposer_order(AfterProposer(b)) = order
      BY <3>1, <3>2 DEF proposer_order, Lookup, BoardOk
    <3>4. runtime_fields_valid(AfterProposer(b))
      BY <3>1, <3>2, <3>3 DEF BoardOk, runtime_fields_valid
    <3> QED
      BY <3>1, <3>2, <3>4 DEF BoardOk
  <2>2. CASE ~ HasOverride(b)
    <3> DEFINE c == Put(b.common, "proposer_cursor", (cursor + 1) % Len(order))
    <3>1. /\ DOMAIN c = DOMAIN b.common \cup {"proposer_cursor"}
          /\ c["proposer_cursor"] = (cursor + 1) % Len(order)
          /\ \A k \in DOMAIN b.common : k # "proposer_cursor" => c[k] = b.common[k]
      BY DEF Put
    <3>2. AfterProposer(b) = [b EXCEPT !.common = c]
      BY <2>2 DEF AfterProposer
    <3> HIDE DEF c
    <3>3. proposer_order(AfterProposer(b)) = order
      BY <3>1, <3>2 DEF proposer_order, Lookup, BoardOk
    <3>4. FieldOk("proposer_cursor", (cursor + 1) % Len(order))
      BY DEF FieldOk, VoteKeys, CountKeys, AwardKeys
    <3>5. runtime_fields_valid(AfterProposer(b))
      BY <1>4, <3>1, <3>2, <3>3, <3>4 DEF BoardOk, runtime_fields_valid
    <3> QED
      BY <3>1, <3>2, <3>5 DEF BoardOk, CommonKeys
  <2> QED BY <2>1, <2>2
<1> QED
  BY <1>3, <1>5 DEF AfterProposer, BoardOk

(* Division by the length of the order.                                    *)
LEMMA Remainder ==
  ASSUME NEW n \in Nat \ {0}, NEW q \in Nat, NEW r \in 0 .. n - 1
  PROVE  (n * q + r) % n = r
OBVIOUS

LEMMA NextRemainder ==
  ASSUME NEW k \in Nat, NEW n \in Nat \ {0}
  PROVE  k % n \in 0 .. n - 1 /\ (k + 1) % n = ((k % n) + 1) % n
<1> DEFINE q == k \div n
           r == k % n
<1>1. k = n * q + r /\ r \in 0 .. n - 1 /\ q \in Nat
  OBVIOUS
<1> HIDE DEF q, r
<1>2. CASE r + 1 < n
  <2>1. k + 1 = n * q + (r + 1) /\ r + 1 \in 0 .. n - 1
    BY <1>1, <1>2
  <2>2. (k + 1) % n = r + 1
    BY <1>1, <2>1, Remainder
  <2>3. (r + 1) % n = r + 1
    BY <1>1, <1>2
  <2> QED
    BY <1>1, <2>2, <2>3 DEF r
<1>3. CASE r + 1 = n
  <2>1. k + 1 = n * (q + 1) + 0
    BY <1>1, <1>3
  <2>2. (k + 1) % n = 0
    BY <1>1, <2>1, Remainder
  <2>3. (r + 1) % n = 0
    BY <1>1, <1>3
  <2> QED
    BY <1>1, <2>2, <2>3 DEF r
<1> QED
  BY <1>1, <1>2, <1>3

(* A state operation that passes the engine's checks leaves a valid board  *)
(* and cannot reach the rulebook.                                          *)
LEMMA StateOperation ==
  ASSUME NEW b, BoardOk(b), NEW op, StateOpOk(b, op),
         op.scope # "player" => op.key \in CommonKeys
  PROVE  /\ BoardOk(apply_state_op(b, op))
         /\ apply_state_op(b, op).rules = b.rules
         /\ apply_state_op(b, op).next_rule_id = b.next_rule_id
<1> DEFINE w == Written(b, op)
<1>1. /\ DOMAIN w = DOMAIN b
      /\ w.rules = b.rules /\ w.next_rule_id = b.next_rule_id
      /\ DOMAIN w.points = DOMAIN b.points
      /\ DOMAIN w.common \subseteq CommonKeys
  BY DEF Written, BoardOk, Put, Drop
<1>2. /\ DOMAIN apply_state_op(b, op) = DOMAIN b
      /\ apply_state_op(b, op).rules = b.rules
      /\ apply_state_op(b, op).next_rule_id = b.next_rule_id
      /\ DOMAIN apply_state_op(b, op).points = DOMAIN b.points
      /\ DOMAIN apply_state_op(b, op).common \subseteq CommonKeys
  BY <1>1 DEF apply_state_op, WritesOrder, BoardOk, Put, CommonKeys
<1> QED
  BY <1>2 DEF BoardOk, StateOpOk

(* Writing the order rewinds the cursor; nothing else moves either.        *)
LEMMA OrderWrite ==
  ASSUME NEW b, BoardOk(b), NEW op, StateOpOk(b, op),
         op.scope = "player" \/ op.scope = "common"
  PROVE  IF WritesOrder(op)
           THEN proposer_cursor(apply_state_op(b, op)) = 0
           ELSE /\ proposer_order(apply_state_op(b, op)) = proposer_order(b)
                /\ proposer_cursor(apply_state_op(b, op)) = proposer_cursor(b)
<1>1. CASE WritesOrder(op)
  <2>1. apply_state_op(b, op).common = Put(Written(b, op).common, "proposer_cursor", 0)
    BY <1>1 DEF apply_state_op, Written, WritesOrder, BoardOk
  <2> QED
    BY <1>1, <2>1 DEF proposer_cursor, Lookup, Put
<1>2. CASE ~ WritesOrder(op)
  <2>1. apply_state_op(b, op) = Written(b, op)
    BY <1>2 DEF apply_state_op
  <2>2. CASE op.scope = "player"
    BY <1>2, <2>1, <2>2 DEF Written, proposer_order, proposer_cursor, Lookup, BoardOk
  <2>3. CASE op.scope = "common"
    <3>1. op.key # "proposer_order" /\ op.key # "proposer_cursor"
      BY <1>2, <2>3 DEF WritesOrder, StateOpOk, StateOpAccepted
    <3>2. PICK v : \/ Written(b, op).common = Drop(b.common, op.key)
                   \/ Written(b, op).common = Put(b.common, op.key, v)
      BY <2>3 DEF Written, BoardOk
    <3> QED
      BY <1>2, <2>1, <3>1, <3>2 DEF proposer_order, proposer_cursor, Lookup, Put, Drop
  <2> QED
    BY <2>2, <2>3
<1> QED
  BY <1>1, <1>2

(* The rule an operation names is the first active rule with its id.       *)
LEMMA FoundRule ==
  ASSUME NEW b, b.rules \in Seq(Rule), NEW id, ActiveRule(b, id) # {}
  PROVE  /\ find_rule(b, id) \in 1 .. Len(b.rules)
         /\ b.rules[find_rule(b, id)].id = id
         /\ b.rules[find_rule(b, id)].active
<1> DEFINE A == ActiveRule(b, id)
<1>1. A \subseteq Nat
  BY DEF ActiveRule
<1> DEFINE Less == {ss \in Nat \X Nat : ss[1] < ss[2]}
<1>2. IsWellFoundedOn(Less, Nat)
  BY NatLessThanWellFounded DEF OpToRel
<1> HIDE DEF Less
<1>3. PICK n \in A : \A j \in A : ~ (<<j, n>> \in Less)
  BY <1>1, <1>2, WFMin
<1>4. \A j \in A : n <= j
  <2>1. \A x, y \in Nat : x < y => <<x, y>> \in Less
    BY DEF Less
  <2> SUFFICES ASSUME NEW j \in A PROVE n <= j
    OBVIOUS
  <2>2. n \in Nat /\ j \in Nat
    BY <1>1
  <2>3. ~ (j < n)
    BY <1>3, <2>1, <2>2
  <2> QED
    BY <2>2, <2>3
<1>5. find_rule(b, id) \in A
  BY <1>4 DEF find_rule
<1> QED
  BY <1>5 DEF ActiveRule

(* A revision keeps the rule's identity and files its last version.        *)
LEMMA Revision ==
  ASSUME NEW r \in Rule, NEW op \in RuleOp, op.op # "enact", NEW turn \in Nat
  PROVE  LET s == Revised(r, op, turn) IN
         /\ s \in Rule
         /\ s.id = r.id /\ s.created_turn = r.created_turn
         /\ s.version = r.version + 1 /\ s.mutable
         /\ s.active = (op.op # "repeal")
         /\ op.op # "amend" => s.text = r.text
         /\ Len(s.history) = Len(r.history) + 1
         /\ \A k \in 1 .. Len(r.history) : s.history[k] = r.history[k]
         /\ s.history[Len(s.history)] =
              [version |-> r.version, text |-> r.text,
               mutable |-> r.mutable, ended_turn |-> turn]
<1> DEFINE v == [version |-> r.version, text |-> r.text,
                 mutable |-> r.mutable, ended_turn |-> turn]
           text == IF op.op = "amend" THEN op.text ELSE r.text
<1>1. v \in Version
  BY DEF Rule, Version
<1>2. text \in Texts
  BY DEF Rule, RuleOp
<1>3. r.history \in Seq(Version) /\ r.version \in Nat
  BY DEF Rule
<1> DEFINE h == Append(r.history, v)
<1>4. /\ h \in Seq(Version)
      /\ Len(h) = Len(r.history) + 1
      /\ \A k \in 1 .. Len(r.history) : h[k] = r.history[k]
      /\ h[Len(h)] = v
  BY <1>1, <1>3
<1> HIDE DEF v, h
<1>5. Revised(r, op, turn) =
        [r EXCEPT !.history = h, !.version = r.version + 1, !.mutable = TRUE,
                  !.active = (op.op # "repeal"), !.text = text]
  BY DEF Revised, Rule, v, h
<1> HIDE DEF text
<1>6. LET s == Revised(r, op, turn) IN
        /\ DOMAIN s = DOMAIN r
        /\ s.id = r.id /\ s.created_turn = r.created_turn
        /\ s.version = r.version + 1 /\ s.mutable
        /\ s.active = (op.op # "repeal")
        /\ s.text = text /\ s.history = h
  BY <1>5 DEF Rule
<1>7. Revised(r, op, turn) \in Rule
  <2>1. Revised(r, op, turn) =
          [id |-> r.id, text |-> text, created_turn |-> r.created_turn,
           version |-> r.version + 1, active |-> op.op # "repeal",
           mutable |-> TRUE, history |-> h]
    BY <1>5 DEF Rule
  <2>2. /\ r.id \in Nat /\ r.created_turn \in Nat /\ r.version + 1 \in Nat
        /\ h \in Seq(Version)
    BY <1>3, <1>4 DEF Rule
  <2> QED
    BY <1>2, <2>1, <2>2 DEF Rule
<1> QED
  BY <1>4, <1>6, <1>7 DEF v, text

(* Only an amendment rewords a rule, and only a repeal ends it.            *)
LEMMA Wording ==
  ASSUME NEW r \in Rule, NEW op \in RuleOp, NEW turn
  PROVE  /\ op.op # "amend" => Revised(r, op, turn).text = r.text
         /\ op.op = "amend" => Revised(r, op, turn).text = op.text
         /\ Revised(r, op, turn).active <=> op.op # "repeal"
BY DEF Revised, Rule

(* A transmutation leaves the text alone and the rule in force.            *)
LEMMA Transmutation ==
  ASSUME NEW r \in Rule, NEW op, op.op = "transmute", NEW turn
  PROVE  Revised(r, op, turn).text = r.text /\ Revised(r, op, turn).active
<1>1. op.op # "repeal" /\ op.op # "amend"
  OBVIOUS
<1> QED
  BY <1>1 DEF Revised, Rule

(* What a rule operation does to the rulebook: append the enacted rule ... *)
LEMMA EnactEffect ==
  ASSUME NEW b, BoardOk(b), NEW op, op.op = "enact", NEW turn
  PROVE  /\ DOMAIN apply_rule_op(b, op, turn) = DOMAIN b
         /\ apply_rule_op(b, op, turn).points = b.points
         /\ apply_rule_op(b, op, turn).common = b.common
         /\ apply_rule_op(b, op, turn).rules =
              Append(b.rules, NewRule(b.next_rule_id, op.text, turn, TRUE))
         /\ apply_rule_op(b, op, turn).next_rule_id = b.next_rule_id + 1
BY DEF apply_rule_op, BoardOk

(* ... or revise the one active rule it names, which is protected exactly  *)
(* when it is transmuted.                                                  *)
LEMMA ReviseEffect ==
  ASSUME NEW b, BoardOk(b), NEW op, op.op # "enact", RuleOpOk(b, op), NEW turn
  PROVE  /\ DOMAIN apply_rule_op(b, op, turn) = DOMAIN b
         /\ apply_rule_op(b, op, turn).points = b.points
         /\ apply_rule_op(b, op, turn).common = b.common
         /\ apply_rule_op(b, op, turn).next_rule_id = b.next_rule_id
         /\ \E i \in 1 .. Len(b.rules) :
              /\ b.rules[i].id = op.rule_id /\ b.rules[i].active
              /\ b.rules[i].mutable = (op.op # "transmute")
              /\ apply_rule_op(b, op, turn).rules =
                   [b.rules EXCEPT ![i] = Revised(b.rules[i], op, turn)]
<1> DEFINE i == find_rule(b, op.rule_id)
<1>1. /\ ActiveRule(b, op.rule_id) # {}
      /\ b.rules[i].mutable = (op.op # "transmute")
  BY DEF RuleOpOk
<1>2. i \in 1 .. Len(b.rules) /\ b.rules[i].id = op.rule_id /\ b.rules[i].active
  BY <1>1, FoundRule DEF BoardOk
<1>3. apply_rule_op(b, op, turn) =
        [b EXCEPT !.rules = [b.rules EXCEPT ![i] = Revised(b.rules[i], op, turn)]]
  BY <1>2 DEF apply_rule_op, BoardOk
<1> HIDE DEF i
<1> QED
  BY <1>1, <1>2, <1>3 DEF BoardOk

(* A rule operation keeps the board well typed.                            *)
LEMMA RuleOpTyped ==
  ASSUME NEW b, BoardOk(b), NEW op \in RuleOp, RuleOpOk(b, op), NEW turn \in Nat
  PROVE  LET a == apply_rule_op(b, op, turn) IN
         /\ BoardOk(a)
         /\ Len(a.rules) \in {Len(b.rules), Len(b.rules) + 1}
<1> DEFINE a == apply_rule_op(b, op, turn)
<1>1. a.rules \in Seq(Rule) /\ a.next_rule_id \in Nat
        /\ Len(a.rules) \in {Len(b.rules), Len(b.rules) + 1}
  <2>1. CASE op.op = "enact"
    <3>1. << >> \in Seq(Version)
      OBVIOUS
    <3>2. NewRule(b.next_rule_id, op.text, turn, TRUE) \in Rule
      BY <2>1, <3>1 DEF NewRule, Rule, RuleOp, BoardOk
    <3>3. /\ a.rules = Append(b.rules, NewRule(b.next_rule_id, op.text, turn, TRUE))
          /\ a.next_rule_id = b.next_rule_id + 1
      BY <2>1, EnactEffect
    <3>4. b.rules \in Seq(Rule) /\ b.next_rule_id \in Nat
      BY DEF BoardOk
    <3>5. PICK n \in Rule : a.rules = Append(b.rules, n)
      BY <3>2, <3>3
    <3> HIDE DEF a
    <3>6. /\ Append(b.rules, n) \in Seq(Rule)
          /\ Len(Append(b.rules, n)) = Len(b.rules) + 1
      BY <3>4
    <3>7. a.next_rule_id \in Nat
      BY <3>3, <3>4
    <3> QED
      BY <3>5, <3>6, <3>7
  <2>2. CASE op.op # "enact"
    <3>1. PICK i \in 1 .. Len(b.rules) :
            a.rules = [b.rules EXCEPT ![i] = Revised(b.rules[i], op, turn)]
      BY <2>2, ReviseEffect
    <3>2. a.next_rule_id = b.next_rule_id
      BY <2>2, ReviseEffect
    <3>3. Revised(b.rules[i], op, turn) \in Rule
      BY <2>2, Revision, ElementOfSeq DEF BoardOk
    <3> HIDE DEF a
    <3> QED
      BY <3>1, <3>2, <3>3, ExceptSeq DEF BoardOk
  <2> QED BY <2>1, <2>2
<1>2. DOMAIN a = DOMAIN b /\ a.points = b.points /\ a.common = b.common
  <2>1. CASE op.op = "enact"
    BY <2>1, EnactEffect
  <2>2. CASE op.op # "enact"
    BY <2>2, ReviseEffect
  <2> QED BY <2>1, <2>2
<1>3. runtime_fields_valid(a)
  BY <1>2 DEF runtime_fields_valid, BoardOk, proposer_order
<1> QED
  BY <1>1, <1>2, <1>3 DEF BoardOk

(* The types of a rule's parts.                                            *)
LEMMA RuleParts ==
  ASSUME NEW r \in Rule
  PROVE  /\ r.id \in Nat /\ r.created_turn \in Nat /\ r.version \in Nat
         /\ r.history \in Seq(Version)
         /\ Len(r.history) \in Nat /\ DOMAIN r.history = 1 .. Len(r.history)
         /\ \A k \in 1 .. Len(r.history) : r.history[k].ended_turn \in Nat
<1>1. /\ r.id \in Nat /\ r.created_turn \in Nat /\ r.version \in Nat
      /\ r.history \in Seq(Version)
  BY DEF Rule
<1>2. \A k \in 1 .. Len(r.history) : r.history[k] \in Version
  BY <1>1, ElementOfSeq
<1> QED
  BY <1>1, <1>2, LenProperties DEF Version

(* Soundness at a turn is soundness at every later one.                    *)
LEMMA SoundLater ==
  ASSUME NEW b, BoardOk(b), NEW t \in Int, NEW u \in Int, t <= u, SoundRulebook(b, t)
  PROVE  SoundRulebook(b, u)
<1> SUFFICES ASSUME NEW i \in DOMAIN b.rules PROVE SoundRule(b.rules[i], u)
  BY DEF SoundRulebook
<1> DEFINE r == b.rules[i]
<1>1. r \in Rule /\ SoundRule(r, t)
  <2>1. b.rules \in Seq(Rule)
    BY DEF BoardOk
  <2> QED
    BY <2>1, ElementOfSeq, LenProperties DEF SoundRulebook
<1> HIDE DEF r
<1>2. /\ r.created_turn \in Nat
      /\ \A k \in DOMAIN r.history : r.history[k].ended_turn \in Nat
  BY <1>1, RuleParts
<1> QED
  BY <1>1, <1>2 DEF SoundRule, r

(* A revision made in the turn after a rule was sound leaves it sound.     *)
LEMMA RevisionSound ==
  ASSUME NEW r \in Rule, NEW op \in RuleOp, op.op # "enact", NEW turn \in Nat,
         SoundRule(r, turn - 1)
  PROVE  SoundRule(Revised(r, op, turn), turn)
<1> DEFINE s == Revised(r, op, turn)
           n == Len(r.history)
           v == [version |-> r.version, text |-> r.text,
                 mutable |-> r.mutable, ended_turn |-> turn]
<1>1. /\ s \in Rule
      /\ s.created_turn = r.created_turn /\ s.version = r.version + 1
      /\ Len(s.history) = n + 1
      /\ \A k \in 1 .. n : s.history[k] = r.history[k]
      /\ s.history[Len(s.history)] = v
  BY Revision
<1>2. v.version = r.version /\ v.ended_turn = turn
  OBVIOUS
<1>3. /\ r.created_turn \in Nat /\ r.version \in Nat
      /\ n \in Nat /\ DOMAIN r.history = 1 .. n
      /\ \A k \in 1 .. n : r.history[k].ended_turn \in Nat
  BY RuleParts
<1>4. DOMAIN s.history = 1 .. n + 1
  BY <1>1, RuleParts
<1>5. /\ r.created_turn <= turn - 1
      /\ r.version = n + 1
      /\ \A k \in 1 .. n : /\ r.history[k].version = k
                            /\ r.history[k].ended_turn \in r.created_turn + 1 .. turn - 1
      /\ \A k, m \in 1 .. n : k < m => r.history[k].ended_turn < r.history[m].ended_turn
  BY <1>3 DEF SoundRule
<1> HIDE DEF s, n, v
<1>6. s.history[n + 1] = v
  BY <1>1
<1>7. \A k \in 1 .. n + 1 : k \in 1 .. n \/ k = n + 1
  BY <1>3
<1>8. \A k \in 1 .. n + 1 : /\ s.history[k].version = k
                             /\ s.history[k].ended_turn \in r.created_turn + 1 .. turn
  <2> SUFFICES ASSUME NEW k \in 1 .. n + 1
               PROVE  /\ s.history[k].version = k
                      /\ s.history[k].ended_turn \in r.created_turn + 1 .. turn
    OBVIOUS
  <2>1. CASE k \in 1 .. n
    <3>1. s.history[k] = r.history[k]
      BY <1>1, <2>1
    <3>2. r.history[k].version = k
            /\ r.history[k].ended_turn \in r.created_turn + 1 .. turn - 1
      BY <1>5, <2>1
    <3> QED BY <1>3, <3>1, <3>2
  <2>2. CASE k = n + 1
    BY <1>2, <1>3, <1>5, <1>6, <2>2
  <2> QED BY <1>7, <2>1, <2>2
<1>9. \A k, m \in 1 .. n + 1 : k < m => s.history[k].ended_turn < s.history[m].ended_turn
  <2> SUFFICES ASSUME NEW k \in 1 .. n + 1, NEW m \in 1 .. n + 1, k < m
               PROVE  s.history[k].ended_turn < s.history[m].ended_turn
    OBVIOUS
  <2>1. k \in 1 .. n /\ s.history[k].ended_turn = r.history[k].ended_turn
    BY <1>1, <1>3
  <2>2. CASE m \in 1 .. n
    <3>1. s.history[m].ended_turn = r.history[m].ended_turn
      BY <1>1, <2>2
    <3> QED BY <1>5, <2>1, <2>2, <3>1
  <2>3. CASE m = n + 1
    BY <1>2, <1>3, <1>5, <1>6, <2>1, <2>3
  <2> QED BY <1>7, <2>2, <2>3
<1>10. s.created_turn <= turn /\ s.version = Len(s.history) + 1
  BY <1>1, <1>3, <1>5
<1> QED
  BY <1>1, <1>4, <1>8, <1>9, <1>10 DEF SoundRule, s

(* One rule operation per turn keeps the rulebook sound.                   *)
LEMMA RuleOpSound ==
  ASSUME NEW b, BoardOk(b), NEW op \in RuleOp, RuleOpOk(b, op), NEW turn \in Nat,
         turn > 0, SoundRulebook(b, turn - 1)
  PROVE  SoundRulebook(apply_rule_op(b, op, turn), turn)
<1> DEFINE a == apply_rule_op(b, op, turn)
<1>1. /\ b.rules \in Seq(Rule) /\ b.next_rule_id \in Nat
      /\ DOMAIN b.rules = 1 .. Len(b.rules) /\ Len(b.rules) \in Nat
      /\ \A i \in 1 .. Len(b.rules) : b.rules[i] \in Rule /\ b.rules[i].id \in Nat
  <2>1. b.rules \in Seq(Rule) /\ b.next_rule_id \in Nat
    BY DEF BoardOk
  <2> QED
    BY <2>1, ElementOfSeq, LenProperties, RuleParts
<1>2. SoundRulebook(b, turn)
  BY SoundLater
<1>3. CASE op.op = "enact"
  <2> DEFINE n == NewRule(b.next_rule_id, op.text, turn, TRUE)
  <2>1. n.id = b.next_rule_id /\ SoundRule(n, turn)
    BY DEF NewRule, SoundRule
  <2>2. a.rules = Append(b.rules, n) /\ a.next_rule_id = b.next_rule_id + 1
    BY <1>3, EnactEffect
  <2> HIDE DEF n, a
  <2>3. /\ DOMAIN a.rules = 1 .. Len(b.rules) + 1
        /\ \A i \in 1 .. Len(b.rules) : a.rules[i] = b.rules[i]
        /\ a.rules[Len(b.rules) + 1] = n
    BY <1>1, <2>2
  <2>4. /\ \A i, j \in 1 .. Len(b.rules) : i < j => b.rules[i].id < b.rules[j].id
        /\ \A i \in 1 .. Len(b.rules) :
             b.rules[i].id < b.next_rule_id /\ SoundRule(b.rules[i], turn)
    BY <1>1, <1>2 DEF SoundRulebook
  <2>5. \A i, j \in 1 .. Len(b.rules) + 1 : i < j => a.rules[i].id < a.rules[j].id
    <3> SUFFICES ASSUME NEW i \in 1 .. Len(b.rules) + 1, NEW j \in 1 .. Len(b.rules) + 1,
                        i < j
                 PROVE  a.rules[i].id < a.rules[j].id
      OBVIOUS
    <3>1. i \in 1 .. Len(b.rules) /\ a.rules[i] = b.rules[i]
      BY <1>1, <2>3
    <3>2. CASE j \in 1 .. Len(b.rules)
      BY <2>3, <2>4, <3>1, <3>2
    <3>3. CASE j = Len(b.rules) + 1
      BY <2>1, <2>3, <2>4, <3>1, <3>3
    <3>4. \A k \in Nat : \A x \in 1 .. k + 1 : x \in 1 .. k \/ x = k + 1
      OBVIOUS
    <3>5. Len(b.rules) \in Nat
      BY <1>1
    <3> QED BY <3>2, <3>3, <3>4, <3>5
  <2>6. \A i \in 1 .. Len(b.rules) + 1 :
          a.rules[i].id < a.next_rule_id /\ SoundRule(a.rules[i], turn)
    BY <1>1, <2>1, <2>2, <2>3, <2>4
  <2> QED
    BY <2>3, <2>5, <2>6 DEF SoundRulebook, a
<1>4. CASE op.op # "enact"
  <2>1. PICK i \in 1 .. Len(b.rules) :
          /\ b.rules[i].id = op.rule_id /\ b.rules[i].active
          /\ b.rules[i].mutable = (op.op # "transmute")
          /\ a.rules = [b.rules EXCEPT ![i] = Revised(b.rules[i], op, turn)]
    BY ONLY <1>4, ReviseEffect, BoardOk(b), RuleOpOk(b, op)
  <2>2. a.next_rule_id = b.next_rule_id
    BY <1>4, ReviseEffect
  <2>3. b.rules[i] \in Rule /\ SoundRule(b.rules[i], turn - 1)
    BY <1>1 DEF SoundRulebook
  <2> DEFINE s == Revised(b.rules[i], op, turn)
  <2>4. s.id = b.rules[i].id /\ SoundRule(s, turn)
    <3>1. s.id = b.rules[i].id
      BY <1>4, <2>3, Revision
    <3>2. SoundRule(s, turn)
      BY <1>4, <2>3, RevisionSound
    <3> QED BY <3>1, <3>2
  <2> HIDE DEF a, s
  <2>5. /\ DOMAIN a.rules = 1 .. Len(b.rules)
        /\ \A j \in 1 .. Len(b.rules) : a.rules[j] = IF j = i THEN s ELSE b.rules[j]
    BY <1>1, <2>1 DEF s
  <2>6. \A j \in 1 .. Len(b.rules) : a.rules[j].id = b.rules[j].id
    BY <2>4, <2>5
  <2>7. \A j \in 1 .. Len(b.rules) : SoundRule(a.rules[j], turn)
    BY <1>1, <1>2, <2>4, <2>5 DEF SoundRulebook
  <2> QED
    BY <1>1, <1>2, <2>2, <2>5, <2>6, <2>7 DEF SoundRulebook, a
<1> QED
  BY <1>3, <1>4

=============================================================================
