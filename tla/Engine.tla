------------------------------- MODULE Engine -------------------------------
(***************************************************************************)
(* The pure state machine of gnomic/engine.py as operators on a board:     *)
(*                                                                         *)
(*    rules         the rulebook, in the order the rules were enacted      *)
(*    next_rule_id  the identifier the next enactment receives             *)
(*    points        WorldState.players[seat]["points"]                     *)
(*    common        WorldState.common, a dictionary: a function whose      *)
(*                  domain is the set of keys present                      *)
(*                                                                         *)
(* A player's other keys, and the common keys the host never reads, carry  *)
(* no control and are left out.  Rule texts are members of Texts, and      *)
(* Unusable stands for any input the engine refuses whatever the board is: *)
(* a blank or overlong text, an ill-typed, non-finite or oversized value.  *)
(***************************************************************************)
EXTENDS Integers, Sequences

CONSTANTS ProtectedCount,       \* founding rules 101, 102, ...
          MutableCount,         \* founding rules 201, 202, ...
          MaxRules,             \* MAX_RULES
          MaxOps,               \* MAX_OPS_PER_RULING
          MaxProposerSequence,  \* MAX_PROPOSER_SEQUENCE
          VictoryPoints,        \* the founding victory_points, 100
          FateModes,            \* the names fate_recipient can hold
          Texts,                \* the rule texts
          Founding,             \* the text of a founding rule
          Unusable              \* an input refused on any board

SEAT_COUNT == 3
Seats == 0 .. SEAT_COUNT - 1

ASSUME RulebookAssumption ==
  /\ ProtectedCount \in 0 .. 100
  /\ MutableCount \in Nat
  /\ Founding \in Texts
  /\ {"random", "proposer"} \subseteq FateModes

ASSUME LimitAssumption ==
  /\ VictoryPoints \in Nat \ {0}
  /\ MaxRules \in Nat
  /\ MaxOps \in Nat
  /\ MaxProposerSequence \in Nat /\ MaxProposerSequence >= SEAT_COUNT

ASSUME UnusableAssumption ==
  /\ Unusable \notin Texts
  /\ Unusable \notin Int
  /\ Unusable \notin FateModes
  /\ Unusable \notin Seq(Seats)

-----------------------------------------------------------------------------
(* Dictionaries.                                                           *)

Lookup(d, k, default) == IF k \in DOMAIN d THEN d[k] ELSE default
Put(d, k, v) == [x \in DOMAIN d \cup {k} |-> IF x = k THEN v ELSE d[x]]
Drop(d, k) == [x \in DOMAIN d \ {k} |-> d[x]]

-----------------------------------------------------------------------------
(* The founding board.                                                     *)

NewRule(id, text, turn, mutable) ==
  [id |-> id, text |-> text, created_turn |-> turn, version |-> 1,
   active |-> TRUE, mutable |-> mutable, history |-> << >>]

initial_rules ==
  [i \in 1 .. ProtectedCount + MutableCount |->
     IF i <= ProtectedCount
       THEN NewRule(100 + i, Founding, 0, FALSE)
       ELSE NewRule(200 + i - ProtectedCount, Founding, 0, TRUE)]

InitialCommon ==
  [votes_required |-> 3,
   majority_begins_turn |-> 7,
   transmutation_votes_required |-> 3,
   proposer_order |-> <<0, 1, 2>>,
   proposer_cursor |-> 0,
   points_per_adopted_proposal |-> 3,
   points_per_rejected_proposal |-> -1,
   victory_points |-> VictoryPoints,
   victory_check_every |-> 3,
   fate_die_sides |-> 6,
   fate_recipient |-> "random"]

InitialBoard ==
  [rules |-> initial_rules,
   next_rule_id |-> 200 + MutableCount + 1,
   points |-> [s \in Seats |-> 0],
   common |-> InitialCommon]

-----------------------------------------------------------------------------
(* What the host reads from the public state.                              *)

valid_proposer_order(v) ==
  /\ v \in Seq(Seats)
  /\ Len(v) \in 1 .. MaxProposerSequence

proposer_order(b) == Lookup(b.common, "proposer_order", <<0, 1, 2>>)
proposer_cursor(b) == Lookup(b.common, "proposer_cursor", 0)

Least(x, y) == IF x <= y THEN x ELSE y
Greatest(x, y) == IF x >= y THEN x ELSE y

(* Transmuting a protected rule has a threshold of its own; from           *)
(* majority_begins_turn on, two votes carry any other proposal.            *)
votes_required(b, turn, kind) ==
  LET stated == Lookup(b.common, "votes_required", 2)
      majority == /\ "majority_begins_turn" \in DOMAIN b.common
                  /\ turn >= b.common["majority_begins_turn"]
      required == IF majority THEN Least(stated, 2) ELSE stated
  IN  IF kind = "transmute"
        THEN Greatest(required,
                      Lookup(b.common, "transmutation_votes_required", 3))
        ELSE required

victory_points(b) == Lookup(b.common, "victory_points", 100)
proposal_points(b, adopted) ==
  IF adopted THEN Lookup(b.common, "points_per_adopted_proposal", 3)
             ELSE Lookup(b.common, "points_per_rejected_proposal", -1)
fate_die_sides(b) == Lookup(b.common, "fate_die_sides", 6)
fate_recipient(b) == Lookup(b.common, "fate_recipient", "random")
victory_check_due(b, turn) ==
  turn % Lookup(b.common, "victory_check_every", 3) = 0

point_victors(b, turn) ==
  {s \in Seats : victory_check_due(b, turn) /\ b.points[s] >= victory_points(b)}

cap_victors(b) == {s \in Seats : \A t \in Seats : b.points[t] <= b.points[s]}

-----------------------------------------------------------------------------
(* Rule operations.                                                        *)

ActiveRule(b, id) == {i \in DOMAIN b.rules : b.rules[i].id = id /\ b.rules[i].active}
find_rule(b, id) == CHOOSE i \in ActiveRule(b, id) : \A j \in ActiveRule(b, id) : i <= j

(* Mutant: protection is not looked at.                                    *)
RuleOpOk_AnyRule(b, op) ==
  IF op.op = "enact" THEN op.text # Unusable /\ Len(b.rules) < MaxRules
                     ELSE ActiveRule(b, op.rule_id) # {}

RuleOpOk(b, op) ==
  \/ /\ op.op = "enact"
     /\ op.text # Unusable
     /\ Len(b.rules) < MaxRules
  \/ /\ op.op # "enact"
     /\ ActiveRule(b, op.rule_id) # {}
     /\ b.rules[find_rule(b, op.rule_id)].mutable = (op.op # "transmute")
     /\ op.op = "amend" => op.text # Unusable

(* The rule a transmutation, an amendment or a repeal leaves behind: the   *)
(* version it ends goes to the history first.                              *)
Revised(rule, op, turn) ==
  [rule EXCEPT
     !.history = Append(@, [version |-> rule.version, text |-> rule.text,
                            mutable |-> rule.mutable, ended_turn |-> turn]),
     !.version = @ + 1,
     !.mutable = TRUE,
     !.active  = op.op # "repeal",
     !.text    = IF op.op = "amend" THEN op.text ELSE @]

(* Mutant: the next identifier is not consumed.                            *)
apply_rule_op_SameId(b, op, turn) ==
  IF op.op = "enact"
    THEN [b EXCEPT !.rules = Append(@, NewRule(b.next_rule_id, op.text, turn, TRUE))]
    ELSE [b EXCEPT !.rules[find_rule(b, op.rule_id)] = Revised(@, op, turn)]

apply_rule_op(b, op, turn) ==
  IF op.op = "enact"
    THEN [b EXCEPT !.rules = Append(@, NewRule(b.next_rule_id, op.text, turn, TRUE)),
                   !.next_rule_id = @ + 1]
    ELSE [b EXCEPT !.rules[find_rule(b, op.rule_id)] = Revised(@, op, turn)]

proposal_rule_op(p) ==
  IF p.kind = "enact" THEN [op |-> p.kind, text |-> p.text]
  ELSE IF p.kind = "amend" THEN [op |-> p.kind, rule_id |-> p.rule_id, text |-> p.text]
  ELSE [op |-> p.kind, rule_id |-> p.rule_id]

-----------------------------------------------------------------------------
(* State operations.                                                       *)

VoteKeys == {"votes_required", "transmutation_votes_required"}
CountKeys == {"majority_begins_turn", "victory_check_every", "victory_points"}
AwardKeys == {"points_per_adopted_proposal", "points_per_rejected_proposal"}
CommonKeys ==
  VoteKeys \cup CountKeys \cup AwardKeys
    \cup {"fate_die_sides", "fate_recipient",
          "proposer_order", "proposer_cursor", "next_proposer"}

FieldOk(k, v) ==
  /\ k \in VoteKeys => v \in 1 .. SEAT_COUNT
  /\ k \in CountKeys => v \in Nat \ {0}
  /\ k \in AwardKeys => v \in Int
  /\ k = "fate_die_sides" => v \in 1 .. 1000
  /\ k = "fate_recipient" => v \in FateModes
  /\ k = "proposer_order" => valid_proposer_order(v)
  /\ k = "next_proposer" => v \in Seats

runtime_fields_valid(b) ==
  /\ \A s \in Seats : b.points[s] \in Int
  /\ \A k \in DOMAIN b.common : FieldOk(k, b.common[k])
  /\ "proposer_cursor" \in DOMAIN b.common =>
       b.common["proposer_cursor"] \in 0 .. Len(proposer_order(b)) - 1

(* The refusals that precede the write.                                    *)
StateOpAccepted(b, op) ==
  IF op.scope = "player"
    THEN /\ op.op # "delete"
         /\ op.op = "increment" => op.value # Unusable
    ELSE /\ op.key # "proposer_cursor"
         /\ op.key = "proposer_order" => op.op # "increment"
         /\ op.op = "increment" => op.value # Unusable /\ op.key # "fate_recipient"

Written(b, op) ==
  IF op.scope = "player"
    THEN [b EXCEPT !.points[op.seat] =
            IF op.op = "increment" THEN @ + op.value ELSE op.value]
    ELSE [b EXCEPT !.common =
            IF op.op = "delete" THEN Drop(@, op.key)
            ELSE IF op.op = "increment"
                   THEN Put(@, op.key, Lookup(@, op.key, 0) + op.value)
                   ELSE Put(@, op.key, op.value)]

WritesOrder(op) == op.scope = "common" /\ op.key = "proposer_order"

(* Any write to the order rewinds the cursor, before the fields are        *)
(* validated.                                                              *)
apply_state_op(b, op) ==
  IF WritesOrder(op)
    THEN [Written(b, op) EXCEPT !.common = Put(@, "proposer_cursor", 0)]
    ELSE Written(b, op)

StateOpOk(b, op) ==
  StateOpAccepted(b, op) /\ runtime_fields_valid(apply_state_op(b, op))

-----------------------------------------------------------------------------
(* Choosing the proposer: a one-shot override is consumed and leaves the   *)
(* cursor where it was.                                                    *)

HasOverride(b) == "next_proposer" \in DOMAIN b.common

proposer_for_turn(b) ==
  IF HasOverride(b) THEN b.common["next_proposer"]
                    ELSE proposer_order(b)[proposer_cursor(b) + 1]

(* Mutant: an override spends a place.                                     *)
AfterProposer_Spends(b) ==
  [b EXCEPT !.common =
     Put(Drop(@, "next_proposer"), "proposer_cursor",
         (proposer_cursor(b) + 1) % Len(proposer_order(b)))]

AfterProposer(b) ==
  IF HasOverride(b)
    THEN [b EXCEPT !.common = Drop(@, "next_proposer")]
    ELSE [b EXCEPT !.common =
            Put(@, "proposer_cursor",
                (proposer_cursor(b) + 1) % Len(proposer_order(b)))]

-----------------------------------------------------------------------------
(* What is to be kept true of a board at turn t.                           *)

Version == [version : Nat, text : Texts, mutable : BOOLEAN, ended_turn : Nat]
Rule == [id : Nat, text : Texts, created_turn : Nat, version : Nat,
         active : BOOLEAN, mutable : BOOLEAN, history : Seq(Version)]

BoardOk(b) ==
  /\ DOMAIN b = {"rules", "next_rule_id", "points", "common"}
  /\ b.rules \in Seq(Rule)
  /\ b.next_rule_id \in Nat
  /\ DOMAIN b.points = Seats
  /\ DOMAIN b.common \subseteq CommonKeys
  /\ runtime_fields_valid(b)

SoundRule(r, t) ==
  /\ r.created_turn <= t
  /\ r.version = Len(r.history) + 1
  /\ \A k \in DOMAIN r.history :
       /\ r.history[k].version = k
       /\ r.history[k].ended_turn \in r.created_turn + 1 .. t
  /\ \A k, m \in DOMAIN r.history :
       k < m => r.history[k].ended_turn < r.history[m].ended_turn

SoundRulebook(b, t) ==
  /\ \A i, j \in DOMAIN b.rules : i < j => b.rules[i].id < b.rules[j].id
  /\ \A i \in DOMAIN b.rules : b.rules[i].id < b.next_rule_id /\ SoundRule(b.rules[i], t)

=============================================================================
