------------------------------- MODULE MCMoot -------------------------------
(***************************************************************************)
(* Bounded instances of Moot.  One run asks several questions: the agenda, *)
(* chosen once, says what the seats may propose, what the judge may do,    *)
(* and for how many turns.                                                 *)
(***************************************************************************)
EXTENDS Moot

CONSTANTS founding, amended

VARIABLE agenda

AllTexts == {founding, amended}

Set(k, v) == [op |-> "set", scope |-> "common", key |-> k, value |-> v]
Increment(k, v) == [op |-> "increment", scope |-> "common", key |-> k, value |-> v]
Delete(k) == [op |-> "delete", scope |-> "common", key |-> k]
SetPoints(s, v) == [op |-> "set", scope |-> "player", seat |-> s, key |-> "points", value |-> v]

Enact == [kind |-> "enact", text |-> amended]
Amend(id) == [kind |-> "amend", rule_id |-> id, text |-> amended]
Repeal(id) == [kind |-> "repeal", rule_id |-> id]
Transmute(id) == [kind |-> "transmute", rule_id |-> id]

(* The rulebook: a protected rule 101, a mutable rule 201, and 202 or 203  *)
(* once enacted.                                                           *)
RulebookAgenda ==
  [judge |-> "model", turns |-> 3, writes |-> {}, declared |-> {{}},
   proposals |-> {Enact, Amend(101), Amend(201), Amend(202),
                  Repeal(101), Repeal(201), Transmute(101)},
   scalars |-> {Set("votes_required", 4)}]

(* The proposer order: shorter and longer orders, its deletion, and the    *)
(* one-shot override.                                                      *)
OrderAgenda ==
  [judge |-> "model", turns |-> 4, declared |-> {{}}, proposals |-> {Repeal(101)},
   writes |-> {Set("proposer_order", o) : o \in {<<2>>, <<1, 1, 0>>, << >>}}
                \cup {Increment("proposer_order", <<0>>)},
   scalars |-> {Set("next_proposer", 2), Set("next_proposer", 3),
                Delete("proposer_order"), Delete("next_proposer"),
                Set("proposer_cursor", 2)}]

(* The score: thresholds, circuits and awards.                             *)
ScoreAgenda ==
  [judge |-> "model", turns |-> 3, writes |-> {}, declared |-> {{}, {0, 2}},
   proposals |-> {Repeal(101)},
   scalars |-> {Set("victory_points", 7), Set("victory_check_every", 2),
                Set("majority_begins_turn", 2), Delete("victory_check_every"),
                Award(1, 6), SetPoints(1, Unusable)}]

(* The certification judge: adoptable and refused proposals.               *)
CertificationAgenda ==
  [judge |-> "certification", turns |-> 4,
   writes |-> {}, declared |-> {}, scalars |-> {},
   proposals |-> {Enact, Repeal(101), Repeal(201), Transmute(101)}]

Agendas == {RulebookAgenda, OrderAgenda, ScoreAgenda, CertificationAgenda}

AllProposals == UNION {a.proposals : a \in Agendas}
AllScalars == UNION {a.scalars : a \in Agendas}
AllWrites == UNION {a.writes : a \in Agendas}
AllDeclared == UNION {a.declared : a \in Agendas}

MCInit ==
  /\ Init
  /\ agenda \in Agendas
  /\ judge = agenda.judge

(* The bound of an agenda that does not reach the cap on turns.            *)
Adjourn ==
  /\ phase = "turn" /\ turn = agenda.turns /\ turn < TurnsMax
  /\ UNCHANGED vars

MCNext ==
  /\ \/ /\ Steps(agenda.proposals, agenda.scalars, agenda.writes, agenda.declared)
        /\ turn' <= agenda.turns
     \/ Adjourn
  /\ UNCHANGED agenda

MCSpec == MCInit /\ [][MCNext]_<<vars, agenda>>
=============================================================================
