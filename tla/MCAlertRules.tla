--------------------------- MODULE MCAlertRules ---------------------------
(* A small instance: two operators, one of whom may manage one scope only.  *)
EXTENDS AlertRules, TLC

CONSTANTS alice, bob, e1, e2, r1, r2

MCSpecs ==
    { [name |-> "n1", service |-> "s1", scope |-> "s1", endpoint |-> e1],
      [name |-> "n1", service |-> "s2", scope |-> "s2", endpoint |-> e2] }

MCNoSpec == [name |-> "none", service |-> "none", scope |-> "none", endpoint |-> "none"]

RuleSymmetry == Permutations(Rules)

MCMayManage == {<<alice, "s1">>, <<alice, "s2">>, <<bob, "s1">>}
=============================================================================
