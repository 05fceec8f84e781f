-------------------------- MODULE MCAlertRuntime --------------------------
(* One operator and two rules of one service, with two specifications.      *)
EXTENDS AlertRuntime, TLC

CONSTANTS alice, r1, r2, n1, n2, e1, p1, p2

MCSpecs ==
    { [name |-> n1, service |-> "s1", scope |-> "s1", endpoint |-> e1],
      [name |-> n2, service |-> "s1", scope |-> "s1", endpoint |-> e1] }

MCNoSpec == [name |-> "none", service |-> "none", scope |-> "none", endpoint |-> "none"]

MCMayManage == {<<alice, "s1">>}

RuntimeSymmetry ==
    Permutations(Publishers) \cup Permutations(Rules) \cup Permutations({n1, n2})
=============================================================================
