--------------------------- MODULE MCAlertEvents ---------------------------
(* One operator and one rule that may move between two services; alerts of  *)
(* both, one of them with an end that the clock reaches.                    *)
EXTENDS AlertEvents, TLC

CONSTANTS alice, r1, e1, c1, c2

MCSpecs ==
    { [name |-> "n1", scope |-> "s1", endpoint |-> e1],
      [name |-> "n1", scope |-> "s2", endpoint |-> e1] }

MCNoSpec == [name |-> "none", scope |-> "none", endpoint |-> "none"]

MCMayManage == {<<alice, "s1">>, <<alice, "s2">>}

Alert(service, status, ends) ==
    [rule |-> r1, service |-> service, status |-> status, starts |-> 1, ends |-> ends]

\* firing until 2, and the other service
MCAlerts == { Alert("s1", "", 2), Alert("s2", "firing", NoTime) }

CallSymmetry == Permutations(Calls)
=============================================================================
