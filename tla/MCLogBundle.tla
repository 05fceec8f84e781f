---------------------------- MODULE MCLogBundle ----------------------------
(***************************************************************************)
(* The parts of logs.Service, one in focus per behaviour; the others keep  *)
(* their initial state.  Two routes, two patches, two concurrent calls;    *)
(* three contents, so that an update may change what a file says, which    *)
(* workload it names, and whether another route collects from it too.      *)
(***************************************************************************)
EXTENDS LogBundle, LogTargets, LogMachines, TLC

CONSTANTS c1, c2, r1, r2, x1, x2, x3, p1, p2,
          Foci               \* the parts a run looks at

VARIABLE focus

MCWorkload == [x \in Contents |-> IF x = x3 THEN "w2" ELSE "w1"]

BundleSymmetry == Permutations(Callers) \cup Permutations(Routes) \cup Permutations({x1, x2})

\* The first patch is p1: the other is like it.
LogsInit ==
    /\ focus \in Foci
    /\ Init /\ patch = p1 /\ (focus # "bundle" => serial /\ versions = {})
    /\ TargetsInit
    /\ MachinesInit

logsVars == <<focus, vars, targetVars, machineVars>>

LogsNext ==
    /\ \/ focus = "bundle" /\ Next
       \/ focus = "targets" /\ TargetsNext
       \/ focus = "machines" /\ MachinesNext
    /\ focus # "bundle" => UNCHANGED vars
    /\ focus # "targets" => UNCHANGED targetVars
    /\ focus # "machines" => UNCHANGED machineVars
    /\ UNCHANGED focus

LogsSpec == LogsInit /\ [][LogsNext]_logsVars
=============================================================================
