----------------------------- MODULE MCKubernetes -----------------------------
(***************************************************************************)
(* The parts of the platform that work on clusters, and the back ends the     *)
(* clusters send to, one in focus per behaviour; the others keep one initial    *)
(* state.                                                                         *)
(***************************************************************************)
EXTENDS SafeApply, GuardedOperations, ManagedCollectors, ClusterCredentials, RuntimeTopology,
        ObservabilityEndpoints

CONSTANTS c1, c2, v1, v2,
          ns, cm, x, y,              \* safe apply: one namespace and an object in it
          w1, w2, n1,                \* managed collectors
          r1                         \* a role without rules

VARIABLE focus

\* Labels of the runtime view: two keys that select, and two that name an application.
Tier == [tier |-> "x"]
Zone == [zone |-> "z"]
MCSelectors == {[k \in {} |-> ""], Tier, Zone, [app |-> "a"]}
MCWorkloads ==
    {[selector |-> Tier, labels |-> Tier], [selector |-> Zone, labels |-> Tier @@ Zone],
     [selector |-> Tier @@ Zone, labels |-> Tier @@ Zone],
     [selector |-> Tier, labels |-> Tier @@ [name |-> "b", app |-> "a"]]}
MCPodLabels == {Tier, Tier @@ Zone}
MCVirtualServices == {[name |-> "v", gateways |-> {"g"}, services |-> {1}]}
MCAppKeys == <<"name", "app">>

\* The objects live in the namespace, the namespace in none.
MCHome(o) == IF o = ns THEN NoHome ELSE ns

\* The namespace alone, and with an object in it.
MCManifests ==
    { <<[object |-> ns, content |-> x]>>,
      <<[object |-> ns, content |-> x], [object |-> cm, content |-> x]>> }

MCSymmetry == Permutations({c1, c2}) \cup Permutations({v1, v2})

KubernetesInit ==
    /\ focus \in {"apply", "operations", "collectors", "credentials", "topology", "endpoints"}
    /\ Init
    /\ OperationsInit /\ (focus # "operations" => opKind = "role")
    /\ CollectorsInit /\ (focus # "collectors" => \A s \in ManagedSources : writeURL[s] = w1)
    /\ CredentialsInit
    /\ TopologyInit
    /\ EndpointsInit

kubernetesVars == <<focus, vars, opVars, releaseVars, secretVars, topologyVars, endpointVars>>

KubernetesNext ==
    /\ \/ focus = "apply" /\ Next
       \/ focus = "operations" /\ OperationsNext
       \/ focus = "collectors" /\ CollectorsNext
       \/ focus = "credentials" /\ CredentialsNext
       \/ focus = "topology" /\ TopologyNext
       \/ focus = "endpoints" /\ EndpointsNext
    /\ focus # "apply" => UNCHANGED vars
    /\ focus # "operations" => UNCHANGED opVars
    /\ focus # "collectors" => UNCHANGED releaseVars
    /\ focus # "credentials" => UNCHANGED secretVars
    /\ focus # "topology" => UNCHANGED topologyVars
    /\ focus # "endpoints" => UNCHANGED endpointVars
    /\ UNCHANGED focus

KubernetesSpec == KubernetesInit /\ [][KubernetesNext]_kubernetesVars
===============================================================================
