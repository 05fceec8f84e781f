---------------------------- MODULE RuntimeTopology ----------------------------
(***************************************************************************)
(* The runtime view of a namespace: services, workloads, pods and what exposes *)
(* them, sorted into groups (internal/modules/k8sops/resource/                *)
(* runtime_topology.go).  The lists are read one after the other while the     *)
(* cluster changes, so that each may hold anything; the loops over them are     *)
(* actions.  Where the code goes through sorted keys or a queue, any order is    *)
(* allowed: what it finds is sorted afterwards.  Service names and workload       *)
(* keys are numbers, which orders them.  Labels have values that are not           *)
(* empty; names of the exposures are those of the namespace.  Hosts,                *)
(* destination rules, autoscalers and security policies are left out.                *)
(***************************************************************************)
EXTENDS Naturals, Sequences, FiniteSets

CONSTANTS
    ServiceNames, WorkloadKeys,    \* numbers
    Pods,
    ServiceSelectors,              \* labels: functions from keys to values
    WorkloadSpecs,                 \* [selector, labels]
    PodLabels,
    VirtualServices,               \* [name, gateways, services], as read
    Gateways,
    AppKeys                        \* the keys of labels that name an application, in order

\* A namespace is finite, and so is what an object says.
ASSUME TopologyAssumption ==
    /\ ServiceNames \subseteq Nat /\ IsFiniteSet(ServiceNames)
    /\ WorkloadKeys \subseteq Nat /\ IsFiniteSet(WorkloadKeys)
    /\ IsFiniteSet(Pods)
    /\ \A spec \in WorkloadSpecs : IsFiniteSet(DOMAIN spec.selector)
    /\ AppKeys \in Seq(STRING)

VARIABLES
    viewPhase,                              \* what is read or computed next
    services, workloads, pods,              \* functions from what was listed
    virtual, gateways,                      \* the exposures that were listed
    counted, podSummaries,                  \* pods gone through, and the total of each workload
    visited, queue, component, groups,      \* nodes, and sets of nodes
    summed, podsTotal, podCount             \* the totals of the groups, and of all

listVars == <<services, workloads, pods, virtual, gateways>>
countVars == <<counted, podSummaries>>
groupVars == <<visited, queue, component, groups>>
sumVars == <<summed, podsTotal, podCount>>
topologyVars == <<viewPhase, listVars, countVars, groupVars, sumVars>>

-------------------------------------------------------------------------------
\* Labels

runtimeSelectorMatches(selector, labels) ==
    /\ DOMAIN selector # {}
    /\ \A k \in DOMAIN selector : k \in DOMAIN labels /\ labels[k] = selector[k]

\* The application labels name, none or the first key's.
AppNames(labels) ==
    {labels[AppKeys[i]] : i \in {i \in DOMAIN AppKeys :
        AppKeys[i] \in DOMAIN labels /\ \A j \in 1..(i - 1) : AppKeys[j] \notin DOMAIN labels}}

\* MUTANT: a pod counts for every workload that selects it.
AnyRuntimeWorkloadMatch(labels) ==
    {w \in DOMAIN workloads : runtimeSelectorMatches(workloads[w].selector, labels)}

\* The workload a pod counts for: the first of those with the longest selector, if any.
bestRuntimeWorkloadMatch(labels) ==
    LET Matching == {w \in DOMAIN workloads : runtimeSelectorMatches(workloads[w].selector, labels)}
        Size(w) == Cardinality(DOMAIN workloads[w].selector)
    IN  {w \in Matching : \A v \in Matching : Size(v) < Size(w) \/ (Size(v) = Size(w) /\ w <= v)}

-------------------------------------------------------------------------------
\* The graph

ServiceNode(s) == <<"service", s>>
WorkloadNode(w) == <<"workload", w>>
Nodes == {ServiceNode(s) : s \in DOMAIN services} \cup {WorkloadNode(w) : w \in DOMAIN workloads}

\* Services go by their selector, workloads by the labels of their pods.
App(n) == AppNames(IF n[1] = "service" THEN services[n[2]] ELSE workloads[n[2]].labels)

runtimeServiceWorkloadLinks ==
    {l \in Nodes \X Nodes : /\ l[1][1] = "service" /\ l[2][1] = "workload"
                           /\ runtimeSelectorMatches(services[l[1][2]], workloads[l[2][2]].labels)}

Linked(n) ==
    LET links == runtimeServiceWorkloadLinks
    IN  {m \in Nodes : <<n, m>> \in links \/ <<m, n>> \in links}

-------------------------------------------------------------------------------
\* Exposures: [kind, name] at each service

\* What routes lead to; a gateway is added where a virtual service that names it is.
collectRuntimeServicesForGateway(gateway) ==
    UNION {v.services : v \in {v \in virtual : gateway \in v.gateways}}

enrichRuntimeDynamicResources ==
    LET routes == UNION {{[service |-> s, kind |-> "VirtualService", name |-> v.name] : s \in v.services}
                            : v \in virtual}
        referencedGateways == UNION {v.gateways : v \in virtual}
        gates == UNION {{[service |-> s, kind |-> "Gateway", name |-> g]
                            : s \in collectRuntimeServicesForGateway(g)}
                           : g \in gateways \cap referencedGateways}
    IN  routes \cup gates

\* The exposures of a group; those of services that were not listed are in no group.
GroupExposures(group) ==
    {[kind |-> e.kind, name |-> e.name] :
        e \in {e \in enrichRuntimeDynamicResources : ServiceNode(e.service) \in group}}

\* The key a page tells groups apart by: that of the first service, or of the first workload.
IsGroupKey(n, group) ==
    /\ n \in group
    /\ \A m \in group : /\ m[1] = "service" => n[1] = "service"
                        /\ m[1] = n[1] => n[2] <= m[2]

-------------------------------------------------------------------------------
\* The lists

None == [x \in {} |-> 0]

TopologyInit ==
    /\ viewPhase = "services"
    /\ services = None /\ workloads = None /\ pods = None /\ virtual = {} /\ gateways = {}
    /\ counted = {} /\ podSummaries = None
    /\ visited = {} /\ queue = {} /\ component = {} /\ groups = {}
    /\ summed = {} /\ podsTotal = None /\ podCount = 0

Continues(from, to) == viewPhase = from /\ viewPhase' = to

ListServices ==
    /\ Continues("services", "workloads")
    /\ \E some \in SUBSET ServiceNames : services' \in [some -> ServiceSelectors]
    /\ UNCHANGED <<workloads, pods, virtual, gateways, countVars, groupVars, sumVars>>

\* Deployments, stateful sets and daemon sets.
ListWorkloads ==
    /\ Continues("workloads", "pods")
    /\ \E some \in SUBSET WorkloadKeys : workloads' \in [some -> WorkloadSpecs]
    /\ UNCHANGED <<services, pods, virtual, gateways, countVars, groupVars, sumVars>>

ListPods ==
    /\ Continues("pods", "count")
    /\ \E some \in SUBSET Pods : pods' \in [some -> PodLabels]
    /\ podSummaries' = [w \in DOMAIN workloads |-> 0]
    /\ UNCHANGED <<services, workloads, virtual, gateways, counted, groupVars, sumVars>>

CountPod(p) ==
    /\ viewPhase = "count" /\ p \in DOMAIN pods \ counted
    /\ counted' = counted \cup {p}
    /\ podSummaries' = [w \in DOMAIN workloads |->
           IF w \in bestRuntimeWorkloadMatch(pods[p]) THEN podSummaries[w] + 1 ELSE podSummaries[w]]
    /\ UNCHANGED <<viewPhase, listVars, groupVars, sumVars>>

\* A list that cannot be read counts as empty.
ListExposures ==
    /\ Continues("count", "apps") /\ counted = DOMAIN pods
    /\ virtual' \in SUBSET VirtualServices /\ gateways' \in SUBSET Gateways
    /\ UNCHANGED <<services, workloads, pods, countVars, groupVars, sumVars>>

-------------------------------------------------------------------------------
\* The groups

\* Those with a label of an application first.
runtimeGroupsByAppLabels ==
    /\ Continues("apps", "groups")
    /\ groups' = {{n \in Nodes : app \in App(n)} : app \in UNION {App(n) : n \in Nodes}}
    /\ visited' = {n \in Nodes : App(n) # {}}
    /\ UNCHANGED <<listVars, countVars, queue, component, sumVars>>

\* MUTANT: workloads are not looked for that no service leads to.
StartsFromServices == {n \in Nodes \ visited : n[1] = "service"}

\* Then what leads from the rest of the services, then from the rest of the workloads.
Starts ==
    {n \in Nodes \ visited : n[1] = "service" \/ \A m \in Nodes \ visited : m[1] = "workload"}

StartComponent(n) ==
    /\ viewPhase = "groups" /\ component = {} /\ queue = {}
    /\ n \in Starts
    /\ queue' = {n}
    /\ UNCHANGED <<viewPhase, listVars, countVars, visited, component, groups, sumVars>>

\* Breadth first, services before workloads.
collectRuntimeComponent(n) ==
    /\ viewPhase = "groups" /\ n \in queue
    /\ n[1] = "service" \/ \A m \in queue : m[1] = "workload"
    /\ visited' = visited \cup {n}
    /\ component' = component \cup {n}
    /\ queue' = (queue \cup Linked(n)) \ visited'
    /\ UNCHANGED <<viewPhase, listVars, countVars, groups, sumVars>>

buildRuntimeGroup ==
    /\ viewPhase = "groups" /\ component # {} /\ queue = {}
    /\ groups' = groups \cup {component}
    /\ component' = {}
    /\ UNCHANGED <<viewPhase, listVars, countVars, visited, queue, sumVars>>

\* Nothing is left to start from.
GroupsAreBuilt ==
    /\ Continues("groups", "sums") /\ component = {} /\ queue = {} /\ Starts = {}
    /\ podsTotal' = [g \in groups |-> 0]
    /\ UNCHANGED <<listVars, countVars, groupVars, summed, podCount>>

\* The workloads of the groups, by group: PodsTotal of a group, and PodCount of all.
GroupWorkloads == {l \in groups \X DOMAIN workloads : WorkloadNode(l[2]) \in l[1]}

runtimeGroupsSummary(g, w) ==
    /\ viewPhase = "sums" /\ <<g, w>> \in GroupWorkloads \ summed
    /\ summed' = summed \cup {<<g, w>>}
    /\ podsTotal' = [podsTotal EXCEPT ![g] = @ + podSummaries[w]]
    /\ podCount' = podCount + podSummaries[w]
    /\ UNCHANGED <<viewPhase, listVars, countVars, groupVars>>

Answer ==
    /\ Continues("sums", "answered") /\ summed = GroupWorkloads
    /\ UNCHANGED <<listVars, countVars, groupVars, sumVars>>

TopologyNext ==
    \/ ListServices \/ ListWorkloads \/ ListPods \/ ListExposures
    \/ \E p \in DOMAIN pods : CountPod(p)
    \/ runtimeGroupsByAppLabels \/ buildRuntimeGroup \/ GroupsAreBuilt \/ Answer
    \/ \E n \in Nodes : StartComponent(n) \/ collectRuntimeComponent(n)
    \/ \E g \in groups, w \in DOMAIN workloads : runtimeGroupsSummary(g, w)

TopologySpec == TopologyInit /\ [][TopologyNext]_topologyVars

-------------------------------------------------------------------------------
\* What is answered

FreeNodes == {n \in Nodes : App(n) = {}}

\* The sets of nodes without the label of an application that no link among these leaves,
\* and what all of those that hold a also hold: that to which links lead from a.
ClosedSets ==
    LET near == [n \in FreeNodes |-> Linked(n) \cap FreeNodes]
    IN  {C \in SUBSET FreeNodes : \A n \in C : near[n] \subseteq C}
Connected(a, closed) == {b \in FreeNodes : \A C \in closed : a \in C => b \in C}

\* Every service and workload that was listed is in exactly one group, whatever changed
\* between the lists; every group has a key of its own; those that name an application are
\* together exactly when they name the same; and those that name none exactly when links
\* lead from one to the other, through others like them.
GroupsAreComponents ==
    viewPhase = "answered" =>
        LET closed == ClosedSets
        IN  /\ \A n \in Nodes : \E g \in groups : \A h \in groups : n \in h <=> h = g
            /\ \A g \in groups : \E n \in g : \A h \in groups : IsGroupKey(n, h) <=> h = g
            /\ \A a, b \in Nodes :
                   (\E g \in groups : a \in g /\ b \in g) <=>
                       IF App(a) = {} THEN b \in Connected(a, closed) ELSE App(b) = App(a)

\* The totals count every pod once that a listed workload selects, although pods are
\* selected by several workloads, and that of a group counts those of its workloads; and
\* the gateways of a group are the listed ones through which a virtual service leads to one
\* of its services.
TotalsAreRight ==
    viewPhase = "answered" =>
        /\ podCount = Cardinality({p \in DOMAIN pods : \E w \in DOMAIN workloads :
               runtimeSelectorMatches(workloads[w].selector, pods[p])})
        /\ \A g \in groups :
               /\ podsTotal[g] = Cardinality({p \in DOMAIN pods :
                      \E w \in bestRuntimeWorkloadMatch(pods[p]) : WorkloadNode(w) \in g})
               /\ \A gateway \in gateways :
                      [kind |-> "Gateway", name |-> gateway] \in GroupExposures(g) <=>
                          \E v \in virtual : /\ gateway \in v.gateways
                                             /\ \E s \in v.services : ServiceNode(s) \in g

\* The runtime view divides what was listed into groups, and counts it once.
ViewIsSound == GroupsAreComponents /\ TotalsAreRight
===============================================================================
