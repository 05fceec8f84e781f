---------------------------- MODULE ServiceCatalog ----------------------------
(***************************************************************************)
(* The service catalogue (internal/servicecatalog) and the synchronisation   *)
(* of the workloads of a namespace with it (internal/logs).  Every read and    *)
(* every write of a store is a step.  A name stands for a product and a name,   *)
(* which the unique index uniq_product_service_name holds; nothing but a read    *)
(* before the write holds the identifier of the CMDB.                            *)
(***************************************************************************)
EXTENDS Naturals, Sequences

CONSTANTS
    CatalogCallers,
    ServiceRequests,   \* services that callers create: [name, cmdb, status]
    NoCmdb,
    WorkloadLists,     \* what a cluster may list: sequences of [kind, name]
    MaxServices,       \* bound
    MaxTargets         \* bound

ASSUME CatalogAssumption ==
    /\ \A s \in ServiceRequests : s = [name |-> s.name, cmdb |-> s.cmdb, status |-> s.status]
    /\ \A workloads \in WorkloadLists :
           workloads \in Seq([kind : {workloads[i].kind : i \in DOMAIN workloads},
                              name : {workloads[i].name : i \in DOMAIN workloads}])

VARIABLES
    catalog,           \* the services; their IDs are positions
    observed,          \* the targets that synchronisations stored
    catalogCalls,
    synced,            \* the workloads of the synchronisation that was just answered
    orderly            \* history: no call began while another was under way

catalogVars == <<catalog, observed, catalogCalls, synced, orderly>>

-------------------------------------------------------------------------------
NoService == [name |-> "", cmdb |-> NoCmdb, status |-> "deleted"]

\* id and service are of the call, or of the workload at the head of the rest.
NoCatalogCall == [phase |-> "ended", id |-> 0, service |-> NoService, workloads |-> <<>>,
                  rest |-> <<>>, listed |-> {}]

CatalogInit ==
    /\ catalog = <<>>
    /\ observed = <<>>
    /\ catalogCalls = [c \in CatalogCallers |-> NoCatalogCall]
    /\ synced = <<>>
    /\ orderly = TRUE

CatalogBegins(c) ==
    /\ catalogCalls[c].phase = "ended"
    /\ orderly' = (orderly /\ \A d \in CatalogCallers : catalogCalls[d].phase = "ended")

\* A step of a call that is under way or begins; an answer is forgotten with the next step.
CatalogStep(c, call) ==
    /\ catalogCalls' = [catalogCalls EXCEPT ![c] = call]
    /\ synced' = <<>>

\* MUTANT: only names are compared.
ComparesNames(service, id) ==
    \E i \in (DOMAIN catalog) \ {id} : catalog[i].name = service.name

\* Against all services, the deleted ones too.
ensureUnique(service, id) ==
    \E i \in (DOMAIN catalog) \ {id} :
        \/ service.cmdb # NoCmdb /\ catalog[i].cmdb = service.cmdb
        \/ catalog[i].name = service.name

\* The unique index.
NameIsTaken(service) == \E i \in DOMAIN catalog : catalog[i].name = service.name

-------------------------------------------------------------------------------
\* The product and the environment are read before; nothing is written by then.
CreateService(c, service) ==
    /\ CatalogBegins(c)
    /\ ~ensureUnique(service, 0)
    /\ CatalogStep(c, [NoCatalogCall EXCEPT !.phase = "insert", !.service = service])
    /\ UNCHANGED <<catalog, observed>>

InsertService(c) ==
    /\ catalogCalls[c].phase = "insert"
    /\ Len(catalog) < MaxServices
    /\ ~NameIsTaken(catalogCalls[c].service)
    /\ catalog' = Append(catalog, catalogCalls[c].service)
    /\ CatalogStep(c, NoCatalogCall)
    /\ UNCHANGED <<observed, orderly>>

\* Name and product stay; the fields that properties do not tell apart are left out.
applyUpdate(service, request) ==
    [service EXCEPT !.cmdb = request.cmdb, !.status = request.status]

\* Any service that is stored, deleted or not.
UpdateReads(c, id, request) ==
    /\ CatalogBegins(c)
    /\ CatalogStep(c, [NoCatalogCall EXCEPT !.phase = "unique", !.id = id,
                                            !.service = applyUpdate(catalog[id], request)])
    /\ UNCHANGED <<catalog, observed>>

UpdateService(c) ==
    /\ catalogCalls[c].phase = "unique"
    /\ ~ensureUnique(catalogCalls[c].service, catalogCalls[c].id)
    /\ CatalogStep(c, [catalogCalls[c] EXCEPT !.phase = "write"])
    /\ UNCHANGED <<catalog, observed, orderly>>

\* Refused while routes, agents or an onboarding refer to it; the document stays.
DeleteService(c, id) ==
    /\ CatalogBegins(c)
    /\ catalog[id].status # "deleted"
    /\ CatalogStep(c, [NoCatalogCall EXCEPT !.phase = "write", !.id = id,
                                            !.service = [catalog[id] EXCEPT !.status = "deleted"]])
    /\ UNCHANGED <<catalog, observed>>

\* The whole document, whatever it has become since it was read.
WriteService(c) ==
    /\ catalogCalls[c].phase = "write"
    /\ catalog' = [catalog EXCEPT ![catalogCalls[c].id] = catalogCalls[c].service]
    /\ CatalogStep(c, NoCatalogCall)
    /\ UNCHANGED <<observed, orderly>>

-------------------------------------------------------------------------------
\* Synchronisation: the services are listed once, those it creates are added to the list.

applyFilter == {i \in DOMAIN catalog : catalog[i].status # "deleted"}

SyncK8sNamespaceServices(c, workloads) ==
    /\ CatalogBegins(c)
    /\ CatalogStep(c, [NoCatalogCall EXCEPT !.phase = "sync", !.workloads = workloads,
                                            !.rest = workloads, !.listed = applyFilter])
    /\ UNCHANGED <<catalog, observed>>

Workload(c) == Head(catalogCalls[c].rest)

\* A service without an identifier of the CMDB.
ServiceFor(workload) == [name |-> workload.name, cmdb |-> NoCmdb, status |-> "active"]

\* The service whose name the workload has, of any kind of workload.
FindK8sService(c) ==
    /\ catalogCalls[c].phase = "sync" /\ catalogCalls[c].rest # <<>>
    /\ \E id \in catalogCalls[c].listed :
          /\ catalog[id].name = Workload(c).name
          /\ CatalogStep(c, [catalogCalls[c] EXCEPT !.phase = "targets", !.id = id])
    /\ UNCHANGED <<catalog, observed, orderly>>

CreateK8sService(c) ==
    /\ catalogCalls[c].phase = "sync" /\ catalogCalls[c].rest # <<>>
    /\ \A id \in catalogCalls[c].listed : catalog[id].name # Workload(c).name
    /\ ~ensureUnique(ServiceFor(Workload(c)), 0)
    /\ CatalogStep(c, [catalogCalls[c] EXCEPT !.phase = "syncInsert"])
    /\ UNCHANGED <<catalog, observed, orderly>>

InsertK8sService(c) ==
    /\ catalogCalls[c].phase = "syncInsert"
    /\ Len(catalog) < MaxServices
    /\ ~NameIsTaken(ServiceFor(Workload(c)))
    /\ catalog' = Append(catalog, ServiceFor(Workload(c)))
    /\ CatalogStep(c, [catalogCalls[c] EXCEPT !.phase = "targets", !.id = Len(catalog) + 1,
                                              !.listed = @ \cup {Len(catalog) + 1}])
    /\ UNCHANGED <<observed, orderly>>

TargetOf(id, workload) == [service |-> id, kind |-> workload.kind, name |-> workload.name]

NextWorkload(call) == [call EXCEPT !.phase = "sync", !.id = 0, !.rest = Tail(@)]

IsTarget(target) == \E t \in DOMAIN observed : observed[t] = target

ListTargets(c) ==
    /\ catalogCalls[c].phase = "targets"
    /\ LET target == TargetOf(catalogCalls[c].id, Workload(c))
       IN  CatalogStep(c, IF IsTarget(target) THEN NextWorkload(catalogCalls[c])
                          ELSE [catalogCalls[c] EXCEPT !.phase = "target"])
    /\ UNCHANGED <<catalog, observed, orderly>>

ensureK8sServiceTarget(c) ==
    /\ catalogCalls[c].phase = "target"
    /\ Len(observed) < MaxTargets
    /\ observed' = Append(observed, TargetOf(catalogCalls[c].id, Workload(c)))
    /\ CatalogStep(c, NextWorkload(catalogCalls[c]))
    /\ UNCHANGED <<catalog, orderly>>

AnswerSync(c) ==
    /\ catalogCalls[c].phase = "sync" /\ catalogCalls[c].rest = <<>>
    /\ catalogCalls' = [catalogCalls EXCEPT ![c] = NoCatalogCall]
    /\ synced' = catalogCalls[c].workloads
    /\ UNCHANGED <<catalog, observed, orderly>>

\* A check refuses, an index conflicts, the store fails or the process stops: what a
\* synchronisation has stored by then stays.
CatalogCallFails(c) ==
    /\ catalogCalls[c].phase # "ended"
    /\ CatalogStep(c, NoCatalogCall)
    /\ UNCHANGED <<catalog, observed, orderly>>

CatalogNext ==
    \E c \in CatalogCallers :
        \/ \E service \in ServiceRequests : CreateService(c, service)
        \/ InsertService(c)
        \/ \E id \in DOMAIN catalog, request \in ServiceRequests : UpdateReads(c, id, request)
        \/ UpdateService(c) \/ WriteService(c)
        \/ \E id \in DOMAIN catalog : DeleteService(c, id)
        \/ \E workloads \in WorkloadLists : SyncK8sNamespaceServices(c, workloads)
        \/ FindK8sService(c) \/ CreateK8sService(c) \/ InsertK8sService(c)
        \/ ListTargets(c) \/ ensureK8sServiceTarget(c) \/ AnswerSync(c)
        \/ CatalogCallFails(c)

CatalogSpec == CatalogInit /\ [][CatalogNext]_catalogVars

-------------------------------------------------------------------------------
\* Names are unique whatever calls overlap; identifiers of the CMDB, which no index holds, as
\* long as no two calls have overlapped.
IdentitiesAreUnique ==
    \A i, j \in DOMAIN catalog : i # j =>
        /\ catalog[i].name # catalog[j].name
        /\ orderly => catalog[i].cmdb = NoCmdb \/ catalog[i].cmdb # catalog[j].cmdb

\* A target belongs to the service that has the name of its workload, whatever happened to the
\* service since; and when no two calls have overlapped, a synchronisation that succeeds leaves
\* each of its workloads with a service that is not deleted and exactly one target.
SyncedWorkloadsAreServed ==
    /\ \A t \in DOMAIN observed : catalog[observed[t].service].name = observed[t].name
    /\ orderly => \A w \in DOMAIN synced :
           /\ \E i \in DOMAIN catalog :
                  catalog[i].status # "deleted" /\ catalog[i].name = synced[w].name
           /\ \E t \in DOMAIN observed :
                  /\ observed[t].kind = synced[w].kind /\ observed[t].name = synced[w].name
                  /\ \A u \in DOMAIN observed : observed[u] = observed[t] => u = t

\* One name, one service, and one target for every workload that was synchronised.
CatalogIsSound == IdentitiesAreUnique /\ SyncedWorkloadsAreServed
===============================================================================
