-------------------------------- MODULE Stores --------------------------------
(***************************************************************************)
(* The two implementations of database.Store side by side.  The process     *)
(* runs on MongoDB, its tests and its local mode on the in-memory store; a   *)
(* test says something of the product as far as the two agree.  One          *)
(* collection is chosen at the start and every call is made of both.         *)
(*                                                                         *)
(* The alerting collections have modules of their own (AlertRules, ...),     *)
(* so have the version counters of a collector group (GroupRecord).          *)
(***************************************************************************)
EXTENDS Naturals, StoreCalls

CONSTANTS
    StoreIDs,      \* the IDs callers generate or are given
    StoreKeys,     \* owners, unique names
    Filled         \* the value of an optional field that is not empty

ASSUME StoresAssumption == NoKey \notin StoreKeys

VARIABLES
    collection,    \* the collection the calls are made of
    memory,        \* its documents in the in-memory store
    mongo,         \* its documents in MongoDB
    answers,       \* what the last call answered in each
    issued,        \* the IDs of the documents that were stored
    comparable     \* no call so far was one the two are known to treat differently

storeVars == <<collection, memory, mongo, answers, issued, comparable>>

InMemory == INSTANCE MemoryStore
InMongo == INSTANCE MongoStore

Both(a, b) == [memory |-> a, mongo |-> b]

\* The accessors of database.Store, with the calls their interfaces have.
Policies == [
    products        |-> Both(InMemory!Products, InMongo!Products),
    services        |-> Both(InMemory!Services, InMongo!Services),
    targets         |-> Both(InMemory!ServiceTargets, InMongo!ServiceTargets),
    groups          |-> Both(InMemory!CollectorGroups, InMongo!CollectorGroups),
    instances       |-> Both(InMemory!CollectorInstances, InMongo!CollectorInstances),
    configVersions  |-> Both(InMemory!CollectorConfigVersions, InMongo!CollectorConfigVersions),
    templates       |-> Both(InMemory!PlatformTemplates, InMongo!PlatformTemplates),
    overrides       |-> Both(InMemory!GroupOverrides, InMongo!GroupOverrides),
    patches         |-> Both(InMemory!ServicePatches, InMongo!ServicePatches),
    identities      |-> Both(InMemory!IngestionIdentities, InMongo!IngestionIdentities),
    onboardings     |-> Both(InMemory!Onboardings, InMongo!Onboardings),
    endpoints       |-> Both(InMemory!LogEndpoints, InMongo!LogEndpoints),
    sources         |-> Both(InMemory!LogSources, InMongo!LogSources),
    routes          |-> Both(InMemory!LogRoutes, InMongo!LogRoutes),
    vmEndpoints     |-> Both(InMemory!VMEndpoints, InMongo!VMEndpoints),
    logTargets      |-> Both(InMemory!LogTargets, InMongo!LogTargets),
    artifacts       |-> Both(InMemory!LogArtifacts, InMongo!LogArtifacts),
    clusterConfigs  |-> Both(InMemory!ClusterConfigs, InMongo!ClusterConfigs),
    runtimes        |-> Both(InMemory!Runtimes, InMongo!Runtimes),
    integrations    |-> Both(InMemory!MetricsIntegrations, InMongo!MetricsIntegrations),
    accesses        |-> Both(InMemory!MetricsAccesses, InMongo!MetricsAccesses),
    releases        |-> Both(InMemory!MetricsReleases, InMongo!MetricsReleases),
    snapshots       |-> Both(InMemory!MetricsSnapshots, InMongo!MetricsSnapshots),
    rbac            |-> Both(InMemory!RBAC, InMongo!RBAC),
    iam             |-> Both(InMemory!IAM, InMongo!IAM),
    images          |-> Both(InMemory!Images, InMongo!Images),
    secrets         |-> Both(InMemory!Secrets, InMongo!Secrets),
    auditEvents     |-> Both(InMemory!AuditEvents, InMongo!AuditEvents),
    environments    |-> Both(InMemory!Environments, InMongo!Environments),
    resourceBindings |-> Both(InMemory!EnvironmentBindings, InMongo!EnvironmentBindings),
    clusters        |-> Both(InMemory!Clusters, InMongo!Clusters),
    namespaces      |-> Both(InMemory!Namespaces, InMongo!Namespaces),
    inventory       |-> Both(InMemory!Inventory, InMongo!Inventory),
    history         |-> Both(InMemory!History, InMongo!History)]

Collections == DOMAIN Policies
Inserted == {"products", "services", "targets", "groups", "configVersions", "templates",
             "endpoints", "vmEndpoints", "logTargets", "integrations", "accesses", "releases",
             "snapshots", "auditEvents", "environments", "resourceBindings", "history"}
Updated == {"products", "services", "targets", "groups", "instances", "templates", "endpoints",
            "routes", "vmEndpoints", "logTargets", "integrations", "accesses", "releases",
            "environments"}
Deleted == {"instances", "routes", "vmEndpoints", "integrations", "accesses", "rbac", "iam",
            "resourceBindings", "clusters", "inventory"}
Upserted == (Collections \ Inserted)
Cleared == {"vmEndpoints"}

\* Documents addressed by their owner have an ID that nothing looks up.
Owned == {"overrides", "patches", "identities", "onboardings", "artifacts"}
\* Structures with an omitempty field, of those that are written with $set.
Optional == {"endpoints", "routes"}

StoreDocs ==
    [id  : StoreIDs,
     key : IF collection = "instances" THEN StoreKeys \cup {NoKey} ELSE StoreKeys,
     opt : IF collection \in Optional THEN {Filled, Omitted} ELSE {Filled}]

StoresInit ==
    /\ collection \in Collections
    /\ memory = {}
    /\ mongo = {}
    /\ answers = Both("ok", "ok")
    /\ issued = {}
    /\ comparable = TRUE

\* Two calls in the same place of the two stores, d the document or what addresses it.
Answered(inMemory, inMongo, known) ==
    \E a \in inMemory, b \in inMongo :
        /\ memory' = a.table
        /\ mongo' = b.table
        /\ answers' = Both(a.answer, b.answer)
        /\ comparable' = ~known
        /\ issued' = issued \cup {s.id : s \in a.table}
        /\ UNCHANGED collection

P == Policies[collection]
Taken(d) == {s \in memory : s.key = d.key /\ s.id # d.id}
SaysNot(d) == {s \in memory : s.id = d.id /\ s.opt # Omitted /\ d.opt = Omitted}

\* Callers generate the ID of what they insert.  Known: names that differ in case are
\* one product in memory only; service names and release generations are unique in
\* MongoDB only; a resource bound twice is an ErrConflict in memory only.
InsertDocument(d) ==
    /\ comparable
    /\ collection \in Inserted
    /\ d.id \notin issued
    /\ Answered(Insert(P.memory, memory, d), Insert(P.mongo, mongo, d),
                \/ collection \in {"services", "releases", "resourceBindings"} /\ Taken(d) # {}
                \/ collection = "products" /\ \E s \in memory : s.key # d.key /\ Fold[s.key] = Fold[d.key])

\* Known: MongoDB keeps names unique on updates too; $set keeps what d omits.
UpdateDocument(d) ==
    /\ comparable
    /\ collection \in Updated
    /\ d.id \in issued
    /\ Answered(Update(P.memory, memory, d), Update(P.mongo, mongo, d),
                \/ "indexed" \in P.mongo /\ Taken(d) # {}
                \/ "mergesUpdate" \in P.mongo /\ SaysNot(d) # {})

\* Known: the $set of another _id is refused; $set keeps what d omits; an agent that
\* reports the identity of one instance under the UID of another is one instance in
\* memory and stays two in MongoDB.
UpsertDocument(d) ==
    /\ comparable
    /\ collection \in Upserted
    /\ collection \in Owned => d.id \notin issued \/ \E s \in memory : s.id = d.id /\ s.key = d.key
    /\ Answered(Upsert(P.memory, memory, d),
                Upsert(P.mongo, mongo, d),
                \/ "setsID" \in P.mongo /\ Taken(d) # {}
                \/ "mergesUpsert" \in P.mongo /\ SaysNot(d) # {}
                \/ Cardinality(Addressed(P.mongo, memory, d)) > 1)

DeleteDocument(d) ==
    /\ comparable
    /\ collection \in Deleted
    /\ d.id \in issued
    /\ Answered(Delete(P.memory, memory, d), Delete(P.mongo, mongo, d), FALSE)

ClearKey(d) ==
    /\ comparable
    /\ collection \in Cleared
    /\ Answered(Clear(memory, d), Clear(mongo, d), FALSE)

StoresNext ==
    \E d \in StoreDocs :
        \/ InsertDocument(d)
        \/ UpdateDocument(d)
        \/ UpsertDocument(d)
        \/ DeleteDocument(d)
        \/ ClearKey(d)

StoresSpec == StoresInit /\ [][StoresNext]_storeVars

-------------------------------------------------------------------------------
\* What the finders of the collection can tell of a table.
Shown(table) ==
    {[s EXCEPT !.id = IF collection \in Owned THEN s.key ELSE @] : s \in table}

\* After any sequence of calls the two stores have given the same answers and hold the
\* same documents, up to the differences the actions name: what a test shows on the
\* in-memory store, MongoDB does too.
StoresAgree ==
    comparable => /\ answers.memory = answers.mongo
                  /\ Shown(memory) = Shown(mongo)

\* The override of a collector group can be saved again: the in-memory store is documented
\* as an implementation of the same interface, and the documents of scoped updates keep
\* _id out of $set.  (UpsertGroupOverride gives every save a new ID.)
OverrideSavedAgain ==
    [][\A d \in StoreDocs :
          collection = "overrides" /\ UpsertDocument(d) => answers'.mongo = "ok"]_storeVars
===============================================================================
