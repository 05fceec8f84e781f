------------------------------ MODULE MongoStore ------------------------------
(***************************************************************************)
(* internal/database/mongo: collections.go has the calls, store.go the      *)
(* unique indexes.  Every definition is the policy (StoreCalls) of one       *)
(* collection.  Of MongoDB itself it assumes that one statement on one       *)
(* document is atomic, that _id and the unique indexes are enforced on       *)
(* every write, and that an update may not change _id.                       *)
(***************************************************************************)

\* InsertOne refuses a stored _id.
Fresh == {"fresh"}
Registry == {"idempotent"}

\* The collections with a unique index besides _id.
CatalogIndexes     == {"products", "services"}
EnvironmentIndexes == {"environmentBindings"}
LogIndexes         == {"vmEndpoints"}
MetricsIndexes     == {"integrations", "accesses", "releases"}
Indexed(name) ==
    IF name \in CatalogIndexes \cup EnvironmentIndexes \cup LogIndexes \cup MetricsIndexes
    THEN {"distinct", "indexed"} ELSE {}

\* InsertOne whose duplicate-key error is answered as ErrConflict.
Checked == Fresh \cup {"says"}

Products == Checked \cup {"saysUpdate", "silent"} \cup Indexed("products")
Services == Checked \cup {"silent"} \cup Indexed("services")
ServiceTargets == Fresh \cup {"silent"}
CollectorGroups == Fresh \cup {"silent"}
CollectorInstances == {"either", "mergesUpsert", "mergesUpdate"}
CollectorConfigVersions == Fresh
PlatformTemplates == Fresh

\* $set of the whole document, _id included.
GroupOverrides == {"byKey", "mergesUpsert", "setsID"}
IngestionIdentities == {"byKey", "mergesUpsert", "setsID"} \cup Fresh
Onboardings == {"byKey", "mergesUpsert", "setsID"}

\* $set without _id, which is written by $setOnInsert only.
ServicePatches == {"byKey", "mergesUpsert", "keepsID"}
LogArtifacts == {"byKey", "mergesUpsert", "keepsID"}

LogEndpoints == Fresh \cup {"mergesUpdate"}
LogSources == {"mergesUpsert"}
LogRoutes == {"mergesUpsert"}
VMEndpoints == Checked \cup Indexed("vmEndpoints")
LogTargets == Fresh
ClusterConfigs == {}
Runtimes == {}

MetricsReleases == Checked \cup {"mergesUpdate"} \cup Indexed("releases")
MetricsSnapshots == Checked
MetricsIntegrations == Checked \cup {"saysUpdate"} \cup Indexed("integrations")
MetricsAccesses == Checked \cup Indexed("accesses")

RBAC == Registry
IAM == Registry
Images == {}
Secrets == {}
AuditEvents == Fresh
Environments == Fresh
EnvironmentBindings == Fresh \cup Indexed("environmentBindings")
Clusters == Registry
Namespaces == {}
Inventory == {}
History == Fresh

===============================================================================
