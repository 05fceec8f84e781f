----------------------------- MODULE MemoryStore -----------------------------
(***************************************************************************)
(* internal/database/memstore/store.go, the thread-safe in-memory           *)
(* database.Store: each collection is a Go map guarded by one mutex, so a    *)
(* call is one step.  Every definition is the policy (StoreCalls) of one     *)
(* collection.                                                              *)
(***************************************************************************)

\* An insert assigns to the map, whatever was there.
Assigns == {}
\* Registries keyed by the caller's ID; deletes do not ask whether it exists.
Registry == {"idempotent"}

Products == {"distinct", "folds", "says"}
Services == {"creates"}
ServiceTargets == Assigns
CollectorGroups == Assigns
CollectorInstances == {"evicts", "either"}
CollectorConfigVersions == Assigns
PlatformTemplates == Assigns

\* Maps keyed by the owner: the new document replaces the one of its key.
GroupOverrides == {"byKey", "evicts"}
ServicePatches == {"byKey", "evicts"}
IngestionIdentities == {"byKey", "evicts"}
Onboardings == {"byKey", "evicts"}
LogArtifacts == {"byKey", "evicts"}

LogEndpoints == Assigns
LogSources == {}
LogRoutes == {}
\* MUTANT: the ID of an agent's endpoint is not checked on insert.
VMEndpointsUnchecked == {"fresh", "says"}

VMEndpoints == {"fresh", "distinct", "says"}
LogTargets == {"fresh", "says"}
ClusterConfigs == {}
Runtimes == {}

MetricsIntegrations == {"distinct", "says"}
MetricsAccesses == {"distinct", "says"}
MetricsReleases == Assigns
MetricsSnapshots == Assigns

RBAC == Registry
IAM == Registry
Images == {}
Secrets == {}
AuditEvents == Assigns
Environments == {"fresh", "says"}
EnvironmentBindings == {"distinct", "says"}
Clusters == Registry
Namespaces == {}
Inventory == {}
History == Assigns

===============================================================================
