# NovaAPM (novaobs) in TLA+

Models of the control plane in `src/`, their TLC runs and their TLAPS proofs.
The control plane is one Go process in front of MongoDB.  It keeps the truth
about alert rules, collector groups, log routing, metrics integrations, access
and Kubernetes operations, and pushes configuration outwards: to vmalert runtimes
and log collectors through the Kubernetes API, and to OpenTelemetry collectors
over OpAMP.  Almost every hard question is one of interleaving: a handler reads a
document, decides, does something slow, and writes; another handler, a connection
goroutine, another client of the cluster or a failure comes in between.

## 1. The system

| Part (under `src/internal`) | State | Operations | Hard behaviour |
|---|---|---|---|
| Alert rules, `alerting/service.go` | `alert_rules` documents, append-only update records, audit events | Enable, Update, Rollback, Disable, each ending in the transaction `SaveChange` | concurrent requests, permission checked on documents read earlier, applied marker written back as read |
| Alert runtimes, `alerting/log_runtime.go`, `metrics_runtime.go`, `artifact.go` | `runtimes` documents, the artifact in the cluster | Publish without a confirmation (preview) and with one (apply, mark rules) | rules change between compile, deploy and mark; two publications of one endpoint; failure after deploy |
| Alert events, `alerting/events.go` | alert instances and events | IngestAlerts | duplicated, late and reordered deliveries; rules disabled meanwhile |
| Notification policies and test receipts, `alerting/notification.go`, `test_receipt.go` | policies; stateless signed receipts | Create, Update; Issue, Verify | the version is a timestamp; a policy changes after a rule was checked against it |
| Collector group record, `collectormanagement/service.go` | group documents, config version records, instance documents | MarkGroupPublishPending, CreateConfigVersion, MarkGroupConfigStatus, Update/Activate/DeleteGroup | read, change and replace without a condition |
| OpAMP delivery, `opamp/manager.go`, `httpapi/router.go`, `httpapi/collector_config.go` | the manager's maps, one goroutine per connection | HandleConnectionMessage, MarkConnectionClosed, SendGroupDeployment, Register/UnregisterInstanceGroup, the state sink | decided under the lock, sent and stored after it; reconnects; a restart forgets everything in memory |
| Collector configuration, `collectorconfig` | parser rules, pipeline patches, base documents | save, preview, generate, list a group's sources | a patch is kept with the group its service had |
| Safe apply, `modules/k8sops/deployment` and `kubeclient` | inventory, history, audit; the cluster | Preview, Apply, PreviewDelete, Delete, Rollback | dry run, compare, apply are separate; documents applied one by one |
| Kubernetes objects, `modules/k8sops/rbac`, `serviceaccount`, `namespace`, `certificate` | the cluster, audit | create, update, delete, then an audit event, else undo | undo against others who changed the object |
| Kubernetes access, `platformaccess`, `platform/iam`, `platform/rbac` | subjects, memberships, roles, bindings | grant, revoke, delete, decide | several documents per call, one by one; names that are used again |
| Cluster credentials, `modules/k8sops/cluster`, `platform/secret` | encrypted secrets | create, rotate, roll back, render a kubeconfig, read one | several ideas of which is newest; readings and their audit |
| Runtime view and templates, `modules/k8sops/resource`, `template` | none; templates in memory | build the view; create, update, delete, render | lists read one after the other; substitution in map order |
| Log routing, `logs` | sources, routes, bundles, runtimes; targets; machines | create, update, delete a route; preview, publish; probes | read-modify-write of route states over a set of routes; confirmation of a manifest that is rendered again |
| Metrics integration, `metrics` | integrations, sources, collectors, releases | create, enable, reconcile, delete; preview, apply | several documents per call, partial compensation |
| Environments, onboarding, service catalog, observability endpoints | single documents | create, update, bind, check, test, synchronise | check, then act |
| `database/mongo`, `database/memstore` | the collections | single document calls, a few transactions | two implementations of one interface |

Interactions: HTTP handlers call services; services call stores; runtime
publication and log publication call safe apply; the OpAMP manager calls the state
sink, which calls the collector service; the publish handler calls manager and
service in turn.  Shared state is the database (no locks, replacement by ID), the
cluster (other clients too) and the manager's maps (one mutex, released before the
sink and before sending).

What makes the parts correct: rule history is linear, authorised and agrees with
the documents; what is shown as applied is what runs; nothing is overwritten that
a confirmed preview did not show; what could not be audited is taken back; a group
shows only what its collectors reported; a collector gets only configurations of
groups it was in; grants end with what they were given to; and what a test or a
probe found out is shown only of what was tested.

## 2. Modules

```
RuleHistory <-implements- AlertRules <-extends- AlertRuntime, AlertEvents
GroupRecord <-extends- CollectorDelivery
StoreCalls <-extends- MemoryStore, MongoStore; Stores runs the two side by side
AccessScopes <-extends- AccessGrants, AccessControl
Environments <-extends- MetricsSources

Renderings   = Templates, CollectorSources

MCPlatform   = Stores, AccessGrants, AccessControl, MetricsSources, Onboarding, Renderings,
               ServiceCatalog, NotificationPolicies
MCKubernetes = SafeApply, GuardedOperations, ManagedCollectors, ClusterCredentials,
               RuntimeTopology, ObservabilityEndpoints
MCLogBundle  = LogBundle, LogTargets, LogMachines
AlertRulesProofs, AlertRuntimeProofs, AlertEventsProofs = the theorems about these modules
CollectorDeliveryProofs = those about GroupRecord and CollectorDelivery
RenderingProofs = those about Renderings
KubernetesProofs, LogsProofs, PlatformProofs = those about the modules that
               MCKubernetes, MCLogBundle and (apart from Renderings) MCPlatform hold
```

The three composed modules hold parts that share no state.  A variable `focus`
chooses one part at the start; the others keep an initial state, so a run explores
the sum of the parts and not their product.

**Alerting.**

* **RuleHistory** - the abstract promise of the rule store: one log, every change
  made to the newest entry of its rule in one indivisible, authorised step.
* **AlertRules** - `alerting.Service` over the store.  `Enable`, `Update`,
  `Disable`, `Rollback` read the document and run all checks; `ReadSource` is the
  second read of a rollback; `SaveCommits`/`SaveConflicts` are the transaction;
  `Abandon` is any refusal, error or crash before it.  A specification is a record
  of name, service, scope and endpoint; names are unique within a service.  The scope
  stands for what permissions are about (service and environment), the endpoint for the
  runtime ID (signal type and endpoint).  `MarkRuntimeRulesApplied` is what the
  `UpdateMany` of a publication does to one document.
* **AlertRuntime** - extends it with `Publish` of the two runtime services:
  `CompileRules`, then `Preview`, or `Confirm`, `Deploy`, `MarkApplied`, and at the
  end `FindRuntime`, `UpsertRuntime`; `Fail` may follow any of them.  `MarkApplied` takes
  the rules one after the other, in any order, as `UpdateMany` is not atomic over
  documents; other requests come in between.  The cluster is
  the artifact each endpoint runs, an artifact the set of compiled rule versions.
  A token is what its digest was computed from, so equality of tokens is equality
  of digests (no collisions).  `deploys` and `overlapped` are history variables.
* **AlertEvents** - extends AlertRules with `EventIngestor.IngestAlerts`.  vmalert
  is outside: any payload of `Alerts` may be posted at any time, any number of
  times, which covers lost, repeated, late and reordered deliveries.  A call is
  `Receive` (the time of receipt is read once), then for each alert of the batch
  `CheckRule` or `Refuse` (normalisation and `validateRule`) and `ApplyEvent` (the
  transaction); `Fail` may end it anywhere.  An event's identity is what
  `eventIdentity` digests; a fingerprint is rule and service, one series for each.
  `ApplyEvent` on a known event keeps the event and replaces the instance, as the
  code means it; a server that aborts a transaction on a duplicate key is `Fail`.
  `since` is a history field: the rule history's length when the call came in.
* **NotificationPolicies** - policies, rule tests, receipts and the rules that use
  them.  The clock ticks in milliseconds; receipts live `ReceiptTTL` ticks, and to the
  end of the second (`Second` ticks) they expire in.  A
  rule's later versions are AlertRules' business.

**Collectors.**

* **GroupRecord** - the group document's publication fields and the version
  records.  Each operation is a read (`PublishReads`, `StatusReads`, `EditReads`), a
  replacement (`PublishWrites`, `StatusWrites`, `EditWrites`) and a write to the
  version records (`CreateConfigVersion`, `StampVersion`).  `Replace` is the
  unconditional `ReplaceOne`; the history variable `lost` notes when it overwrote
  something unread, `reports` what collectors reported.
* **CollectorDelivery** - extends it with the OpAMP manager.  A connection's
  goroutine runs `HandleMessage` (under the lock), `UpsertInstance` and
  `MarkGroupConfigStatus` (the sink), `Respond`; or, when the link is gone,
  `MarkConnectionClosed` and the sink.  The publish handler runs
  `StartDeployment`, `SendTo`/`SendFails`, `MarkGroupPublishPending` and then
  GroupRecord's steps.  The assignment handlers run `AssignReads`, `AssignWrites`,
  `RegisterInstanceGroup`.  `Restart` wipes the process.  Collectors and network
  (`Receive`, `Finish`, `Disconnect`) are external: the manager only sees their
  reports.
* **CollectorSources** - parser rules, patches and base documents of one service
  that may be bound to two groups, next to a neighbour that is already there; and,
  as operators, how the documents of a group are merged, ordered and mapped.

**Kubernetes.**

* **SafeApply** - `deployment.Service`.  A call begins with its manifest and goes
  document by document through reading and dry run, the comparison with the
  token, the second dry run, the cluster, the inventory, the audit event and the
  history record; `Rollback` writes only records.  Other clients change the
  cluster at any time; a call fails after any step.  The content of an object is
  what the document says of it; the manifests name distinct objects.
* **GuardedOperations** - one object of one of several kinds, which differ in what
  their repositories check and lose.  An operation is read, write, audit, and when
  the audit event fails the opposite operation, through the same repository: it
  refuses a role without rules (`Ruleless`, which only other clients write) and
  a certificate it has deleted.  A deleted namespace terminates (`ending`) until its
  controller is done (`Finalize`); meanwhile its name is taken.
* **ManagedCollectors** - releases of metrics collectors: preview, apply (through
  safe apply, here one step), recording; several sources may want one namespace.
* **ClusterCredentials** - the credentials and kubeconfig secrets of a cluster:
  each writer reads two clocks and stores; readers choose, and record an event.
* **RuntimeTopology** - one request for the runtime view: the lists, which are
  arbitrary, as they are read one after the other while the cluster changes, and then
  the loops over them (counting pods, searching the graph of selectors, adding up) step
  by step, in any of the orders their maps and sorted keys may have.
* **ObservabilityEndpoints** - metrics and log back ends: edits and tests, of
  which a test holds its document for seconds.

**Platform.**

* **StoreCalls, MemoryStore, MongoStore, Stores** - both implementations of
  `database.Store` are built from a few variants of insert, update, upsert, delete
  and find.  A collection of a store is the set of traits its calls have; the two
  tables are the two files.  The actions of Stores name the differences that are
  known (`comparable`).
* **AccessScopes, AccessGrants, AccessControl** - permissions, scopes and the
  decision; every request the access page can send; and the documents behind it,
  with calls that write several of them one by one.
* **Environments, MetricsSources** - environments and their bindings, and the
  integrations whose sources should follow them.
* **Onboarding** - saving binds a service, and resets the status but not the items and
  time of the last check; checking evaluates and writes the whole document back.
  `Refused` is what MongoDB says to an update with another `_id`.
* **ServiceCatalog**, **Templates** - small services that read,
  check and write; Templates also renders.  **Renderings** holds what is claimed of
  everything that is rendered, here and in CollectorSources.

**Logs.**

* **LogBundle** - the Kubernetes routes of one collector domain and the bundle they
  are published as.  A bundle stands for its hash.  Reads at the beginning of a call
  are one step.  An edited route is rendered with the tenant of its service
  (`InputsWith`), all others, and every route of a publication (`Inputs`), with the stored
  endpoint, which has none; the rendering shows it for contents in `Tenanted`.  A file's
  name has the workload its route collects from, and whether others do too.  `serial`,
  `orderly`, `latest`, `raced` are history variables.
* **LogTargets** - external targets of one service: create, update, probe.
* **LogMachines** - the machines of a file route: create, update, delete, probe,
  each between two audit events, with an undo; and the deletion of the route.

Definitions commented `MUTANT` are plausible slips, used to see that each property
can fail.

## 3. Runs

| Run | Shows | Bounds |
|---|---|---|
| `rules` | history linear and authorised, documents and markers agree with it, the store implements `RuleHistory` | 2 operators (one restricted to one scope), 2 rules, 2 specifications with one name, different scope and endpoint, 3 commits |
| `runtime` | what is deployed, marked and recorded under interleaving | 1 operator, 2 rules with 2 variants of one service, 1 endpoint, 2 publishers, 2 commits, 2 distinct previews |
| `applied_rules_run` | **violation**, see below | 1 publisher, 1 rule |
| `alert_events` | concurrent ingestion against a changing rule, batches that stop half way | 2 calls with batches of up to 2, 1 rule that may move between 2 services, 2 payloads (one whose end the clock reaches), 2 commits, 2 events, times 1..2 |
| `redelivery` | **violation**, see below | 1 call of one alert |
| `delivery` | offers, memberships, reports and the record | five scenarios of one or two publishers: two configurations deployed at once; two deployments of one with an edit; two collectors of one group; a collector that reconnects, may reject, and meets one fault; one moved between two groups, to one of which a deployment is sent |
| `delivery_settles` | liveness of a publication and of the instance record | 2 connections and 1 deployment of 1 configuration; 2 movers, 2 groups, 2 connections, no declared group |
| `kubernetes` | safe apply, audited operations, collectors, credentials, the runtime view, endpoints, one at a time | 2 calls each; safe apply: a namespace and an object in it, 2 contents, 2 changes of the cluster, 4 calls; operations: 2 contents and a role's without rules, 2 UIDs; collectors: 2 sources, 2 URLs, 1 namespace, 2 releases; credentials: 4 readings of the clocks; view: 2 services, 2 workloads, 2 pods; endpoints: 2 |
| `platform` | both stores, grants, access, metrics sources, onboarding, templates, collector sources, catalog, policies, one at a time | 2 calls each; stores: 3 IDs, 3 keys of which 2 differ in case; grants: any pair of permissions, 2 clusters, 2 namespaces; 2 users, 1 group; 1 environment, 2 resources, 2 bindings; 2 services, 4 targets; 1 policy, 3 changes, receipts that last to the end of their second of 2 ticks |
| `saves_again` | **violation**, see below | as `platform` |
| `log_bundle` | bundles, routes and publications; targets; machines, one at a time | 2 routes, 3 contents of 2 workloads, of which 2 show a tenant, 2 patches, 2 calls, 5 calls one after the other or 3 that overlap, 1 failure; 2 places, 1 tenant, 2 targets; 2 addresses, 2 machine IDs |
| `confirmed_preview` | **violation**, see below | as `log_bundle`, one call at a time |

Why the bounds suffice: a lost update, a stale read or an overtaken message
needs two actors and two versions, and a third commit lets one of them be stale
against a marked document; every run has them for the part it is about.
`MaxReports = 12` never binds.  A bound in a guard (`Max...`, `ReceiptTTL` aside, and
that an agent keeps an unused connection) only stops the environment or a caller.
Deadlock is checked in the alerting and delivery runs: somebody may always read,
retry or send a heartbeat.  In `kubernetes`, `platform` and `log_bundle` a behaviour
ends when its calls are used up, so it is not.

What the properties of the composed runs say, where the code makes it less than
one might hope (the premises are part of the properties, and stand in their
comments):

* `PreviewedIsOverwritten`: token and second dry run protect against everything
  between preview and confirmation, and against nothing after it.
  `InventoryIsTrue`, `RecordsAreBacked`: after failures at any step the inventory
  is right about objects nobody interfered with, and records are only of what
  happened.
* `OperationsAreSound`: what was not audited is taken back unless somebody
  disturbed the object.  Where the undo may be refused (the deletion of a certificate,
  the deletion or update of a role that had no rules, the deletion of a namespace, which
  may still terminate when the undo comes) either that holds or the whole change stays.
  What was audited as deleted is gone for good, or a namespace still terminating.  The
  private key of a certificate, which is stored first, stays.
* `AppliedReleaseRuns`: the newest release shown as applied runs, unless another
  source's release or somebody else replaced it.  Two applies of one release can
  leave a running one as failed, which the property allows.
* `CredentialsAreSound`: clients use the credential that is listed as active, the
  newest of the writes that do not overlap, and every plaintext given out has an
  event.  A rotation that began earlier and is stored later does not become the
  active one, and rendering a kubeconfig reads the active credential without an
  event.
* `ViewIsSound`: for any lists, every service and workload is in exactly one group and
  every group has a key of its own; those with an application's label are together
  exactly when it is the same, those without exactly when links lead from one to the
  other; each pod that a listed workload selects is counted once, in all and in its
  group; and a group shows the gateways that lead to it.
* `EditsSurviveTests`: a test changes the health only.
* `StoresAgree`: after any calls the two stores answered the same, outside the
  differences named in `Stores`.
* `GrantsAreSound`, `NothingIsInherited`: a grant whose risk nobody accepted is narrow; no
  member, grant or role outlives what it belonged to.  Those granted while it is
  being deleted do, which the property excepts.
* `SourcesFollowBindings`: an integration whose last creation or reconciliation
  succeeded has the sources of the bindings, one that was taken back has none,
  unless bindings or sources changed under the call or since.
* `ResultBelongsToGroup`: a result that a binding shows is, item by item, one of its own
  group; while it waits for a check its status says so; and it names the identity that is
  stored.  A check that overlaps with a save may bring the old group back, with its old
  result.  The items and the time of an earlier check stay in a document that is bound
  anew until the next check.
* `UnrecordedLeavesTemplates`: a call without an audit event that met no other writer
  left the templates as they were.
* `ParserFollowsService`: a patch generated from a rule saved without a group ends in
  the group of its service, if neither the service was moved nor the rule replaced
  meanwhile.
* `RenderingsAreSound`: a template's rendering is the simultaneous substitution where
  no value contains a variable; merged patches, and their order, are right; and the
  statements generated from a rule's mappings do what the preview showed of the fields of
  the sample, where no field is mapped onto one that is mapped itself, and no two onto one
  (the code looks fields up in the sample for a preview, and the collector runs one
  statement after the other).  What the preview shows besides are values it found by path
  inside JSON objects, or null ones, for which the statements set nothing.
* `CatalogIsSound`: names are always unique, identifiers of the CMDB while calls do
  not overlap; then each synchronised workload also has a service and one target.
* `PoliciesAreSound`: no change of a policy is made unseen, except within one
  millisecond (`PolicyChangesAreLinear`); receivers never change under a rule
  (`AlertsGoWhereTested`).
* `BundlesAreSound`, `AppliedRouteRuns`, `EditsStay`: what is mounted exists and what
  is shown as applied is collected, when calls come one after the other; when they
  overlap, an edit is lost only to a call that had read the route before it, and a
  deleted route comes back only when it is created again.  What is collected is the
  route as a publication renders it, without the tenant that the edit stored.
* `TargetsAreSound`, `MachinesAreSound`: see the modules.

**Divergences.**

1. README.md:81 says that publishing compiles all enabled rules of
   an endpoint and moves its rules on to `applied`.  `MarkRuntimeRulesApplied` marks
   every rule bound to the endpoint at the moment of marking, in its then current
   version, not those compiled.  `applied_rules_run` shows the shortest consequence:
   a rule saved between compile and mark is `applied` and does not run.
   `CleanPublicationsMarkRight` is the strongest form that holds: the marker is
   right when neither a change of the endpoint's rules nor another publication met
   the last one between compiling and marking.
2. The design document (docs/planning/2026-06-22-log-alerting-handoff-architecture.md,
   lines 374, 737 and 766) calls delivery at-least-once and the event API idempotent.
   An alert posted without a status is resolved when its end has passed at the moment
   of receipt, and the state is part of the event's identity.  `redelivery` shows
   the shortest consequence: a firing alert delivered again after its end is stored
   as a second event, and its instance resolves.  (A copy that arrives after the
   resolution but before its own end likewise brings the instance back to firing.)
   What holds under repeated delivery are `InstanceHasEvent` and `HistoryIsConnected`.
3. docs/planning/2026-05-28-logs-module-rebuild-architecture.md:162 says that a
   confirmed publication uses the manifest of its preview and never renders again.
   `Publish` renders again, so a route created since makes the confirmation fail
   (`confirmed_preview`).
4. The override of a collector group gets a new ID on every save, and MongoDB
   refuses to change an `_id`: the second save fails, while the in-memory store
   replaces the document (`saves_again`).

**Fairness** (`FairDeliverySpec`).  Weak fairness of each goroutine's steps
(Go's scheduler, the mutex is held briefly), of an agent's reconnect, of its work
on offers and of its heartbeats (`HandleMessage` is part of `ConnectionStep`).
Nothing obliges anyone to publish or to move a collector, and faults are not fair.
`PublishedIsApplied` is claimed for one publication: with two, a response decided
before the newer deployment may be sent after it and leave the collector with the
older one, because the offer has ended by then.

## 4. Proofs

All theorems hold for every value of the constants under the `ASSUME`s of their
modules, which TLC evaluates in the runs.

* `AlertRulesProofs`: `Invariance` proves the conjunction of the six invariants
  inductive.  The documents alone are not: `RequestsAreSound` is the
  strengthening, it says that what a request read is a version the rule really had
  in a scope the operator manages; the compare-and-set then makes "had" into "has".
  From it `TypeCorrect`, `DocumentsFollowHistory`, `HistoryIsLinear`,
  `OnlyAuthorisedChanges`, `MarkerIsConsistent`, and `Refinement`: `SaveCommits` maps
  to one step of `RuleHistory`, everything else to a stutter.
* `AlertRuntimeProofs`: `RuntimeTypeCorrect`; `CleanPublicationIsRight` from an
  invariant that says, for each phase of a clean call, that the artifact it holds is
  what compiling would still give, and after `Deploy` what runs; `OnlyPreviewsRun`,
  `RecordIsTrue` and with them `RuntimeIsRight` from an invariant (`CallsRemember`)
  that says what a call knows of its artifact in each phase (saved, previewed,
  deployed), where histories only grow.  `MarkStep` says what marking one more rule does
  to the rules marked so far.  The run has one endpoint; rules that move between
  endpoints are covered by these proofs.
* `AlertEventsProofs`: `EventsTypeCorrect`, `InstancesFollowEvents`,
  `HistoryConnected` and `OnlyLiveRulesRaiseEvents`.  The invariant `EInv` builds on
  that of `AlertRulesProofs`: a call past the rule check holds an alert whose rule
  version was the newest one after the call came in, because the document it read
  is a copy of the newest record; appending to the history cannot undo that, so it
  still holds when the event is written.  Instances and events need each other:
  every instance has an event of its state, every event an instance.
* `CollectorDeliveryProofs`, first about GroupRecord: `RecordTypeCorrect`,
  `StatusIsReported`, `VersionsAreNumbered`, `RecordIsConsistent`.  The invariant `GInv`
  extends `ConsistentDoc` to the documents held by calls in flight (so that writing any of
  them back is safe) and orders version numbers in flight against the group as long
  as nothing was lost.  The delivery is written with GroupRecord's operations, so that
  `RecordIsConsistent` carries over (`DeliveryKeepsRecord`).  Then `OffersStay` and
  `DeliveryIsRight`.  Instead of one case per action and conjunct, `Effect` says what
  any step may do to memberships, offers and outcomes: each action is shown to have
  only such an effect, and the invariant (`HInv`, configurations come from a group
  the agent was in) is kept by every effect.  `BInv` then judges the documents that
  calls hold like those that are stored.
* `KubernetesProofs`, one section for each part. `ApplyTypes`, `ConfirmationProtects`,
  `InventoryFollowsCluster`, `RecordsFollowCluster`, for any manifests and any number of
  calls: what a call knows of an object stays true until somebody else changes the
  object, which is noted. `OperationsAreRight` from `OpsInv`, which says the same, phase
  by phase, of a call on a single object: what it read, what it wrote, what its undo
  restores, and when the undo may be refused. `NewestCredentialIsUsed` from `CredInv`: the clocks order what is stored, so
  a secret is fresher than every one that was stored when its call began.
  `AppliedReleasesRun` from `ReleaseInv`: the release a call is about to record runs,
  like the recorded one, unless its source is among those that were replaced.
  `TestsKeepEdits` from `EndpointsInv`. `ViewIsRight` from `TopologyInv`: the component
  being collected is what links lead to from where it began, except through the queue
  (`GroupsInv`), the groups so far divide the nodes that were visited, and each total is
  the number of pods that were gone through (`CountInv`, `SumInv`). That the finished
  sets are the connected components, and that each has a first node, are inductions over
  finite sets (`FiniteInduction`).
* `LogsProofs`. `TargetsAreRight`: calls write whole documents back, so the documents
  they hold are judged like stored ones; and a call that checked its place still has it
  for itself until a write overtakes it. `MachinesAreRight` from `MachinesInv`: a
  machine is as it was audited, or exactly one call has written it and has yet to audit
  or take back; and what that call knows of it is right. `EditsAreKept`,
  `BundlesAreRight` and `AppliedRoutesRun` rest on four layers, each proved with the
  help of those before it: `ShapeInv` (types, and what the documents of calls are),
  `EditsInv` (an edit is missing only where a call that overlaps it wrote), `ClusterInv`
  (bundles and what is mounted) and `SerialInv` (what a publication knows while it runs
  alone).
* `PlatformProofs`. `PolicyHistoryIsLinear`, `AlertsGoToTestedReceiver`,
  `PoliciesAreRight`: every time a policy ever had is among its stamps, so the time of a
  change that is new there invalidates whatever was read before; and receivers never
  change. `ResultsBelongToGroups` (`OnbInv`): of the documents that calls hold, too,
  each shows what was evaluated of its own group; and the identity that a call saved
  stays the stored one, because the `_id` of what is stored never changes. `NamesakesStartFresh` (`AccessInv`):
  what a deletion still has to remove is in what it read, or was granted since.
  `SourcesFollow` (`MetricsInv`): what a call has worked through of the bindings is what
  the sources show, unless either changed. `CatalogIsRight` (`CatalogInv`): the index
  keeps names apart whatever calls do; while they do not overlap, what a call found out
  about identifiers, targets and the services of its workloads still holds when it
  writes. `StoresStayAlike` (`StoresInv`): the trait tables of the collections
  differ only where the actions of Stores name it, and a call that meets none of the
  differences leaves both tables alike and answers alike. `GrantsAreRight`: for every set of permission IDs
  a request may name, through the tables of permissions, entry by entry.
* `RenderingProofs`. `TemplatesAreKept` (`TemplatesInv`): the undo of a call restores what
  it saw if nobody else wrote. `ParserStaysWithService` (`SourcesInv`): what was looked up
  of the service's group stays right until the service is moved or the rule replaced.
  `RenderingsAreRight`, and its part `RenderingsSubstitute`, are about values that folds
  compute. What is stored, held by calls and answered has a shape that every step keeps
  (`RenderedFits`, `DocumentsInv`). A fold over something of this shape passes through a
  row of values (`FoldExists`), and what is said of a rendering is shown of each value of
  the row, for the part folded so far (`UpToInduction`): replacing some of the variables
  in any order replaces them at once, as no value brings in another; merging some of the
  documents adds the statements of each to its processors, whatever their order; and
  running some of the statements assigns some of the targets, as none is read again. The
  sort by ranks is a permutation because the ranks with the places make a total order.

The library states induction with an operator as parameter, which no installed prover
can instantiate. `FiniteInduction` and `UpToInduction` avoid it: the property is
given as the set of the subsets, or of the numbers, that have it, and the library's
theorem that a well-founded order has minimal elements does the rest. So what loops
and folds compute is proved, too.

The assumptions are mild: bounds are natural numbers; sentinels (`NoKey`,
`NoCollector`, `Gone`, `Idle`, ...) are not among the data; roles and subjects have
different IDs; the namespaces of a cluster are finitely many; a policy's scope may
be every service, a rule's may not; the enrichment patch of a group is a patch.  For
renderings: what is saved has the shape parsing gives it (texts are sequences of tokens,
documents map names to statements), mappings and requests name finitely many fields, the
neighbour's patches are built as the service's own, one for each service, and statements
written by hand stand for themselves, as no preview runs them.

Only model-checked, and why:

* `PublishedIsApplied` and `InstanceSettles`: liveness under fairness, out of the
  provers' reach.
* The four violations: TLC's counterexamples stand for themselves.

## 5. Not modelled

Of the modelled parts:

* Alert rules: scope and receiver look-up while compiling (a compiled version is
  the rule's).  Events: the endpoint's token check and rate limit, fingerprints
  chosen by the sender, several series of one rule and service; alerts of metrics
  rules carry no service label and are always refused.
* Collector groups: life cycle status (draft, active, deleted), summaries of online
  instances, and patches of `UpdateGroup` that set publication fields by hand; other
  edits are `EditReads`/`EditWrites`.  Delivery: runtime identities (matching an
  instance by node instead of UID), service assignment, instance deletion, plain
  HTTP OpAMP connections.
* Collector sources: platform templates and group overrides, which no rendering
  reads, and versions; attributes and the text of statements; two services whose
  IDs differ in punctuation only.
* Safe apply: several API versions of one kind, one manifest naming an object
  twice; the read and the dry run of a document are one step.  AlertRuntime,
  LogBundle and ManagedCollectors use their own abstractions of it.
* Single objects: labels, what a written-back object loses beyond what the page
  shows of it, and finalizers of other kinds than namespaces.  Runtime view: security
  policies, autoscalers, destination rules, hosts; exposures by Ingress, and labels with
  an empty value.
* Access: service accounts (treated as users), defaults made by tests only,
  log-in and sessions; the deletion of a super subject, whom a restart brings back;
  bindings made by hand whose scopes differ in their lists of namespaces only, which get
  one ID (`platform/iam/service.go:913`).  Credentials: their contents, registration of
  clusters.
* Stores: orders and pages of finders; fields that one codec shows and the other does not
  (`json:"-"` and `bson`); the case of kinds, which the in-memory inventory ignores when
  it looks an identity up and MongoDB does not.  An upsert without a unique index is taken
  to be atomic, though two first ones at the same time may both insert.
* Logs: sources made by hand, text of agent configuration, queries.  Onboarding's
  and the catalog's reference checks are an arbitrary refusal.  Onboarding: the number of
  checks and the time of the last success, which no property is about; what the in-memory
  store does with a second first save (it replaces, MongoDB refuses).
* OpAMP: messages still being read from a connection whose collector already uses another
  (`HandleMessage` requires that the collector uses the connection); the late notice of
  its closing is `MarkConnectionClosed`.
* Metrics: what destinations answer, health checks, images.

Parts left out entirely, with the reason in `PROJECT.json`: the compilation of
queries (text without state), terminals and dashboards (I/O), the plain lists of
Kubernetes objects (translation of answers), encryption, session tokens.

What the models show and no property claims otherwise, for a reader of the code:
a publication of some log routes only leaves a DaemonSet that mounts config maps
which do not exist yet (`orderly` excludes it); a probe revives a disabled target
although its place may be taken; a manager without the override permission may move
a target whose tenant was overridden; a deleted service keeps its name, so that a
synchronisation of a workload of that name fails for ever; renaming an environment
overlapping with archiving un-archives it; an instance of a rule that was disabled
fires for ever; the first collector that applies a deployment ends its offer for
collectors that were offline.  And:

* The published configuration of a log route lacks the VictoriaLogs tenant headers that
  its preview and its edit show: an edit renders with the tenant of the service
  (`logs/service.go:1988`, tested in `logs/service_test.go:111`), a publication with the
  stored endpoint, whose tenant is cleared (`logs/service.go:1927-1951`, `2717-2722`).
  So the hash that the edit of such a route stores is never that of the publication.
  `AppliedRouteRuns` says what is collected: the rendering without the tenant.
* The name of a route's file changes when another route begins or ceases to collect from
  the same workload.  A creation may name the ID of a route that is there, and overwrites
  it.
* The undo of a deletion or an update of a role that had no rules is refused, so the
  unaudited change stays.  So does the deletion of a namespace whose audit event fails:
  the undo comes while the namespace terminates and its name is taken.  When such a
  deletion is repeated and the undo comes after the end, a new namespace is created.
* An onboarding document that is bound to another group keeps the items and the time of
  the old group's last check until the next check.  Of two first saves at once, MongoDB
  refuses the second, for its `_id`.
* A parser's preview shows values as mapped that it finds by path inside JSON objects
  (`a.b`), and null ones; the generated statements name the attribute `a.b`, which is not
  there, and set nothing.

## 6. Plan

What would come next: SafeApply as the cluster of AlertRuntime and LogBundle, by
refinement of their one-step deployments; the virtual service hosts and destination
rules of the runtime view; and runtime identities in CollectorDelivery.
