----------------------------- MODULE LogBundle -----------------------------
(***************************************************************************)
(* The Kubernetes log routes of one collector domain (cluster and agent    *)
(* namespace) and the bundle of configuration files they are published as: *)
(* logs.Service and the renderer.                                          *)
(*                                                                         *)
(* Every route renders to one file and one config map; base.yaml is one    *)
(* more.  A file is named after the workload its route collects from, and  *)
(* a route is rendered in two ways: with the tenant of its service while   *)
(* it is edited, without it in all other cases.  Creating or updating a    *)
(* route renders the bundle of all routes, stores it under its hash, then  *)
(* the domain's source, then the route, and at last goes over all routes   *)
(* of the domain, one document at a time.  A publication renders the       *)
(* bundle again, compares it with the bundle the runtime document names,   *)
(* and applies only the config maps that differ, with the DaemonSet that   *)
(* mounts all of them.  Nothing is locked.                                 *)
(*                                                                         *)
(* A hash stands for the bundle it is the hash of.  Publications are       *)
(* confirmed and executed by deployment.Service (module SafeApply).  The   *)
(* service, the agent group and the endpoint of a route belong to other    *)
(* components; a call they refuse is one that does not begin.              *)
(***************************************************************************)
EXTENDS Naturals, FiniteSets, Functions

CONSTANTS
    Callers,        \* concurrent calls
    Routes,         \* route IDs
    Contents,       \* what a route may collect and where it sends it
    Workload,       \* Workload[x]: namespace and name of the workload x collects from
    Tenanted,       \* contents whose rendering shows the tenant it is given: the default
                    \* fragment of a VictoriaLogs endpoint, for a service with a tenant
    Patches,        \* processor patches of the domain
    Idle,           \* base.yaml of a domain without routes
    NoBundle,       \* no hash yet
    Gone,           \* the content of a config map that is not there
    MaxSerial,      \* bound: calls begun, when clients wait for each other
    MaxOverlapping, \* bound: calls begun, when they do not
    MaxFaults       \* bound: failures and removals of the collector

Base == [path |-> "base.yaml"]
RouteFiles == [route : Routes, workload : {Workload[x] : x \in Contents}, shared : BOOLEAN]
Files == {Base} \cup RouteFiles
RouteTexts == [content : Contents, tenant : BOOLEAN]
Texts == RouteTexts \cup Patches \cup {Idle}

ASSUME BundleAssumption ==
    /\ DOMAIN Workload = Contents /\ Tenanted \subseteq Contents
    /\ Base \notin Routes \cup RouteFiles
    /\ Idle \notin Patches \cup RouteTexts
    /\ Gone \notin Texts
    /\ \A D \in SUBSET Files : NoBundle \notin [D -> Texts]
    /\ MaxSerial \in Nat /\ MaxOverlapping \in Nat /\ MaxFaults \in Nat

VARIABLES
    routes,         \* the route documents of the domain, by ID
    source,         \* hash in the domain's source document
    versions,       \* bundles stored by hash
    patch,          \* the domain's processor patch
    runtime,        \* the runtime document
    maps,           \* cluster: config maps of the collector
    daemon,         \* cluster: the bundle whose files the DaemonSet mounts
    issued,         \* cluster: confirmation tokens handed out
    calls,          \* calls[c]: the call c is executing
    begun, faults,  \* how much of each bound is used
    serial,         \* whether the clients make one call at a time
    orderly,        \* history: whether every publication was alone, for all
                    \* routes, and recorded if it changed the cluster
    latest,         \* history: what the last edit of each route said
    raced           \* history: routes stored while another call held a copy

documents == <<routes, source, versions, patch, runtime>>
clusterVars == <<maps, daemon, issued>>
history == <<orderly, latest, raced>>
vars == <<documents, clusterVars, calls, begun, faults, serial, history>>

Maps(f, D, S) == DOMAIN f \subseteq D /\ f \in [DOMAIN f -> S]
IsBundle(f) == Maps(f, Files, Texts)

States == {"", "pending_publish", "previewed", "applied"}
RouteDocs == [content : Contents, hash : versions, publish : States]
NoRuntime == [status |-> "none"]
Runtimes == [status : {"previewed", "ready"}, hash : versions, published : BOOLEAN]

\* RouteCollectorConfig and the comparison of a publication look a bundle up
\* by its hash.
Kept(hash) == hash \in versions

\* What deployment.Service's token stands for: the documents and the state of
\* the objects they change.  (A config map that was changed and changed back
\* is taken for the same one.)
Token(m) == [manifest |-> m,
             live |-> [f \in DOMAIN m.maps |-> IF f \in DOMAIN maps THEN maps[f] ELSE Gone],
             daemon |-> daemon]

NoCall == [op |-> "none"]

Busy(c, phase) == calls[c] # NoCall /\ calls[c].phase = phase
Publishing == { c \in Callers : calls[c].op = "publish" }
Installed == daemon # NoBundle

\* The collector was never published, or it was and waits for routes.
Nothing == [f \in {} |-> Idle]
IdleBundle == [f \in {Base} |-> Idle]

StartsBare ==
    /\ versions = {} /\ runtime = NoRuntime
    /\ maps = Nothing /\ daemon = NoBundle

StartsInstalled ==
    /\ versions = {IdleBundle}
    /\ runtime = [status |-> "ready", hash |-> IdleBundle, published |-> TRUE]
    /\ maps = IdleBundle /\ daemon = IdleBundle

Init ==
    /\ routes = Nothing
    /\ source = NoBundle
    /\ patch \in Patches
    /\ \/ StartsBare
       \/ StartsInstalled
    /\ issued = {}
    /\ calls = [c \in Callers |-> NoCall]
    /\ begun = 0 /\ faults = 0
    /\ serial \in BOOLEAN
    /\ orderly = TRUE
    /\ latest = Nothing
    /\ raced = {}

-----------------------------------------------------------------------------
(* Rendering.                                                              *)

\* renderK8sBaseCollectorConfig: base.yaml holds the patch; without routes it
\* is the idle configuration.
BaseText(inputs, p) == IF DOMAIN inputs = {} THEN Idle ELSE p

\* renderInput: what a route says, and whether the endpoint it is rendered with
\* carries the tenant of the route's service.
Input(content, tenant) == [content |-> content, tenant |-> tenant]

\* renderDefaultK8sRouteFragment shows the tenant of the endpoint.
Text(input) == [content |-> input.content,
                tenant |-> input.tenant /\ input.content \in Tenanted]

\* routeComponentSuffixes: the name of a workload that several routes collect
\* from is not enough to tell their files apart.
Shared(r, inputs) ==
    \E x \in DOMAIN inputs \ {r} : Workload[inputs[x].content] = Workload[inputs[r].content]

FileOf(r, inputs) ==
    [route |-> r, workload |-> Workload[inputs[r].content], shared |-> Shared(r, inputs)]

\* renderK8sCollectorConfigFiles: base.yaml and a file per route.
Render(inputs, p) ==
    [f \in {Base} \cup { FileOf(r, inputs) : r \in DOMAIN inputs } |->
        IF f = Base THEN BaseText(inputs, p) ELSE Text(inputs[f.route])]

\* k8sCollectorRuntimeInputs: what the routes of the domain say now.  The
\* endpoint is the stored one, which has no tenant (normalizeStoredEndpoint).
Inputs == [r \in DOMAIN routes |-> Input(routes[r].content, FALSE)]

\* k8sBundleInputs: the same with the route being edited as it will be, for
\* which routeDraft takes the tenant of the service (endpointForService).
InputsWith(r, content) ==
    [x \in DOMAIN routes \cup {r} |->
        IF x = r THEN Input(content, TRUE) ELSE Input(routes[x].content, FALSE)]

\* MUTANT: only files that were there before are compared.
ChangedKnown(bundle, baseline) ==
    IF baseline = NoRuntime \/ ~baseline.published \/ ~Kept(baseline.hash)
    THEN DOMAIN bundle
    ELSE { f \in DOMAIN bundle \cap DOMAIN baseline.hash : baseline.hash[f] # bundle[f] }

\* changedK8sRuntimeConfigMapNames: everything, unless the runtime document
\* names a stored bundle that was published.
Changed(bundle, baseline) ==
    IF baseline = NoRuntime \/ ~baseline.published \/ ~Kept(baseline.hash)
    THEN DOMAIN bundle
    ELSE { f \in DOMAIN bundle :
             f \in DOMAIN baseline.hash => baseline.hash[f] # bundle[f] }

\* filterConfigMapsByRouteIDs: base.yaml belongs to no route.
InScope(changed, scope) ==
    IF scope = {} THEN changed ELSE { f \in changed \ {Base} : f.route \in scope }

\* renderK8sRuntimeServiceConfigManifest: the chosen config maps, and the
\* DaemonSet, which mounts every file of the bundle and carries its hash.
Manifest(bundle, chosen) == [maps |-> Restrict(bundle, chosen), daemon |-> bundle]

-----------------------------------------------------------------------------
(* Calls begin and end.                                                    *)

MayBegin ==
    /\ begun < IF serial THEN MaxSerial ELSE MaxOverlapping
    /\ serial => \A c \in Callers : calls[c] = NoCall

Begins(c, q) ==
    /\ calls[c] = NoCall
    /\ MayBegin
    /\ begun' = begun + 1
    /\ calls' = [calls EXCEPT ![c] = q]

Ends(c) == calls' = [calls EXCEPT ![c] = NoCall]

\* An error or a crash: what is done stays done.
Fail(c) ==
    /\ calls[c] # NoCall
    /\ faults < MaxFaults
    /\ faults' = faults + 1
    /\ orderly' = (orderly /\ ~(calls[c].op = "publish" /\ Busy(c, "record")
                                 /\ calls[c].outcome = "applied"))
    /\ Ends(c)
    /\ UNCHANGED <<documents, clusterVars, begun, serial, latest, raced>>

-----------------------------------------------------------------------------
(* CreateRoute and UpdateRoute.                                            *)

Edit(op, r, doc, bundle) ==
    [op |-> op, phase |-> "version", route |-> r, doc |-> doc, bundle |-> bundle]

\* CreateRoute up to its first write; the collector must be installed
\* (ensureK8sObservabilityRuntimeReady).  A request may name the ID of the new
\* route, also one that another route has or had.
CreateReads(c, r, content) ==
    LET bundle == Render(InputsWith(r, content), patch)
    IN  /\ Installed
        /\ Begins(c, Edit("create", r, [content |-> content, hash |-> bundle, publish |-> ""],
                          bundle))
        /\ UNCHANGED <<documents, clusterVars, faults, serial, history>>

\* A route whose bundle is the one it already names keeps its state.
StateAfterUpdate(old, bundle) ==
    IF old.hash = bundle THEN old.publish ELSE "pending_publish"

UpdateReads(c, r, content) ==
    LET bundle == Render(InputsWith(r, content), patch)
    IN  /\ r \in DOMAIN routes
        /\ Installed
        /\ Begins(c, Edit("update", r,
                          [content |-> content, hash |-> bundle,
                           publish |-> StateAfterUpdate(routes[r], bundle)],
                          bundle))
        /\ UNCHANGED <<documents, clusterVars, faults, serial, history>>

\* MUTANT: only what is published is stored.
StoresPublished(c) ==
    /\ Busy(c, "version")
    /\ versions' = IF calls[c].op = "publish" THEN versions \cup {calls[c].bundle} ELSE versions
    /\ calls' = [calls EXCEPT ![c].phase = IF calls[c].op = "publish" THEN "deploy" ELSE "source"]
    /\ UNCHANGED <<routes, source, patch, runtime, clusterVars, begun, faults, serial, history>>

\* persistRenderedArtifacts, in all three operations.
StoreVersion(c) ==
    /\ Busy(c, "version")
    /\ versions' = versions \cup {calls[c].bundle}
    /\ calls' = [calls EXCEPT ![c].phase = IF calls[c].op = "publish" THEN "deploy" ELSE "source"]
    /\ UNCHANGED <<routes, source, patch, runtime, clusterVars, begun, faults, serial, history>>

StoreSource(c) ==
    /\ Busy(c, "source")
    /\ source' = calls[c].bundle
    /\ calls' = [calls EXCEPT ![c].phase = "route"]
    /\ UNCHANGED <<routes, versions, patch, runtime, clusterVars, begun, faults, serial, history>>

\* Which routes another call has read and may write back.
Copies(d) == CASE Busy(d, "mark")  -> DOMAIN calls[d].copies
               [] Busy(d, "probe") -> {calls[d].route}
               [] OTHER -> {}
HeldByOthers(c) == UNION { Copies(d) : d \in Callers \ {c} }

\* CreateRoute upserts the route, UpdateRoute replaces it: a route deleted in
\* the meantime ends an update.
StoreRoute(c) ==
    LET r == calls[c].route
    IN  /\ Busy(c, "route")
        /\ IF calls[c].op = "update" /\ r \notin DOMAIN routes
           THEN Ends(c) /\ UNCHANGED <<routes, latest, raced>>
           ELSE /\ routes' = [x \in DOMAIN routes \cup {r} |->
                                 IF x = r THEN calls[c].doc ELSE routes[x]]
                /\ latest' = [x \in DOMAIN latest \cup {r} |->
                                 IF x = r THEN calls[c].doc.content ELSE latest[x]]
                /\ raced' = raced \cup ({r} \cap HeldByOthers(c))
                /\ calls' = [calls EXCEPT ![c].phase = "list"]
        /\ UNCHANGED <<source, versions, patch, runtime, clusterVars, begun, faults, serial,
                       orderly>>

-----------------------------------------------------------------------------
(* updateK8sCollectorDomainRoutes: all routes are read, changed and        *)
(* replaced one after the other.                                           *)

ListRoutes(c) ==
    /\ Busy(c, "list")
    /\ calls' = [calls EXCEPT ![c] =
           [op |-> calls[c].op, phase |-> "mark", bundle |-> calls[c].bundle,
            route |-> IF calls[c].op = "publish" THEN Base ELSE calls[c].route,
            outcome |-> IF calls[c].op = "publish" THEN calls[c].outcome ELSE "pending_publish",
            copies |-> routes]]
    /\ UNCHANGED <<documents, clusterVars, begun, faults, serial, history>>

\* MUTANT: a preview marks the routes as a publication does.
MarkedAsPublished(q, r) ==
    [q.copies[r] EXCEPT !.hash = q.bundle, !.publish = "applied"]

\* markK8sBundlePending leaves a route that was never published alone, unless
\* it is the one just stored; syncK8sBundlePublishState marks every route.
Marked(q, r) ==
    [q.copies[r] EXCEPT
        !.hash = q.bundle,
        !.publish = IF q.op = "publish" \/ r = q.route \/ @ \notin {"", "pending_publish"}
                    THEN q.outcome ELSE @]

\* MUTANT: the routes are upserted.
MarkUpserts(c) ==
    /\ Busy(c, "mark")
    /\ \E r \in DOMAIN calls[c].copies :
          /\ routes' = [x \in DOMAIN routes \cup {r} |->
                          IF x = r THEN Marked(calls[c], r) ELSE routes[x]]
          /\ calls' = [calls EXCEPT ![c].copies = Restrict(@, DOMAIN @ \ {r})]
    /\ UNCHANGED <<source, versions, patch, runtime, clusterVars, begun, faults, serial, history>>

\* A route deleted in the meantime ends the call; the rest stays unmarked.
MarkRoute(c) ==
    /\ Busy(c, "mark")
    /\ \E r \in DOMAIN calls[c].copies :
          IF r \notin DOMAIN routes
          THEN Ends(c) /\ UNCHANGED routes
          ELSE /\ routes' = [routes EXCEPT ![r] = Marked(calls[c], r)]
               /\ calls' = [calls EXCEPT ![c].copies =
                              Restrict(@, DOMAIN @ \ {r})]
    /\ UNCHANGED <<source, versions, patch, runtime, clusterVars, begun, faults, serial, history>>

MarkingEnds(c) ==
    /\ Busy(c, "mark")
    /\ DOMAIN calls[c].copies = {}
    /\ Ends(c)
    /\ UNCHANGED <<documents, clusterVars, begun, faults, serial, history>>

-----------------------------------------------------------------------------
(* Other operations on routes and on the domain.                           *)

\* ProbeRoute replaces the route it read, with the outcome of the probe.
ProbeReads(c, r) ==
    /\ r \in DOMAIN routes
    /\ Begins(c, [op |-> "probe", phase |-> "probe", route |-> r, doc |-> routes[r]])
    /\ UNCHANGED <<documents, clusterVars, faults, serial, history>>

ProbeWrites(c) ==
    /\ Busy(c, "probe")
    /\ routes' = IF calls[c].route \in DOMAIN routes
                 THEN [routes EXCEPT ![calls[c].route] = calls[c].doc] ELSE routes
    /\ Ends(c)
    /\ UNCHANGED <<source, versions, patch, runtime, clusterVars, begun, faults, serial, history>>

\* DeleteRoute leaves the other routes, the source and the cluster alone.
DeleteRoute(r) ==
    /\ r \in DOMAIN routes
    /\ MayBegin
    /\ begun' = begun + 1
    /\ routes' = Restrict(routes, DOMAIN routes \ {r})
    /\ latest' = Restrict(latest, DOMAIN latest \ {r})
    /\ UNCHANGED <<source, versions, patch, runtime, clusterVars, calls, faults, serial,
                   orderly, raced>>

\* UpsertClusterConfig tells no route that the bundle has changed.
UpsertClusterConfig(p) ==
    /\ p # patch
    /\ MayBegin
    /\ begun' = begun + 1
    /\ patch' = p
    /\ UNCHANGED <<routes, source, versions, runtime, clusterVars, calls, faults, serial, history>>

\* Somebody removes the collector's namespace, with all that is in it.
Uninstall ==
    /\ Installed
    /\ faults < MaxFaults
    /\ faults' = faults + 1
    /\ maps' = Nothing
    /\ daemon' = NoBundle
    /\ UNCHANGED <<documents, issued, calls, begun, serial, history>>

-----------------------------------------------------------------------------
(* PublishK8sCollectorRuntime.                                             *)

\* The bundle is rendered first ...
PublishReads(c) ==
    /\ Begins(c, [op |-> "publish", phase |-> "check", bundle |-> Render(Inputs, patch)])
    /\ orderly' = (orderly /\ Publishing = {})
    /\ UNCHANGED <<documents, clusterVars, faults, serial, latest, raced>>

\* ... then cluster and runtime document are looked at.  "base" is for a
\* cluster without collector, "incremental" for one with.
PublishChecks(c, scope) ==
    LET q == calls[c]
        chosen == IF Installed THEN InScope(Changed(q.bundle, runtime), scope)
                  ELSE DOMAIN q.bundle
    IN  /\ Busy(c, "check")
        /\ calls' = [calls EXCEPT ![c] =
               [op |-> "publish", phase |-> "version", bundle |-> q.bundle,
                task |-> IF Installed THEN "incremental" ELSE "base",
                manifest |-> Manifest(q.bundle, chosen), baseline |-> runtime]]
        /\ orderly' = (orderly /\ (scope = {} \/ ~Installed))
        /\ UNCHANGED <<documents, clusterVars, begun, faults, serial, latest, raced>>

Published(document) == document # NoRuntime /\ document.published

\* MUTANT: a preview makes its own bundle the published one.
PreviewIsBaseline(q) ==
    [status |-> "previewed", hash |-> q.bundle, published |-> Published(runtime)]

\* After a preview the runtime document keeps naming what was published,
\* which is decided on the document as it was when the bundles were compared;
\* the rest is taken from the document as it is now (logsCollectorRuntime).
RuntimeAfterPreview(q) ==
    IF Published(q.baseline)
    THEN [q.baseline EXCEPT !.status = "previewed"]
    ELSE [status |-> "previewed", hash |-> q.bundle, published |-> Published(runtime)]

\* What the cluster can carry out: config maps need the namespace.
Deployable(q) == q.task = "base" \/ Installed

PublishPreviews(c) ==
    LET q == calls[c]
    IN  /\ Busy(c, "deploy")
        /\ Deployable(q)
        /\ issued' = issued \cup {Token(q.manifest)}
        /\ calls' = [calls EXCEPT ![c] =
               [op |-> "publish", phase |-> "record", bundle |-> q.bundle,
                outcome |-> "previewed", runtime |-> RuntimeAfterPreview(q)]]
        /\ UNCHANGED <<documents, maps, daemon, begun, faults, serial, history>>

\* The cluster carries the manifest out.
Apply(m, chosen) ==
    maps' = [f \in DOMAIN maps \cup chosen |-> IF f \in chosen THEN m.maps[f] ELSE maps[f]]

\* The manifest is the one rendered by this call: it is applied when it was
\* previewed and its objects have not changed since.
PublishApplies(c) ==
    LET q == calls[c]
    IN  /\ Busy(c, "deploy")
        /\ Deployable(q)
        /\ Token(q.manifest) \in issued
        /\ Apply(q.manifest, DOMAIN q.manifest.maps)
        /\ daemon' = q.manifest.daemon
        /\ calls' = [calls EXCEPT ![c] =
               [op |-> "publish", phase |-> "record", bundle |-> q.bundle,
                outcome |-> "applied",
                runtime |-> [status |-> "ready", hash |-> q.bundle, published |-> TRUE]]]
        /\ UNCHANGED <<documents, issued, begun, faults, serial, history>>

\* The apply breaks off after some config maps.
ApplyBreaks(c) ==
    LET q == calls[c]
    IN  /\ Busy(c, "deploy")
        /\ Deployable(q)
        /\ Token(q.manifest) \in issued
        /\ faults < MaxFaults
        /\ faults' = faults + 1
        /\ \E chosen \in SUBSET DOMAIN q.manifest.maps : Apply(q.manifest, chosen)
        /\ orderly' = FALSE
        /\ Ends(c)
        /\ UNCHANGED <<documents, daemon, issued, begun, serial, latest, raced>>

\* No such preview, or its objects have changed.
PublishRefused(c, token) ==
    LET q == calls[c]
    IN  /\ Busy(c, "deploy")
        /\ token # Token(q.manifest)
        /\ Ends(c)
        /\ UNCHANGED <<documents, clusterVars, begun, faults, serial, history>>

PublishRecords(c) ==
    /\ Busy(c, "record")
    /\ runtime' = calls[c].runtime
    /\ calls' = [calls EXCEPT ![c].phase = "list"]
    /\ UNCHANGED <<routes, source, versions, patch, clusterVars, begun, faults, serial, history>>

-----------------------------------------------------------------------------
CallStep(c) ==
    \/ \E r \in Routes, x \in Contents : CreateReads(c, r, x) \/ UpdateReads(c, r, x)
    \/ \E r \in Routes : ProbeReads(c, r)
    \/ StoreVersion(c) \/ StoreSource(c) \/ StoreRoute(c)
    \/ ListRoutes(c) \/ MarkRoute(c) \/ MarkingEnds(c)
    \/ ProbeWrites(c)
    \/ PublishReads(c)
    \/ \E scope \in SUBSET Routes : PublishChecks(c, scope)
    \/ PublishPreviews(c) \/ PublishApplies(c) \/ ApplyBreaks(c)
    \/ \E token \in issued : PublishRefused(c, token)
    \/ PublishRecords(c)
    \/ Fail(c)

Next ==
    \/ \E c \in Callers : CallStep(c)
    \/ \E r \in Routes : DeleteRoute(r)
    \/ \E p \in Patches : UpsertClusterConfig(p)
    \/ Uninstall

Spec == Init /\ [][Next]_vars

-----------------------------------------------------------------------------
(* Properties.                                                             *)

\* The documents, the cluster and the tokens are of the kinds they have in
\* the code.
BundleTypeOK ==
    /\ Maps(routes, Routes, RouteDocs)
    /\ source # NoBundle => IsBundle(source)
    /\ \A bundle \in versions : IsBundle(bundle)
    /\ patch \in Patches
    /\ runtime # NoRuntime => runtime \in Runtimes
    /\ IsBundle(maps)
    /\ daemon # NoBundle => IsBundle(daemon)
    /\ \A t \in issued : /\ IsBundle(t.manifest.maps) /\ IsBundle(t.manifest.daemon)
                         /\ Maps(t.live, Files, Texts \cup {Gone})

\* Every hash a document names can be looked up: RouteCollectorConfig and the
\* comparison of a publication find the bundle, whatever stopped half way.
HashesAreKept ==
    /\ \A r \in DOMAIN routes : Kept(routes[r].hash)
    /\ source # NoBundle => Kept(source)
    /\ runtime # NoRuntime => Kept(runtime.hash)

\* What an incremental publication skips is there: while publications are
\* alone, complete and for all routes, every file of the bundle the runtime
\* document names as published is in the cluster as that bundle has it, no
\* matter how many previews, edits, deletions and reinstallations came after.
SkippedFilesAreThere ==
    orderly /\ Installed /\ Published(runtime)
    /\ (\A c \in Callers : Busy(c, "record") => calls[c].outcome # "applied") =>
        \A f \in DOMAIN runtime.hash :
            f \in DOMAIN daemon => f \in DOMAIN maps /\ maps[f] = runtime.hash[f]

\* The DaemonSet mounts only config maps that exist (a missing one keeps all
\* collector pods from starting), although it lists the files of the whole
\* bundle and a publication brings only the ones it believes to be new.
MountsExist == orderly => \A f \in Files : Installed /\ f \in DOMAIN daemon => f \in DOMAIN maps

\* Documents are well formed, a bundle is stored under every hash that is named, and is in the
\* cluster where a publication or the DaemonSet takes it to be.
BundlesAreSound == BundleTypeOK /\ HashesAreKept /\ SkippedFilesAreThere /\ MountsExist

\* The files of route r in a bundle, and whether they are as a publication
\* renders content for r.
FilesOf(r, bundle) == { f \in DOMAIN bundle \ {Base} : f.route = r }

AsPublished(f, text, content) ==
    f.workload = Workload[content] /\ text = Text(Input(content, FALSE))

\* A route shown as applied collects what it says now: with one call at a
\* time, each of which may stop after any step, the collectors mount a file of
\* the route, every file of it that they mount names the route's workload, and
\* the cluster has its content there.  It is there WITHOUT the tenant of the
\* route's service, also where the edit rendered and stored it with the tenant.
AppliedRouteRuns ==
    serial /\ orderly /\ Installed =>
        \A r \in DOMAIN routes :
            routes[r].publish = "applied" =>
                /\ FilesOf(r, daemon) # {}
                /\ \A f \in FilesOf(r, daemon) :
                      f \in DOMAIN maps /\ AsPublished(f, maps[f], routes[r].content)

\* An edit is undone, or a deleted route is back, only by a call that had
\* read the route before and replaces it later, as the marking of the routes
\* and the probe do: a deleted route comes back only when it is created again,
\* and an edit stored while nobody held a copy stays.
EditsStay ==
    /\ DOMAIN routes = DOMAIN latest
    /\ \A r \in DOMAIN routes \ raced : routes[r].content = latest[r]

\* A confirmed preview is carried out unless its objects changed: that the
\* routes changed since does not matter, because what is applied is the
\* manifest saved with the preview.
ConfirmedPreviewIsApplied ==
    [][\A c \in Callers : \A token \in issued :
          PublishRefused(c, token) =>
              token # Token(token.manifest) \/ token.manifest.daemon = calls[c].bundle]_vars
=============================================================================
