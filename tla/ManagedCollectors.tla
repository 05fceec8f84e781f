--------------------------- MODULE ManagedCollectors ---------------------------
(***************************************************************************)
(* The collector the platform installs in a cluster for a metrics source       *)
(* (internal/metrics/managed_collector.go): previewed, recorded as a release,  *)
(* and applied later, when source, binding and destination may have changed.   *)
(* One cluster; every source is the one of another environment.  Requests      *)
(* without permission or with an unusable destination change nothing.         *)
(***************************************************************************)
EXTENDS Naturals, Functions

CONSTANTS
    ReleaseCallers,
    ManagedSources,
    WriteURLs,           \* of destinations
    CollectorNamespaces,
    NoCollector, NoRelease,
    MaxReleases          \* bound, of all sources

\* Nothing is told from every collector.
ASSUME CollectorAssumption == NoCollector \notin [source : ManagedSources, url : WriteURLs]

VARIABLES
    mode,            \* of the source while the cluster is bound to its environment
    writeURL,        \* of the destination of the source's integration
    release,         \* the newest release of the source
    collector,       \* what runs in a namespace: [source, url]
    grantee,         \* the namespace whose account may read the cluster
    relCalls,
    replaced         \* history: sources whose collector somebody else replaced or removed

releaseVars == <<mode, writeURL, release, collector, grantee, relCalls, replaced>>
clusterVars == <<collector, grantee, replaced>>
settingVars == <<mode, writeURL>>

IdleRelease == [phase |-> "idle"]

CollectorsInit ==
    /\ mode = [s \in ManagedSources |-> "not bound yet"]
    /\ writeURL \in [ManagedSources -> WriteURLs]
    /\ release = [s \in ManagedSources |-> NoRelease]
    /\ collector = [n \in CollectorNamespaces |-> NoCollector]
    /\ grantee = NoCollector
    /\ relCalls = [c \in ReleaseCallers |-> IdleRelease]
    /\ replaced = {}

RelCallMoves(c, call) == relCalls' = [relCalls EXCEPT ![c] = call]

-------------------------------------------------------------------------------
\* The settings of a source change

BoundSources == {s \in ManagedSources : mode[s] \in {"external", "managed"}}

\* A binding that is made anew has another ID, and another source.
Rebind(s) ==
    /\ \/ mode[s] = "not bound yet" /\ BoundSources = {} /\ mode' = [mode EXCEPT ![s] = "external"]
       \/ s \in BoundSources /\ mode' = [mode EXCEPT ![s] = "unbound"]
    /\ UNCHANGED <<writeURL, release, clusterVars, relCalls>>

\* While the cluster is bound elsewhere nothing here reads it.
UpdateIntegration(s, url) ==
    /\ s \in BoundSources
    /\ url # writeURL[s]
    /\ writeURL' = [writeURL EXCEPT ![s] = url]
    /\ UNCHANGED <<mode, release, clusterVars, relCalls>>

UpdateSourceAccess(s, to) ==
    /\ s \in BoundSources
    /\ mode[s] # to
    /\ mode' = [mode EXCEPT ![s] = to]
    /\ UNCHANGED <<writeURL, release, clusterVars, relCalls>>

\* What preview and apply read before they do anything.
managedCollectorContext(s) == mode[s] = "managed"

-------------------------------------------------------------------------------
\* Preview

PreviewCollectorReads(c, s, namespace) ==
    /\ relCalls[c].phase = "idle"
    /\ managedCollectorContext(s)
    /\ RelCallMoves(c, [phase |-> "detect", source |-> s, namespace |-> namespace, url |-> writeURL[s]])
    /\ UNCHANGED <<settingVars, release, clusterVars>>

\* A cluster with a collector gets no second one; one of somebody else's is as good as a
\* call that fails.
detectKubernetesMetricsStack == \E n \in CollectorNamespaces : collector[n] # NoCollector

PreviewCollectorDetects(c) ==
    /\ relCalls[c].phase = "detect"
    /\ RelCallMoves(c, IF detectKubernetesMetricsStack THEN IdleRelease
                       ELSE [relCalls[c] EXCEPT !.phase = "preview"])
    /\ UNCHANGED <<settingVars, release, clusterVars>>

\* The confirmation stands for the objects of the manifest as the cluster has them.
SeenBy(call) == [seen |-> collector[call.namespace], grantee |-> grantee]

Generation(s) == IF release[s] = NoRelease THEN 0 ELSE release[s].generation

PreviewCollectorRuns(c) ==
    LET call == relCalls[c]
    IN  /\ call.phase = "preview"
        /\ FoldFunction(+, 0, [s \in ManagedSources |-> Generation(s)]) < MaxReleases
        /\ RelCallMoves(c, [phase |-> "save", source |-> call.source, release |->
               [namespace |-> call.namespace, url |-> call.url, status |-> "previewed",
                token |-> SeenBy(call), generation |-> Generation(call.source) + 1]])
        /\ UNCHANGED <<settingVars, release, clusterVars>>

\* A generation is inserted once.
SaveCollectorRelease(c) ==
    LET call == relCalls[c]
    IN  /\ call.phase = "save"
        /\ \/ Generation(call.source) >= call.release.generation /\ UNCHANGED release
           \/ /\ Generation(call.source) < call.release.generation
              /\ release' = [release EXCEPT ![call.source] = call.release]
        /\ RelCallMoves(c, IdleRelease)
        /\ UNCHANGED <<settingVars, clusterVars>>

-------------------------------------------------------------------------------
\* Apply

ApplyCollectorReads(c, s) ==
    /\ relCalls[c].phase = "idle"
    /\ managedCollectorContext(s)
    /\ release[s] # NoRelease
    /\ release[s].status = "previewed"
    /\ release[s].url = writeURL[s]
    /\ RelCallMoves(c, [phase |-> "apply", source |-> s, release |-> release[s]])
    /\ UNCHANGED <<settingVars, release, clusterVars>>

\* Somebody else's collector of the namespace is replaced.
Deploys(s, r) ==
    /\ collector' = [collector EXCEPT ![r.namespace] = [source |-> s, url |-> r.url]]
    /\ grantee' = r.namespace
    /\ replaced' = {t \in ManagedSources :
           t \in replaced \/ (collector[r.namespace] # NoCollector /\ collector[r.namespace].source = t)}

\* MUTANT: a deployment that breaks off is recorded as applied.
RecordsApplied(c) ==
    LET call == relCalls[c]
    IN  /\ call.phase = "apply"
        /\ RelCallMoves(c, [call EXCEPT !.phase = "record", !.release.status = "applied"])
        /\ \/ SeenBy(call.release) = call.release.token /\ Deploys(call.source, call.release)
           \/ UNCHANGED <<collector, grantee, replaced>>
        /\ UNCHANGED <<settingVars, release>>

\* The second dry run and the deployment (SafeApply has them step by step).  A deployment
\* that breaks off may have got as far as the collector.
ApplyCollectorDeploys(c) ==
    LET call == relCalls[c]
        confirmed == SeenBy(call.release) = call.release.token
    IN  /\ call.phase = "apply"
        /\ \E outcome \in {"applied", "failed"} :
               /\ outcome = "applied" => confirmed
               /\ RelCallMoves(c, [call EXCEPT !.phase = "record", !.release.status = outcome])
               /\ \/ confirmed /\ Deploys(call.source, call.release)
                  \/ outcome = "failed" /\ UNCHANGED <<collector, grantee, replaced>>
        /\ UNCHANGED <<settingVars, release>>

UpdateCollectorRelease(c) ==
    LET call == relCalls[c]
    IN  /\ call.phase = "record"
        /\ release' = [release EXCEPT ![call.source] =
               IF @.generation = call.release.generation THEN call.release ELSE @]
        /\ RelCallMoves(c, IdleRelease)
        /\ UNCHANGED <<settingVars, clusterVars>>

\* A call of the database or the cluster fails, or the process stops.
ReleaseCallFails(c) ==
    /\ relCalls[c].phase # "idle"
    /\ RelCallMoves(c, IdleRelease)
    /\ UNCHANGED <<settingVars, release, clusterVars>>

\* Others remove a collector; its rights stay.
OthersRemoveCollector(n) ==
    /\ collector[n] # NoCollector
    /\ collector' = [collector EXCEPT ![n] = NoCollector]
    /\ replaced' = replaced \cup {collector[n].source}
    /\ UNCHANGED <<settingVars, release, grantee, relCalls>>

CollectorsNext ==
    \/ \E s \in ManagedSources :
           \/ Rebind(s)
           \/ \E url \in WriteURLs : UpdateIntegration(s, url)
           \/ \E to \in {"external", "managed"} : UpdateSourceAccess(s, to)
    \/ \E c \in ReleaseCallers :
           \/ \E s \in ManagedSources :
                  \/ \E n \in CollectorNamespaces : PreviewCollectorReads(c, s, n)
                  \/ ApplyCollectorReads(c, s)
           \/ PreviewCollectorDetects(c) \/ PreviewCollectorRuns(c) \/ SaveCollectorRelease(c)
           \/ ApplyCollectorDeploys(c) \/ UpdateCollectorRelease(c)
           \/ ReleaseCallFails(c)
    \/ \E n \in CollectorNamespaces : OthersRemoveCollector(n)

CollectorsSpec == CollectorsInit /\ [][CollectorsNext]_releaseVars

-------------------------------------------------------------------------------
\* The newest release of a source, when shown as applied, is the collector that runs in its
\* namespace, writing where the release says, whatever was previewed, applied or failed
\* meanwhile; not so once another source's release or somebody else replaced it.
AppliedReleaseRuns ==
    \A s \in ManagedSources \ replaced :
        release[s] # NoRelease /\ release[s].status = "applied" =>
            collector[release[s].namespace] = [source |-> s, url |-> release[s].url]
===============================================================================
