---------------------------- MODULE MetricsSources ----------------------------
(***************************************************************************)
(* The metrics integration of an environment and its sources                  *)
(* (internal/metrics/integration_service.go): one source for every resource    *)
(* bound to the environment, and one for metrics derived from logs.  Creation  *)
(* writes several documents and takes them back when one fails; reconciliation *)
(* compares bindings and sources it read at different times.  Destinations,    *)
(* modes and states of the documents are in ManagedCollectors.                *)
(***************************************************************************)
EXTENDS Environments

CONSTANTS
    NoIntegration,
    MaxIntegrations, MaxSources  \* bounds: IDs in use at a time

\* IDs are numbers from 1.
ASSUME MetricsAssumption == NoIntegration \notin Nat /\ MaxIntegrations \in Nat /\ MaxSources \in Nat

VARIABLES
    integrations,    \* the ID of the integration of an environment
    sources,         \* [id, integration, binding], binding 0 for the source derived from logs
    intCalls,
    settled          \* history: the integration whose last call met nobody else, or 0

metricsVars == <<envVars, integrations, sources, intCalls, settled>>

LogDerived == 0

-------------------------------------------------------------------------------
\* Calls, and the IDs somebody refers to

IdleCall == [phase |-> "idle", does |-> "", env |-> CHOOSE e \in Envs : TRUE, id |-> 0,
             gone |-> {}, todo |-> {}, disturbed |-> FALSE]

Active == {c \in EnvCallers : intCalls[c].phase # "idle"}
Free == {c \in EnvCallers \ Active : envCalls[c].phase = "idle"}

UsedBindings == {s.binding : s \in sources} \cup UNION {intCalls[c].todo : c \in Active}
UsedIntegrations ==
    {s.integration : s \in sources} \cup {intCalls[c].id : c \in Active}
        \cup {settled[e] : e \in Envs} \cup ({integrations[e] : e \in Envs} \ {NoIntegration})
UsedSources == {s.id : s \in sources} \cup UNION {intCalls[c].gone : c \in Active}

ListSourceAccesses(id) == {s \in sources : s.integration = id}

MetricsInit ==
    /\ EnvironmentsInit
    /\ integrations = [e \in Envs |-> NoIntegration]
    /\ sources = {}
    /\ intCalls = [c \in EnvCallers |-> IdleCall]
    /\ settled = [e \in Envs |-> 0]

Proceeds(c, call) ==
    /\ intCalls' = [intCalls EXCEPT ![c] = call]
    /\ UNCHANGED <<envVars, integrations, sources, settled>>

\* A call of c on e changes documents of the integration: the other calls are disturbed.
MovesAmong(c, e, call) ==
    intCalls' = [d \in EnvCallers |->
        CASE d = c -> call
          [] d \in Active \ {c} /\ intCalls[d].env = e -> [intCalls[d] EXCEPT !.disturbed = TRUE]
          [] OTHER -> intCalls[d]]

Changes(c, call, newSources) ==
    /\ sources' = newSources
    /\ MovesAmong(c, intCalls[c].env, call)
    /\ settled' = [settled EXCEPT ![intCalls[c].env] = 0]
    /\ UNCHANGED envVars

InsertSource(c, call, binding, next) ==
    \E id \in Fresh(UsedSources, MaxSources) :
        /\ Changes(c, next,
                   sources \cup {[id |-> id, integration |-> call.id, binding |-> binding]})
        /\ UNCHANGED integrations

HasSource(id, binding) == \E s \in ListSourceAccesses(id) : s.binding = binding

-------------------------------------------------------------------------------
\* Creation

CreateIntegrationReads(c, e) ==
    /\ c \in Free
    /\ status[e] = "active"
    /\ integrations[e] = NoIntegration
    /\ Proceeds(c, [IdleCall EXCEPT !.phase = "insert", !.does = "create", !.env = e])

CreateIntegrationInserts(c) ==
    LET call == intCalls[c]
    IN  /\ call.phase = "insert"
        /\ \/ integrations[call.env] # NoIntegration /\ Proceeds(c, IdleCall)
           \/ /\ integrations[call.env] = NoIntegration
              /\ \E id \in Fresh(UsedIntegrations, MaxIntegrations) :
                     /\ integrations' = [integrations EXCEPT ![call.env] = id]
                     /\ Changes(c, [call EXCEPT !.phase = "list", !.id = id], sources)

CreateIntegrationLists(c) ==
    /\ intCalls[c].phase = "list"
    /\ Proceeds(c, [intCalls[c] EXCEPT !.phase = "sources",
                        !.todo = {b.id : b \in ListResourceBindings(intCalls[c].env)}])

\* A source that cannot be created ends a reconciliation, and takes back a creation.
AfterFailure(call) == IF call.does = "create" THEN [call EXCEPT !.phase = "taking back"] ELSE IdleCall

CreateSourceAccess(c) ==
    LET call == intCalls[c]
    IN  /\ call.phase = "sources"
        /\ call.gone = {}
        /\ \E b \in call.todo :
               \/ HasSource(call.id, b) /\ Proceeds(c, AfterFailure(call))
               \/ /\ ~HasSource(call.id, b)
                  /\ InsertSource(c, call, b, [call EXCEPT !.todo = @ \ {b}])

\* MUTANT: a failed creation deletes the integration and leaves its sources.
DeletesDocumentOnly(c) ==
    /\ intCalls[c].phase = "taking back"
    /\ Proceeds(c, [intCalls[c] EXCEPT !.phase = "drop", !.todo = {}, !.gone = {}])

\* DeleteIntegration: its sources as they are now, one by one, then the document.
DeleteIntegrationLists(c) ==
    /\ intCalls[c].phase = "taking back"
    /\ Proceeds(c, [intCalls[c] EXCEPT !.phase = "drop", !.todo = {},
                        !.gone = {s.id : s \in ListSourceAccesses(intCalls[c].id)}])

\* A source that is gone already does not matter here; in a reconciliation it is an error.
DeleteSourceAccess(c) ==
    LET call == intCalls[c]
    IN  /\ call.phase \in {"sources", "drop"}
        /\ \E id \in call.gone :
               \/ /\ id \in {s.id : s \in sources}
                  /\ Changes(c, [call EXCEPT !.gone = @ \ {id}], {s \in sources : s.id # id})
                  /\ UNCHANGED integrations
               \/ /\ id \notin {s.id : s \in sources}
                  /\ Proceeds(c, IF call.phase = "drop" THEN [call EXCEPT !.gone = @ \ {id}]
                                 ELSE IdleCall)

Settles(call) == settled' = [settled EXCEPT ![call.env] = IF call.disturbed THEN 0 ELSE call.id]

DeleteIntegration(c) ==
    LET call == intCalls[c]
    IN  /\ call.phase = "drop"
        /\ call.gone = {}
        /\ integrations' = [integrations EXCEPT ![call.env] = NoIntegration]
        /\ MovesAmong(c, call.env, IdleCall)
        /\ Settles(call)
        /\ UNCHANGED <<envVars, sources>>

-------------------------------------------------------------------------------
\* Reconciliation, and the source derived from logs

ReconcileReads(c, e) ==
    /\ c \in Free
    /\ integrations[e] # NoIntegration
    /\ status[e] = "active"
    /\ Proceeds(c, [IdleCall EXCEPT !.phase = "compare", !.does = "reconcile", !.env = e,
                        !.id = integrations[e], !.todo = {b.id : b \in ListResourceBindings(e)}])

ReconcileCompares(c) ==
    /\ intCalls[c].phase = "compare"
    /\ LET call == intCalls[c]
           have == ListSourceAccesses(call.id)
       IN  Proceeds(c, [call EXCEPT !.phase = "sources",
                            !.gone = {s.id : s \in {s \in have : s.binding \notin call.todo \cup {LogDerived}}},
                            !.todo = @ \ {s.binding : s \in have}])

Succeeds(c) ==
    LET call == intCalls[c]
    IN  /\ call.phase = "sources"
        /\ call.gone = {}
        /\ call.todo = {}
        /\ intCalls' = [intCalls EXCEPT ![c] = IdleCall]
        /\ Settles(call)
        /\ UNCHANGED <<envVars, integrations, sources>>

EnableLogDerivedReads(c, e) ==
    /\ c \in Free
    /\ integrations[e] # NoIntegration
    /\ ~HasSource(integrations[e], LogDerived)
    /\ Proceeds(c, [IdleCall EXCEPT !.phase = "log", !.does = "log", !.env = e, !.id = integrations[e]])

EnableLogDerivedInserts(c) ==
    LET call == intCalls[c]
    IN  /\ call.phase = "log"
        /\ \/ HasSource(call.id, LogDerived) /\ Proceeds(c, IdleCall)
           \/ ~HasSource(call.id, LogDerived) /\ InsertSource(c, call, LogDerived, IdleCall)

\* A call of the database fails, or the process stops.
IntegrationFails(c) ==
    /\ c \in Active
    /\ \/ Proceeds(c, IdleCall)
       \/ /\ intCalls[c].does = "create"
          /\ intCalls[c].phase \in {"list", "sources"}
          /\ Proceeds(c, AfterFailure(intCalls[c]))

\* Environments change meanwhile.
EnvironmentStep ==
    /\ EnvironmentsNext(UsedBindings, Free)
    /\ LET moved == {e \in Envs : ListResourceBindings(e)' # ListResourceBindings(e)}
       IN  /\ settled' = [e \in Envs |-> IF e \in moved THEN 0 ELSE settled[e]]
           /\ intCalls' = [c \in EnvCallers |->
                  IF c \in Active /\ intCalls[c].env \in moved
                  THEN [intCalls[c] EXCEPT !.disturbed = TRUE] ELSE intCalls[c]]
    /\ UNCHANGED <<integrations, sources>>

MetricsNext ==
    \/ EnvironmentStep
    \/ \E c \in EnvCallers :
           \/ \E e \in Envs :
                  CreateIntegrationReads(c, e) \/ ReconcileReads(c, e) \/ EnableLogDerivedReads(c, e)
           \/ CreateIntegrationInserts(c) \/ CreateIntegrationLists(c) \/ CreateSourceAccess(c)
           \/ DeleteIntegrationLists(c) \/ DeleteSourceAccess(c) \/ DeleteIntegration(c)
           \/ ReconcileCompares(c) \/ Succeeds(c)
           \/ EnableLogDerivedInserts(c) \/ IntegrationFails(c)

MetricsSpec == MetricsInit /\ [][MetricsNext]_metricsVars

-------------------------------------------------------------------------------
\* "The bindings of the environment are the only truth" (integration_service.go:378): an
\* integration whose last creation or reconciliation succeeded has a source for every
\* resource bound and no others, whatever earlier calls left behind; one whose creation was
\* taken back is gone with its sources.  Not so when bindings or sources changed under the
\* call, or since.
SourcesFollowBindings ==
    \A e \in Envs :
        settled[e] # 0 =>
            {s.binding : s \in ListSourceAccesses(settled[e])} \ {LogDerived} =
                IF integrations[e] = settled[e] THEN {b.id : b \in ListResourceBindings(e)} ELSE {}
===============================================================================
