--------------------------- MODULE AlertRuntime ---------------------------
(***************************************************************************)
(* Publishing the rules of an endpoint to its vmalert runtime:             *)
(* LogRuntimeService.Publish and MetricsRuntimeService.Publish over the    *)
(* rule store of module AlertRules.                                        *)
(*                                                                         *)
(* One call without a confirmation compiles the enabled rules, previews    *)
(* the manifest against the cluster and returns a token.  A later call     *)
(* with the token compiles AGAIN, checks the token against the manifest    *)
(* and the live objects, applies the manifest, and marks every rule then   *)
(* bound to the endpoint as applied.  Operators keep changing rules        *)
(* between any two of these steps, and calls of several publishers         *)
(* interleave.                                                             *)
(*                                                                         *)
(* The cluster is seen as the artifact the runtime of an endpoint runs; an *)
(* endpoint that was never deployed runs the empty artifact.               *)
(***************************************************************************)
EXTENDS AlertRules, FiniteSets

CONSTANTS
    Publishers,     \* concurrent Publish calls
    MaxPreviews     \* bound: distinct previews in all

ASSUME PreviewBound == MaxPreviews \in Nat

VARIABLES
    running,        \* running[e]: the artifact in the cluster
    previews,       \* tokens handed out: a digest is what it was computed from
    pub,            \* pub[p]: the Publish call p is executing
    record,         \* record[e]: the document of collection runtimes
    deploys,        \* history: artifacts ever applied, per endpoint
    overlapped      \* history: endpoints whose last publication met a change

clusterVars == <<running, previews, pub, record, deploys, overlapped>>
runtimeVars == <<rules, updates, op, running, previews, pub, record, deploys, overlapped>>

Artifacts == SUBSET (Rules \X Specs)

\* MUTANT: disabled rules are compiled too.
CompileDisabled(e) ==
    { <<r, rules[r].spec>> : r \in
        { x \in Rules : Exists(x) /\ rules[x].spec.endpoint = e } }

\* FindRuntimeRules and CompileVmalertArtifact: the enabled rules only.
Compile(e) ==
    { <<r, rules[r].spec>> : r \in
        { x \in Rules : Exists(x) /\ rules[x].spec.endpoint = e
                                  /\ rules[x].state = "enabled" } }

\* Plan ID and confirmation token: digests of live state and desired state.
Token(e, before, after) == [endpoint |-> e, before |-> before, after |-> after]
Tokens == [endpoint : Endpoints, before : Artifacts, after : Artifacts]

NoCall == [phase |-> "none"]
Phases == {"compiled", "confirmed", "deployed", "marked", "previewed", "noting"}
RuntimeRecords == [status : {"none", "previewed", "ready"}, artifact : Artifacts,
                   published : BOOLEAN]
NoRecord == [status |-> "none", artifact |-> {}, published |-> FALSE]

\* apply: the call carries a token; clean: nothing met it so far (history);
\* found: whether the runtime document upsertRuntime read has LastPublishedAt,
\* the one field of it that the new document may keep; left: the rules to which
\* UpdateMany has yet to come, in any order.
Calls == [phase : Phases, endpoint : Endpoints, artifact : Artifacts,
          apply : BOOLEAN, clean : BOOLEAN, found : BOOLEAN, left : SUBSET Rules]

\* A call that compiled for e, wants to apply, and has not marked rules yet.
Active(p, e) ==
    /\ pub[p] # NoCall
    /\ pub[p].apply
    /\ pub[p].endpoint = e
    /\ pub[p].phase \in {"compiled", "confirmed", "deployed"}

\* The calls in P that are active at an endpoint of E lose their clean mark.
Met(P, E) ==
    [p \in Publishers |->
        IF p \in P /\ \E e \in E : Active(p, e)
        THEN [pub[p] EXCEPT !.clean = FALSE] ELSE pub[p]]

RuntimeInit ==
    /\ Init
    /\ running = [e \in Endpoints |-> {}]
    /\ previews = {}
    /\ pub = [p \in Publishers |-> NoCall]
    /\ record = [e \in Endpoints |-> NoRecord]
    /\ deploys = [e \in Endpoints |-> {}]
    /\ overlapped = {}

-----------------------------------------------------------------------------
(* One Publish call, step by step.                                         *)

CompileRules(p, e, apply) ==
    /\ pub[p] = NoCall
    /\ pub' = [(IF apply THEN Met(Publishers, {e}) ELSE pub) EXCEPT ![p] =
                 [phase |-> "compiled", endpoint |-> e, artifact |-> Compile(e),
                  apply |-> apply, clean |-> \A x \in Publishers : ~Active(x, e),
                  found |-> FALSE, left |-> Rules]]
    /\ UNCHANGED <<rules, updates, op, running, previews, record, deploys, overlapped>>

Preview(p) ==
    /\ pub[p] # NoCall
    /\ pub[p].phase = "compiled"
    /\ ~pub[p].apply
    /\ LET t == Token(pub[p].endpoint, running[pub[p].endpoint], pub[p].artifact)
       IN  /\ t \in previews \/ Cardinality(previews) < MaxPreviews
           /\ previews' = previews \cup {t}
    /\ pub' = [pub EXCEPT ![p].phase = "previewed"]
    /\ UNCHANGED <<rules, updates, op, running, record, deploys, overlapped>>

\* MUTANT: any token will do.
AnyToken(q) == TRUE

\* matchingConfirmation: the token must match manifest and live state.
TokenMatches(q) == Token(q.endpoint, running[q.endpoint], q.artifact) \in previews

\* Apply dry-runs again before it compares the token.
Confirm(p) ==
    /\ pub[p] # NoCall
    /\ pub[p].phase = "compiled"
    /\ pub[p].apply
    /\ TokenMatches(pub[p])
    /\ pub' = [pub EXCEPT ![p].phase = "confirmed"]
    /\ UNCHANGED <<rules, updates, op, running, previews, record, deploys, overlapped>>

\* Server-side apply with ForceConflicts: no condition on the live objects.
Deploy(p) ==
    /\ pub[p] # NoCall
    /\ pub[p].phase = "confirmed"
    /\ LET e == pub[p].endpoint IN
       /\ running' = [running EXCEPT ![e] = pub[p].artifact]
       /\ deploys' = [deploys EXCEPT ![e] = @ \cup {pub[p].artifact}]
       /\ overlapped' = IF pub[p].clean THEN overlapped ELSE overlapped \cup {e}
    /\ pub' = [pub EXCEPT ![p].phase = "deployed"]
    /\ UNCHANGED <<rules, updates, op, previews, record>>

\* UpdateMany comes to rule r.
MarkApplied(p, r) ==
    LET q == pub[p]
        last == q.left = {r}
    IN  /\ q # NoCall
        /\ q.phase = "deployed"
        /\ r \in q.left
        /\ MarkRuntimeRulesApplied(q.endpoint, r)
        /\ pub' = [pub EXCEPT ![p].left = @ \ {r},
                              ![p].phase = IF last THEN "marked" ELSE "deployed"]
        /\ overlapped' = IF ~q.clean THEN overlapped \cup {q.endpoint}
                         ELSE IF last THEN overlapped \ {q.endpoint} ELSE overlapped
        /\ UNCHANGED <<running, previews, record, deploys>>

\* upsertRuntime: read the document, then replace it.
FindRuntime(p) ==
    /\ pub[p] # NoCall
    /\ pub[p].phase \in {"marked", "previewed"}
    /\ pub' = [pub EXCEPT ![p].phase = "noting", ![p].found = record[pub[p].endpoint].published]
    /\ UNCHANGED <<rules, updates, op, running, previews, record, deploys, overlapped>>

\* MUTANT: a preview makes the runtime ready.
RecordAlwaysReady(q) ==
    [status |-> "ready", artifact |-> q.artifact, published |-> q.apply \/ q.found]

RecordAfter(q) ==
    [status |-> IF q.apply THEN "ready" ELSE "previewed",
     artifact |-> q.artifact, published |-> q.apply \/ q.found]

UpsertRuntime(p) ==
    /\ pub[p] # NoCall
    /\ pub[p].phase = "noting"
    /\ record' = [record EXCEPT ![pub[p].endpoint] = RecordAfter(pub[p])]
    /\ pub' = [pub EXCEPT ![p] = NoCall]
    /\ UNCHANGED <<rules, updates, op, running, previews, deploys, overlapped>>

\* An error, a refused confirmation or a server restart between two steps.
\* Whatever the call wrote so far stays.
Fail(p) ==
    /\ pub[p] # NoCall
    /\ pub' = [pub EXCEPT ![p] = NoCall]
    /\ UNCHANGED <<rules, updates, op, running, previews, record, deploys, overlapped>>

\* A step of an operator.  (History: a commit meets the calls for the
\* endpoints the rule had and gets.)
ChangeRules ==
    /\ OperatorStep
    /\ pub' = Met(Publishers, { rules'[r].spec.endpoint : r \in
                                  { x \in Rules : rules'[x] # rules[x] } }
                              \cup { rules[r].spec.endpoint : r \in
                                  { x \in Rules : Exists(x) /\ rules'[x] # rules[x] } })
    /\ UNCHANGED <<running, previews, record, deploys, overlapped>>

PublishStep ==
    \E p \in Publishers :
        \/ \E e \in Endpoints, apply \in BOOLEAN : CompileRules(p, e, apply)
        \/ Preview(p)
        \/ Confirm(p)
        \/ Deploy(p)
        \/ \E r \in Rules : MarkApplied(p, r)
        \/ FindRuntime(p)
        \/ UpsertRuntime(p)
        \/ Fail(p)

RuntimeNext == ChangeRules \/ PublishStep

RuntimeSpec == RuntimeInit /\ [][RuntimeNext]_runtimeVars

-----------------------------------------------------------------------------
(* Properties.                                                             *)

RuntimeTypeOK ==
    /\ running \in [Endpoints -> Artifacts]
    /\ previews \subseteq Tokens
    /\ pub \in [Publishers -> {NoCall} \cup Calls]
    /\ record \in [Endpoints -> RuntimeRecords]
    /\ deploys \in [Endpoints -> SUBSET Artifacts]
    /\ overlapped \subseteq Endpoints

\* What endpoint e runs of rule r.
RunsOf(e, r) == { x \in running[e] : x[1] = r }

\* The marker tells the truth at e: a rule shown as applied runs with its
\* current specification when enabled, and does not run when disabled.
MarkerIsTrue(e) ==
    \A r \in Rules :
        Exists(r) /\ rules[r].spec.endpoint = e /\ rules[r].status = "applied" =>
            RunsOf(e, r) = IF rules[r].state = "enabled"
                           THEN {<<r, rules[r].spec>>} ELSE {}

\* README: publishing compiles all enabled rules of the endpoint and moves
\* the rules of the endpoint on to applied.
AppliedRulesRun == \A e \in Endpoints : MarkerIsTrue(e)

\* The marker is right at every endpoint whose last publication no change of
\* its rules and no other publication met between compiling and marking.
CleanPublicationsMarkRight == \A e \in Endpoints \ overlapped : MarkerIsTrue(e)

\* Nothing runs that an operator did not preview before, and every rule that
\* runs was saved, enabled, for that very endpoint.
OnlyPreviewedRulesRun ==
    \A e \in Endpoints :
        /\ running[e] # {} => \E t \in previews : t.endpoint = e /\ t.after = running[e]
        /\ \A x \in running[e] :
              \E i \in DOMAIN updates :
                  /\ updates[i].rule = x[1]
                  /\ updates[i].spec = x[2]
                  /\ updates[i].state = "enabled"
                  /\ x[2].endpoint = e

\* A runtime document says ready, or keeps a publication time, only after a
\* deployment, and "ready" comes with an artifact that really was deployed.
RecordFollowsDeployment ==
    \A e \in Endpoints :
        /\ record[e].status = "ready" => record[e].artifact \in deploys[e]
        /\ record[e].published => deploys[e] # {}

\* What runs at an endpoint was previewed for it, and its document tells of deployments that
\* took place.
RuntimeIsSound == OnlyPreviewedRulesRun /\ RecordFollowsDeployment
=============================================================================
