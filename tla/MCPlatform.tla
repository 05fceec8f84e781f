------------------------------ MODULE MCPlatform ------------------------------
(***************************************************************************)
(* The sequential and small parts of the platform, one in focus per           *)
(* behaviour; the others keep their initial state.                           *)
(***************************************************************************)
EXTENDS TLC, Stores, AccessGrants, AccessControl, MetricsSources, Onboarding, Renderings,
        ServiceCatalog, NotificationPolicies

CONSTANTS i1, i2, i3, lower, upper, other, full,    \* stores
          root, u1, g1, c1, c2,                     \* access
          v1, v2,                                   \* metrics
          sv, nb                                    \* collector sources: a service and another

VARIABLE focus

MCFold == [k \in {lower, upper, other} |-> IF k = upper THEN lower ELSE k]

MCAdmin == [id |-> [name |-> "platform-admin", ids |-> {}],
            permissions |-> Perms("platform.iam", {"manage"}, "global")]
MCRoles == {MCAdmin}
MCLegacy == {MCAdmin.id}
MCScopes == {Scope(TRUE, "", {}, FALSE)}
MCRequests == {GrantRequest({"k8s.deploy:apply"}, "east", {"a"}, FALSE, FALSE, FALSE)}
\* One text: a variable that must be given, and an optional one that is repeated.
MCBodies == {[text |-> <<"b", "a", "b">>, required |-> {"a"}]}
MCSubstitutions ==
    {[a |-> <<"t">>], [a |-> <<"b">>, b |-> <<"t">>], [a |-> <<"t">>, b |-> <<>>], [b |-> <<>>]}

\* The other service is in one of the groups, parsed and enriched.
Neighbour(kind, statement) ==
    [service |-> nb, group |-> i1, enabled |-> TRUE,
     document |-> [processors |-> [n \in {[kind |-> kind, service |-> nb]} |-> <<statement>>],
                   chain |-> <<[kind |-> kind, service |-> nb]>>]]
MCNeighbours ==
    [enrichment |-> {Neighbour("transform/enrich", <<"enrich", nb>>)},
     pipelines  |-> {Neighbour("transform/parser", <<"merge", "json">>)}]
MCRule(mode, enabled, fits) ==
    [mode |-> mode, enabled |-> enabled, matches |-> fits, legacy |-> NoMapping,
     attributes |-> NoMapping, resources |-> NoMapping, ottl |-> <<>>, sample |-> <<"x", "y">>,
     nested |-> NoMapping]
\* One with mappings of both forms, two of them of a field inside an object, whose sample has a
\* field and a path of one name; and one that is disabled.
MCParserRules ==
    {[MCRule("json", TRUE, TRUE) EXCEPT !.legacy = (1 :> 5) @@ (2 :> 6) @@ (7 :> 8),
                                        !.attributes = 1 :> 4, !.resources = (2 :> 3) @@ (7 :> 9),
                                        !.nested = (1 :> "v") @@ (7 :> "z")],
     [MCRule("regex", FALSE, TRUE) EXCEPT !.ottl = <<<<"ottl">>>>]}
\* A base that is out of order, repeats itself and has a processor of the service.
MCBaseDocuments ==
    LET Batch == [kind |-> "batch", service |-> "-"]
        Own == ProcessorOf("transform/parser")
    IN  {[processors |-> (Batch :> <<>>) @@ (Own :> <<<<"ottl">>>>), chain |-> <<Batch, Own, Batch>>]}

MCServices == {[name |-> n, cmdb |-> "k", status |-> "active"] : n \in {"a", "b"}}
\* Two workloads of one name.
MCWorkloads ==
    LET W(kind, name) == [kind |-> kind, name |-> name]
    IN  {<<W("Deployment", "a"), W("StatefulSet", "a"), W("Deployment", "b")>>}

MCPolicyRequests ==
    LET R(scope, receiver, enabled) == [scope |-> scope, receiver |-> receiver, enabled |-> enabled]
    IN  {R("s", "ops", TRUE), R("all", "ops", FALSE), R("s", "dev", TRUE)}
\* One of two manages the policies of every service.
MCPolicyManagers == {<<root, "s">>, <<root, "all">>, <<u1, "s">>}

MCSymmetry == Permutations({c1, c2}) \cup Permutations({v1, v2})

\* What is not in focus keeps one initial state.
PlatformInit ==
    /\ focus \in {"stores", "grants", "access", "metrics", "onboarding", "templates",
                 "sources", "catalog", "policies"}
    /\ StoresInit /\ (focus # "stores" => collection = "products")
    /\ request \in IF focus = "grants" THEN Requests
                  ELSE {GrantRequest({}, "", {}, FALSE, FALSE, TRUE)}
    /\ AccessInit
    /\ MetricsInit
    /\ OnboardingInit /\ (focus # "onboarding" => \A g \in OnboardGroups : groupState[g] = "inactive")
    /\ TemplatesInit
    /\ SourcesInit
    /\ CatalogInit
    /\ PoliciesInit

\* The variables of the other parts.
OthersStay(part) ==
    /\ part # "stores" => UNCHANGED storeVars
    /\ part # "access" => UNCHANGED accessVars
    /\ part # "metrics" => UNCHANGED metricsVars
    /\ part # "onboarding" => UNCHANGED onboardVars
    /\ part # "templates" => UNCHANGED templateVars
    /\ part # "sources" => UNCHANGED sourceVars
    /\ part # "catalog" => UNCHANGED catalogVars
    /\ part # "policies" => UNCHANGED policyVars

platformVars ==
    <<focus, request, storeVars, accessVars, metricsVars, onboardVars, templateVars,
      sourceVars, catalogVars, policyVars>>

PlatformNext ==
    /\ UNCHANGED <<focus, request>>
    /\ \/ focus = "stores" /\ StoresNext
       \/ focus = "access" /\ AccessNext
       \/ focus = "metrics" /\ MetricsNext
       \/ focus = "onboarding" /\ OnboardingNext
       \/ focus = "templates" /\ TemplatesNext
       \/ focus = "sources" /\ SourcesNext
       \/ focus = "catalog" /\ CatalogNext
       \/ focus = "policies" /\ PoliciesNext
    /\ OthersStay(focus)

PlatformSpec == PlatformInit /\ [][PlatformNext]_platformVars
===============================================================================
