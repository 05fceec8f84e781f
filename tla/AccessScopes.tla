----------------------------- MODULE AccessScopes -----------------------------
(***************************************************************************)
(* What a grant of Kubernetes permissions means: the table of permission    *)
(* IDs, the scope a request for a grant binds them to, when its risk must be  *)
(* accepted (internal/modules/k8sops/platformaccess), and how a decision is   *)
(* made from the permissions and the scope (internal/platform/rbac).         *)
(*                                                                         *)
(* A scope names its namespaces by a set: the single Namespace of a policy    *)
(* stands for the set of it.  "" is an empty field.                          *)
(***************************************************************************)
EXTENDS Naturals, FiniteSets

CONSTANTS
    GrantClusters,     \* cluster IDs
    GrantNamespaces    \* namespaces of a cluster

-------------------------------------------------------------------------------
\* Permissions and the IDs they are granted by

Perms(resource, actions, mode) ==
    {[resource |-> resource, action |-> a, mode |-> mode] : a \in actions}

PermissionIDs ==
    {"k8s.namespace:read", "k8s.resource:read", "k8s.service-account:read",
     "k8s.rbac:read", "k8s.certificate:read", "k8s.namespace:manage",
     "k8s.service-account:manage", "k8s.credential:manage", "k8s.kubeconfig:export",
     "k8s.deploy:apply", "k8s.deploy:delete", "k8s.deploy:rollback",
     "k8s.certificate:manage", "k8s.terminal:exec", "k8s.rbac:manage",
     "k8s.cluster-rbac:read", "k8s.cluster-rbac:manage", "k8s.template:manage"}

Expansion == [id \in PermissionIDs |->
    CASE id = "k8s.namespace:read" -> Perms("k8s.namespace", {"read"}, "cluster")
      [] id = "k8s.resource:read" -> Perms("k8s.resource", {"read"}, "namespace")
      [] id = "k8s.service-account:read" -> Perms("k8s.service-account", {"read"}, "namespace")
      [] id = "k8s.rbac:read" -> Perms("k8s.rbac", {"read"}, "namespace")
      [] id = "k8s.certificate:read" -> Perms("k8s.certificate", {"read"}, "namespace")
      [] id = "k8s.namespace:manage" ->
               Perms("k8s.namespace", {"read", "create", "delete"}, "cluster")
      [] id = "k8s.service-account:manage" ->
               Perms("k8s.service-account", {"read", "create", "delete"}, "namespace")
      [] id = "k8s.credential:manage" ->
               Perms("k8s.cluster-credential", {"read", "create", "rotate", "rollback"}, "cluster")
      [] id = "k8s.kubeconfig:export" -> Perms("k8s.kubeconfig", {"export"}, "namespace")
      [] id = "k8s.deploy:apply" -> Perms("k8s.deployment", {"preview", "deploy"}, "namespace")
      [] id = "k8s.deploy:delete" -> Perms("k8s.deployment", {"delete"}, "namespace")
      [] id = "k8s.deploy:rollback" -> Perms("k8s.deployment", {"rollback"}, "namespace")
      [] id = "k8s.certificate:manage" ->
               Perms("k8s.certificate", {"read", "create", "delete"}, "namespace")
      [] id = "k8s.terminal:exec" -> Perms("k8s.terminal", {"exec"}, "namespace")
      [] id = "k8s.rbac:manage" ->
               Perms("k8s.rbac", {"read", "create", "update", "delete"}, "namespace")
      [] id = "k8s.cluster-rbac:read" -> Perms("k8s.rbac", {"read"}, "cluster")
      [] id = "k8s.cluster-rbac:manage" ->
               Perms("k8s.rbac", {"read", "create", "update", "delete"}, "cluster")
      [] id = "k8s.template:manage" ->
               Perms("k8s.template", {"create", "update", "delete", "render"}, "global")]

expandPermissionIDs(ids) == UNION {Expansion[id] : id \in ids}

Readings == {"k8s.namespace:read", "k8s.resource:read", "k8s.service-account:read",
             "k8s.rbac:read", "k8s.certificate:read"}

\* The profiles the page offers.
PermissionProfiles == {
    Readings,
    Readings \cup {"k8s.deploy:apply"},
    Readings \cup {"k8s.namespace:manage"},
    {"k8s.namespace:read", "k8s.credential:manage"},
    PermissionIDs \ {"k8s.template:manage"},
    {"k8s.template:manage"}}

\* The IDs a role is listed with: a manage ID hides the read ID of its resource, and the
\* creation and deletion of namespaces have no ID.  (For permissions in the modes of the
\* table.)
\* MUTANT: the permission to roll back is not listed.
ListedWithoutRollback == {"k8s.namespace:read", "k8s.resource:read", "k8s.kubeconfig:export",
                          "k8s.deploy:delete", "k8s.terminal:exec"}

ListedAlone == {"k8s.namespace:read", "k8s.resource:read", "k8s.kubeconfig:export",
                "k8s.deploy:delete", "k8s.deploy:rollback", "k8s.terminal:exec"}
ReadOf ==
    [id \in {"k8s.service-account:manage", "k8s.certificate:manage", "k8s.rbac:manage",
             "k8s.cluster-rbac:manage"} |->
        CASE id = "k8s.service-account:manage" -> "k8s.service-account:read"
          [] id = "k8s.certificate:manage" -> "k8s.certificate:read"
          [] id = "k8s.rbac:manage" -> "k8s.rbac:read"
          [] id = "k8s.cluster-rbac:manage" -> "k8s.cluster-rbac:read"]

Writes(id, permissions) == \E p \in Expansion[id] \cap permissions : p.action # "read"

permissionIDsForPermissions(permissions) ==
    {id \in ListedAlone : Expansion[id] \subseteq permissions}
    \cup {id \in {"k8s.deploy:apply"} :
              Perms("k8s.deployment", {"deploy"}, "namespace") \subseteq permissions}
    \cup {id \in {"k8s.credential:manage", "k8s.template:manage"} :
              \E p \in permissions, q \in Expansion[id] : p.resource = q.resource}
    \cup {id \in DOMAIN ReadOf : Writes(id, permissions)}
    \cup {ReadOf[id] : id \in {i \in DOMAIN ReadOf :
              Expansion[ReadOf[i]] \subseteq permissions /\ ~Writes(i, permissions)}}

-------------------------------------------------------------------------------
\* The scope of a grant

Scope(global, cluster, namespaces, all) ==
    [global |-> global, cluster |-> cluster, namespaces |-> namespaces, all |-> all]

\* Requests as normalizeCreateRequest leaves them: the namespaces are those of
\* effectiveNamespaces.
GrantRequest(ids, cluster, namespaces, all, global, accepted) ==
    [ids |-> ids, cluster |-> cluster, namespaces |-> namespaces, all |-> all,
     global |-> global, accepted |-> accepted]

Needs(permissions, modes) == \E p \in permissions : p.mode \in modes

\* No scope when the request is refused.
bindingScopes(req, permissions) ==
    IF req.global
    THEN {s \in {Scope(TRUE, "", {}, FALSE)} :
             Needs(permissions, {"global"}) /\ ~Needs(permissions, {"cluster", "namespace"})}
    ELSE {s \in {IF ~Needs(permissions, {"namespace"}) THEN Scope(FALSE, req.cluster, {}, FALSE)
                 ELSE IF req.all THEN Scope(FALSE, req.cluster, {}, TRUE)
                 ELSE Scope(FALSE, req.cluster, req.namespaces, FALSE)} :
             /\ ~Needs(permissions, {"global"})
             /\ Needs(permissions, {"cluster", "namespace"}) => req.cluster # ""
             /\ Needs(permissions, {"namespace"}) => req.all \/ req.namespaces # {}}

\* MUTANT: roles of a cluster can be managed without accepting the risk.
clusterWideWithoutRBAC == {"k8s.namespace:manage", "k8s.credential:manage"}

clusterWideHighRisk == {"k8s.namespace:manage", "k8s.credential:manage", "k8s.cluster-rbac:manage"}
highRisk == {"k8s.namespace:manage", "k8s.service-account:manage", "k8s.credential:manage",
             "k8s.kubeconfig:export", "k8s.deploy:apply", "k8s.deploy:delete",
             "k8s.deploy:rollback", "k8s.certificate:manage", "k8s.terminal:exec",
             "k8s.rbac:manage", "k8s.cluster-rbac:manage"}

wideNamespaceGrant(req) == req.all \/ Cardinality(req.namespaces) > 1

needsRiskAcceptance(req) ==
    /\ req.ids \cap highRisk # {}
    /\ wideNamespaceGrant(req) \/ req.ids \cap clusterWideHighRisk # {}

\* The scopes CreateBinding binds a role of the permissions to, none when it refuses.
GrantedScopes(req) ==
    {s \in bindingScopes(req, expandPermissionIDs(req.ids)) :
        req.ids # {} /\ (needsRiskAcceptance(req) => req.accepted)}

-------------------------------------------------------------------------------
\* Decisions

\* asked: [resource, action, cluster, namespace].
scopeAllowed(mode, policy, asked) ==
    \/ policy.global /\ mode \in {"global", "cluster", "namespace"}
    \/ /\ mode \in {"cluster", "namespace"}
       /\ policy.cluster # "" /\ policy.cluster = asked.cluster
       /\ mode = "namespace" => /\ asked.namespace # ""
                                /\ policy.all \/ asked.namespace \in policy.namespaces

matches(pattern, value) == pattern = "*" \/ pattern = value

Permits(permissions, policy, asked) ==
    \E p \in permissions :
        /\ matches(p.resource, asked.resource)
        /\ matches(p.action, asked.action)
        /\ scopeAllowed(p.mode, policy, asked)
===============================================================================
