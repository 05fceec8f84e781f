----------------------------- MODULE AccessGrants -----------------------------
(***************************************************************************)
(* The form of the Kubernetes access page: any request it can send, and what  *)
(* the grant made of it authorises and is listed as.                         *)
(***************************************************************************)
EXTENDS AccessScopes

CONSTANT MaxIDs     \* bound: permission IDs of a request that is not a profile

\* A request names finitely many namespaces.
ASSUME GrantsAssumption == IsFiniteSet(GrantNamespaces)

VARIABLE request

FormIDs == {ids \in {{i, j} : i, j \in PermissionIDs} : Cardinality(ids) <= MaxIDs} \cup PermissionProfiles

Requests == {GrantRequest(ids, cluster, namespaces, all, global, accepted) :
                ids \in FormIDs, cluster \in GrantClusters \cup {""},
                namespaces \in SUBSET GrantNamespaces, all, global, accepted \in BOOLEAN}

\* What high-risk permissions allow and no other does.
ActionsOf(ids) == {[resource |-> p.resource, action |-> p.action] : p \in expandPermissionIDs(ids)}
RiskyActions == ActionsOf(highRisk) \ ActionsOf(PermissionIDs \ highRisk)

Places == [cluster : GrantClusters \cup {""}, namespace : GrantNamespaces \cup {""}]
Reached(scope, act) ==
    {place \in Places :
        Permits(expandPermissionIDs(request.ids), scope,
                [resource |-> act.resource, action |-> act.action,
                 cluster |-> place.cluster, namespace |-> place.namespace])}

\* A grant whose risk nobody accepted allows a high-risk action in one namespace at most
\* and nowhere cluster-wide, whatever it is combined with: the table of permissions, the
\* two risk lists, the choice of the scope and the decision agree about that.
UnacceptedGrantsAreNarrow ==
    ~request.accepted =>
        \A scope \in GrantedScopes(request), act \in RiskyActions :
            /\ Cardinality(Reached(scope, act)) <= 1
            /\ \A place \in Reached(scope, act) :
                   place.cluster = request.cluster /\ place.namespace \in request.namespaces

\* The page lists a grant as IDs that, granted again, would allow the same: all but the
\* creation and deletion of namespaces, which it lists as reading them.
ListedAsGranted ==
    request.ids # {} =>
        expandPermissionIDs(permissionIDsForPermissions(expandPermissionIDs(request.ids)))
            = expandPermissionIDs(request.ids)
                  \ Perms("k8s.namespace", {"create", "delete"}, "cluster")

\* What the access page grants and lists: an unaccepted grant is narrow, and a listed one can
\* be granted again.
GrantsAreSound == UnacceptedGrantsAreNarrow /\ ListedAsGranted
===============================================================================
