----------------------------- MODULE AccessControl -----------------------------
(***************************************************************************)
(* Users, groups, memberships, roles and bindings (internal/platform/iam),    *)
(* the grants of the Kubernetes access page over the same roles and bindings  *)
(* (internal/modules/k8sops/platformaccess), and the decisions made from them  *)
(* (internal/platform/rbac).  A call checks and reads, then writes document    *)
(* by document without a transaction; calls interleave at every write and any  *)
(* write can fail.                                                           *)
(*                                                                         *)
(* Service accounts are left out: the code treats them as users.  The IDs of    *)
(* memberships and bindings are hashes of what they say, so each is what it    *)
(* says.  (That of a binding made by hand leaves its list of namespaces out: no  *)
(* two of ScopesByHand differ in this only.)  A role is its ID, [name, ids], with its permissions: ids is empty in  *)
(* a role created by name, and the ID of a role of the access page is a hash    *)
(* of the permission IDs.                                                    *)
(***************************************************************************)
EXTENDS AccessScopes

CONSTANTS
    Users, Groups,       \* subjects by type
    Super,               \* the super subjects of the process
    RolesByName,         \* roles callers create: [id, permissions]
    LegacyRoles,         \* IDs of the built-in roles of earlier versions; none in release mode
    ScopesByHand,        \* scopes callers bind roles to
    GrantRequests,       \* what callers ask the access page for
    AccessCalls,         \* concurrent calls
    MaxRoles             \* bound: roles at a time

VARIABLES
    directory,           \* the subjects that have a document
    roles,
    bindings,            \* [subject, role, scope]
    members,             \* [group, member]
    accessCalls,
    removed              \* subjects and role IDs removed while nobody granted them anything,
                         \* and not granted anything since

accessVars == <<directory, roles, bindings, members, accessCalls, removed>>

Subjects == Users \cup Groups
Idle == [does |-> "nothing"]
PageRole(ids) == [id |-> [name |-> "", ids |-> ids], permissions |-> expandPermissionIDs(ids)]

RoleIDs == {r.id : r \in RolesByName} \cup {PageRole(req.ids).id : req \in GrantRequests}

\* A role is not a subject.
ASSUME AccessAssumption == RoleIDs \cap Subjects = {}

TypesOfAccess ==
    /\ directory \subseteq Subjects
    /\ \A b \in bindings : b.subject \in Subjects
    /\ members \subseteq [group : Groups, member : Users]

AccessInit ==
    /\ directory = Super
    /\ roles = {}
    /\ bindings = {}
    /\ members = {}
    /\ accessCalls = [c \in AccessCalls |-> Idle]
    /\ removed = {}

-------------------------------------------------------------------------------
\* Decisions

ResolveSubjects(a) == {m.group : m \in {n \in members : n.member = a}}
subjectsFor(a) == {a} \cup ResolveSubjects(a)

Authorize(a, asked) ==
    \/ subjectsFor(a) \cap Super # {}
    \/ \E b \in bindings, r \in roles :
           /\ b.subject \in subjectsFor(a)
           /\ r.id = b.role
           /\ Permits(r.permissions, b.scope, asked)

GlobalRequest(resource, action) ==
    [resource |-> resource, action |-> action, cluster |-> "", namespace |-> ""]

allowed(a, resource) ==
    \/ Authorize(a, GlobalRequest("platform.iam", "manage"))
    \/ Authorize(a, GlobalRequest(resource, "manage"))

MayGrant(a) == Authorize(a, GlobalRequest("k8s.platform-access", "manage"))

-------------------------------------------------------------------------------
\* What the pages show

SubjectDirectory == directory \cup {b.subject : b \in bindings}

K8sPermissions == expandPermissionIDs(PermissionIDs)
hasK8sPermission(r) == r.permissions \cap K8sPermissions # {}

\* The bindings whose role exists and is about Kubernetes.
PageBindings == {b \in bindings : \E r \in roles : r.id = b.role /\ hasK8sPermission(r)}

-------------------------------------------------------------------------------
\* Calls

Start(c, call) == accessCalls[c].does = "nothing" /\ accessCalls' = [accessCalls EXCEPT ![c] = call]
End(c) == accessCalls' = [accessCalls EXCEPT ![c] = Idle]

Deletes(call) == call.does \in {"delete", "deleteEmptied"}
Grants(call) == call.does \in {"join", "bind", "grantRole", "grant", "audit"}
Touches(call) == IF Grants(call) THEN call.touches ELSE {}

\* A call that grants something to one of them begins: deletions of them that run are no
\* longer alone.
StartGrant(c, call) ==
    /\ accessCalls[c].does = "nothing"
    /\ accessCalls' = [d \in AccessCalls |->
           IF d = c THEN call
           ELSE IF Deletes(accessCalls[d]) /\ accessCalls[d].what \in call.touches
           THEN [accessCalls[d] EXCEPT !.alone = FALSE]
           ELSE accessCalls[d]]
    /\ removed' = removed \ call.touches

Alone(what) == \A d \in AccessCalls : what \notin Touches(accessCalls[d])

RoomFor(id) ==
    Cardinality({r.id : r \in roles} \cup {b.role : b \in bindings} \cup {id}
        \cup {d.doc.role : d \in {e \in {accessCalls[c] : c \in AccessCalls} : Grants(e) /\ e.does # "join"}})
    <= MaxRoles

\* One write, of whatever there was.
CreateUser(a, u) ==
    /\ allowed(a, "platform.user")
    /\ directory' = directory \cup {u}
    /\ UNCHANGED <<roles, bindings, members, accessCalls, removed>>

CreateGroup(a, g) ==
    /\ allowed(a, "platform.group")
    /\ directory' = directory \cup {g}
    /\ UNCHANGED <<roles, bindings, members, accessCalls, removed>>

\* An ID that is given replaces the role of that ID, which keeps its bindings.
CreateRole(a, role) ==
    /\ allowed(a, "platform.role")
    /\ role.permissions # {}
    /\ RoomFor(role.id)
    /\ roles' = {r \in roles : r.id # role.id} \cup {role}
    /\ UNCHANGED <<directory, bindings, members, accessCalls, removed>>

\* The references of the subject are read, then deleted one by one, then its document.
\* MUTANT: the memberships of a removed subject stay.
deleteBindingsOnly(s) ==
    [does |-> "delete", what |-> s, alone |-> Alone(s),
     members |-> {}, bindings |-> {b \in bindings : b.subject = s}]

deleteSubjectReferences(s) ==
    [does |-> "delete", what |-> s, alone |-> Alone(s),
     members |-> {m \in members : m.member = s},
     bindings |-> {b \in bindings : b.subject = s}]

DeleteUser(c, a, u) ==
    /\ allowed(a, "platform.user")
    /\ a # u
    /\ u \in directory
    /\ Start(c, deleteSubjectReferences(u))
    /\ UNCHANGED <<directory, roles, bindings, members, removed>>

DeleteGroup(c, a, g) ==
    /\ allowed(a, "platform.group")
    /\ g \in directory
    /\ Start(c, deleteSubjectReferences(g))
    /\ UNCHANGED <<directory, roles, bindings, members, removed>>

\* MUTANT: the bindings of a removed role stay.
DeleteRoleAlone(c, a, id) ==
    /\ allowed(a, "platform.role")
    /\ \E r \in roles : r.id = id
    /\ Start(c, [does |-> "delete", what |-> id, alone |-> Alone(id), members |-> {}, bindings |-> {}])
    /\ UNCHANGED <<directory, roles, bindings, members, removed>>

DeleteRole(c, a, id) ==
    /\ allowed(a, "platform.role")
    /\ \E r \in roles : r.id = id
    /\ Start(c, [does |-> "delete", what |-> id, alone |-> Alone(id),
                 members |-> {}, bindings |-> {b \in bindings : b.role = id}])
    /\ UNCHANGED <<directory, roles, bindings, members, removed>>

Pending(c) ==
    IF Deletes(accessCalls[c]) THEN accessCalls[c] ELSE [members |-> {}, bindings |-> {}]

DropMember(c, m) ==
    /\ m \in Pending(c).members
    /\ members' = members \ {m}
    /\ accessCalls' = [accessCalls EXCEPT ![c].members = @ \ {m}]
    /\ UNCHANGED <<directory, roles, bindings, removed>>

DropBinding(c, b) ==
    /\ Pending(c).members = {}
    /\ b \in Pending(c).bindings
    /\ bindings' = bindings \ {b}
    /\ accessCalls' = [accessCalls EXCEPT ![c].bindings = @ \ {b}]
    /\ UNCHANGED <<directory, roles, members, removed>>

Unreferenced(c) ==
    /\ Deletes(accessCalls[c])
    /\ Pending(c).members = {}
    /\ Pending(c).bindings = {}

\* DeleteGroup reads the members of the group after its references were deleted.
ListMembershipsByGroup(c) ==
    /\ Unreferenced(c)
    /\ accessCalls[c].does = "delete"
    /\ accessCalls[c].what \in Groups
    /\ accessCalls' = [accessCalls EXCEPT ![c].does = "deleteEmptied",
                           ![c].members = {m \in members : m.group = accessCalls[c].what}]
    /\ UNCHANGED <<directory, roles, bindings, members, removed>>

DropDocument(c) ==
    /\ Unreferenced(c)
    /\ accessCalls[c].what \in Groups => accessCalls[c].does = "deleteEmptied"
    /\ directory' = directory \ {accessCalls[c].what}
    /\ roles' = {r \in roles : r.id # accessCalls[c].what}
    /\ removed' = IF accessCalls[c].alone THEN removed \cup {accessCalls[c].what} ELSE removed
    /\ End(c)
    /\ UNCHANGED <<bindings, members>>

\* A member of a group is a user that exists, the group exists: checked, then saved.
CreateMembership(c, a, g, u) ==
    /\ allowed(a, "platform.group")
    /\ {g, u} \subseteq directory
    /\ StartGrant(c, [does |-> "join", touches |-> {g, u}, doc |-> [group |-> g, member |-> u]])
    /\ UNCHANGED <<directory, roles, bindings, members>>

SaveMembership(c) ==
    /\ accessCalls[c].does = "join"
    /\ members' = members \cup {accessCalls[c].doc}
    /\ End(c)
    /\ UNCHANGED <<directory, roles, bindings, removed>>

DeleteMembership(a, m) ==
    /\ allowed(a, "platform.group")
    /\ m \in members
    /\ members' = members \ {m}
    /\ UNCHANGED <<directory, roles, bindings, accessCalls, removed>>

CreateBinding(c, a, s, id, scope) ==
    /\ allowed(a, "platform.binding")
    /\ s \in directory
    /\ \E r \in roles : r.id = id
    /\ StartGrant(c, [does |-> "bind", touches |-> {s, id},
                      doc |-> [subject |-> s, role |-> id, scope |-> scope]])
    /\ UNCHANGED <<directory, roles, bindings, members>>

SaveBinding(c) ==
    /\ accessCalls[c].does \in {"bind", "grant"}
    /\ bindings' = bindings \cup {accessCalls[c].doc}
    /\ IF accessCalls[c].does = "bind" THEN End(c)
       ELSE accessCalls' = [accessCalls EXCEPT ![c].does = "audit"]
    /\ UNCHANGED <<directory, roles, members, removed>>

DeleteBinding(a, b) ==
    /\ allowed(a, "platform.binding")
    /\ b \in bindings
    /\ bindings' = bindings \ {b}
    /\ UNCHANGED <<directory, roles, members, accessCalls, removed>>

\* Every request has one scope, so one binding.
GrantAccess(c, a, s, req) ==
    /\ MayGrant(a)
    /\ s \in SubjectDirectory
    /\ RoomFor(PageRole(req.ids).id)
    /\ \E scope \in GrantedScopes(req) :
           StartGrant(c, [does |-> "grantRole", touches |-> {s, PageRole(req.ids).id},
                          doc |-> [subject |-> s, role |-> PageRole(req.ids).id, scope |-> scope]])
    /\ UNCHANGED <<directory, roles, bindings, members>>

SaveGrantedRole(c) ==
    /\ accessCalls[c].does = "grantRole"
    /\ LET role == PageRole(accessCalls[c].doc.role.ids)
       IN  roles' = {r \in roles : r.id # role.id} \cup {role}
    /\ accessCalls' = [accessCalls EXCEPT ![c].does = "grant"]
    /\ UNCHANGED <<directory, bindings, members, removed>>

\* A grant that cannot be audited is taken back, an earlier one of the same with it.
AuditGrant(c, audited, takenBack) ==
    /\ accessCalls[c].does = "audit"
    /\ bindings' = IF ~audited /\ takenBack THEN bindings \ {accessCalls[c].doc} ELSE bindings
    /\ End(c)
    /\ UNCHANGED <<directory, roles, members, removed>>

RevokeAccess(a, b) ==
    /\ MayGrant(a)
    /\ b \in PageBindings
    /\ bindings' = bindings \ {b}
    /\ UNCHANGED <<directory, roles, members, accessCalls, removed>>

\* A write fails: the call ends with what it has written.
Fail(c) ==
    /\ accessCalls[c].does \notin {"nothing", "audit"}
    /\ End(c)
    /\ UNCHANGED <<directory, roles, bindings, members, removed>>

\* The process starts again: it removes the roles of earlier versions and their bindings,
\* and saves the user of its super subject.
Restart ==
    /\ accessCalls' = [c \in AccessCalls |-> Idle]
    /\ bindings' = {b \in bindings : b.role \notin LegacyRoles}
    /\ roles' = {r \in roles : r.id \notin LegacyRoles}
    /\ directory' = directory \cup Super
    /\ UNCHANGED <<members, removed>>

AccessSteps(c) ==
    \/ \E m \in Pending(c).members : DropMember(c, m)
    \/ \E b \in Pending(c).bindings : DropBinding(c, b)
    \/ ListMembershipsByGroup(c)
    \/ DropDocument(c)
    \/ SaveMembership(c)
    \/ SaveBinding(c)
    \/ SaveGrantedRole(c)
    \/ \E audited, takenBack \in BOOLEAN : AuditGrant(c, audited, takenBack)
    \/ Fail(c)

\* Requests of one write, and the others.
AccessWrites(a) ==
    \/ \E u \in Users \ Super : CreateUser(a, u)
    \/ \E g \in Groups : CreateGroup(a, g)
    \/ \E r \in RolesByName : CreateRole(a, r)
    \/ \E m \in members : DeleteMembership(a, m)
    \/ \E b \in bindings : DeleteBinding(a, b) \/ RevokeAccess(a, b)

AccessRequests(c, a) ==
    \/ \E u \in Users \ Super : DeleteUser(c, a, u)
    \/ \E g \in Groups : DeleteGroup(c, a, g)
    \/ \E r \in roles : DeleteRole(c, a, r.id)
    \/ \E g \in Groups, u \in Users \ Super : CreateMembership(c, a, g, u)
    \/ \E s \in Subjects \ Super, r \in roles, scope \in ScopesByHand : CreateBinding(c, a, s, r.id, scope)
    \/ \E s \in Subjects \ Super, req \in GrantRequests : GrantAccess(c, a, s, req)

AccessNext ==
    \/ \E a \in Users : AccessWrites(a)
    \/ \E c \in AccessCalls : AccessSteps(c)
    \/ \E c \in {d \in AccessCalls : accessCalls[d].does = "nothing"}, a \in Users : AccessRequests(c, a)
    \/ Restart

AccessSpec == AccessInit /\ [][AccessNext]_accessVars

-------------------------------------------------------------------------------
\* Whoever is created under the name of a subject that was removed while nobody was
\* granting it anything starts with nothing: no binding, no membership, no member.
\* (The deletes follow one another without a transaction, the group's members are read
\* late, and calls fail half-way.)
NamesakeStartsWithNothing ==
    \A s \in removed \cap Subjects :
        /\ \A b \in bindings : b.subject # s
        /\ \A m \in members : m.member # s /\ m.group # s

\* Nor does a role created under the ID of a removed one reach anybody.
RoleStartsUnbound ==
    \A id \in removed \ Subjects : \A b \in bindings : b.role # id

\* What is created under the name of something removed starts without its grants.
NothingIsInherited == NamesakeStartsWithNothing /\ RoleStartsUnbound
===============================================================================
