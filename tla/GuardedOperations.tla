--------------------------- MODULE GuardedOperations ---------------------------
(***************************************************************************)
(* The pages that create, change and delete single objects of a cluster:      *)
(* roles, bindings, service accounts, namespaces and certificates             *)
(* (internal/modules/k8sops/rbac, serviceaccount, namespace, certificate).     *)
(* They share one pattern: check, write through the Kubernetes API, record an  *)
(* audit event, and take the write back when that fails, ignoring errors.      *)
(* One object is modelled, as far as its page shows it; labels and fields the  *)
(* page does not know are lost whenever it writes.  Requests without           *)
(* permission, and malformed ones, change nothing and are left out.           *)
(* A namespace that is deleted stays, terminating, until its controller has     *)
(* removed what is in it; objects of the other kinds are taken to have no       *)
(* finalizers, and go at once.                                                 *)
(***************************************************************************)
EXTENDS Naturals

CONSTANTS
    OpCallers,       \* concurrent requests
    ObjectContents,  \* what an object of the kind says
    Ruleless,        \* the contents of roles that cannot be written from a page: without rules
    NoObject,
    MaxUIDs          \* bound: objects of the name, one after the other

ASSUME OperationsAssumption ==
    /\ NoObject \notin ObjectContents
    /\ NoObject \notin [uid : Nat, says : ObjectContents, ending : BOOLEAN]
    /\ Ruleless \subseteq ObjectContents
    /\ MaxUIDs \in Nat

VARIABLES
    opKind,          \* the kind of the object
    live,            \* the object in the cluster: [uid, says, ending], ending while terminating
    lastUID,
    readOnly,        \* the cluster's policy
    opCalls,
    deletions        \* the UIDs of audited deletions

opVars == <<opKind, live, lastUID, readOnly, opCalls, deletions>>

-------------------------------------------------------------------------------
\* The services and the repositories they write through

\* finds: creation looks for the object first; updates: there is an update.
Roles == {"finds", "updates"}
RoleBindings == {"finds"}
ServiceAccounts == {}
NamespaceObjects == {}
Certificates == {}

\* upserts: an object that is there is replaced; demands: it wants rules; keyless: what the
\* repository returns cannot be created again, for its private key is missing; lingers: what
\* is deleted terminates first.
RoleRepository == {"upserts", "demands"}
RoleBindingRepository == {"upserts"}
ServiceAccountRepository == {}
NamespaceRepository == {"lingers"}
CertificateRepository == {"keyless"}

Kinds == [
    role           |-> [service |-> Roles, repository |-> RoleRepository],
    binding        |-> [service |-> RoleBindings, repository |-> RoleBindingRepository],
    serviceAccount |-> [service |-> ServiceAccounts, repository |-> ServiceAccountRepository],
    namespace      |-> [service |-> NamespaceObjects, repository |-> NamespaceRepository],
    certificate    |-> [service |-> Certificates, repository |-> CertificateRepository]]

Kind == Kinds[opKind]

\* What a page may ask for, what other clients may (only a role can be without rules), and
\* what the repository accepts of what it has returned.
Writable == ObjectContents \ Ruleless
Sayings == IF "demands" \in Kind.repository THEN ObjectContents ELSE Writable
Returnable == IF "keyless" \in Kind.repository THEN {} ELSE Writable

-------------------------------------------------------------------------------
\* Calls.  op is the repository call under way: upsert, create or delete.

Putting == IF "upserts" \in Kind.repository THEN "upsert" ELSE "create"
FirstPhase(op) == IF op = "create" THEN "write" ELSE "get"

Shows(object) == IF object = NoObject THEN NoObject ELSE object.says

\* A terminating object is shown, but does not stand.
Stands(object) == IF object = NoObject \/ object.ending THEN NoObject ELSE object.says

\* says is what the call is to leave (NoObject: nothing), before what stood when it began.
\* A call that was cut short, or met another writer, is disturbed: nothing is said of it.
NoCall == [does |-> "nothing", op |-> "", says |-> NoObject, uid |-> 0, before |-> NoObject,
           found |-> NoObject, seen |-> NoObject, phase |-> "ended", undoing |-> FALSE,
           fresh |-> FALSE, disturbed |-> TRUE]

OperationsInit ==
    /\ opKind \in DOMAIN Kinds
    /\ live = NoObject
    /\ lastUID = 0
    /\ readOnly = FALSE
    /\ opCalls = [c \in OpCallers |-> NoCall]
    /\ deletions = {}

Moves(c, call) ==
    /\ opCalls' = [opCalls EXCEPT ![c] = call]
    /\ UNCHANGED <<live, lastUID>>

\* A write of the object, of caller c or of nobody: all other calls are disturbed.
Store(c, object, call) ==
    /\ live' = object
    /\ lastUID' = IF object # NoObject /\ object.uid > lastUID THEN object.uid ELSE lastUID
    /\ opCalls' = [d \in OpCallers |->
           CASE d = c -> call
             [] d # c /\ opCalls[d].phase = "ended" -> NoCall
             [] OTHER -> [opCalls[d] EXCEPT !.disturbed = TRUE, !.fresh = FALSE,
                                              !.before = NoObject]]

\* What is kept of a call that ended without an audit event.
Ended(call) ==
    IF call.disturbed THEN NoCall
    ELSE [NoCall EXCEPT !.before = call.before, !.says = call.says, !.disturbed = FALSE]

\* Whoever deletes an object is another writer until it is gone.
FreshCall == [NoCall EXCEPT !.before = Stands(live),
                            !.disturbed = live # NoObject /\ live.ending]

BeginOperation(c, call) ==
    /\ opCalls[c].phase = "ended"
    /\ ~readOnly
    /\ Moves(c, call)
    /\ UNCHANGED <<opKind, readOnly, deletions>>

CreateObject(c, says) ==
    BeginOperation(c, [FreshCall EXCEPT !.does = "create", !.op = Putting, !.says = says,
              !.phase = IF "finds" \in Kind.service THEN "find" ELSE FirstPhase(Putting)])

UpdateObject(c, says) ==
    /\ "updates" \in Kind.service
    /\ BeginOperation(c, [FreshCall EXCEPT !.does = "update", !.op = Putting, !.says = says,
                                          !.phase = "find"])

\* The UID is one the page showed some time.
RemoveObject(c, uid) ==
    BeginOperation(c, [FreshCall EXCEPT !.does = "delete", !.op = "delete", !.uid = uid,
                                        !.phase = "get"])

\* Creation refuses an object that is there, an update one that is not.
Find(c) ==
    /\ opCalls[c].phase = "find"
    /\ LET call == opCalls[c]
       IN  Moves(c, IF (live = NoObject) = (call.does = "create")
                    THEN [call EXCEPT !.found = Shows(live), !.phase = FirstPhase(call.op)]
                    ELSE Ended(call))
    /\ UNCHANGED <<opKind, readOnly, deletions>>

\* MUTANT: a deletion is recorded as soon as its object was found.
GetRecords(c) ==
    /\ opCalls[c].phase = "get"
    /\ LET call == opCalls[c]
       IN  Moves(c, IF call.op = "delete" /\ (live = NoObject \/ live.uid # call.uid)
                    THEN Ended(call)
                    ELSE [call EXCEPT !.seen = Shows(live), !.fresh = TRUE,
                                      !.phase = IF call.op = "delete" THEN "audit" ELSE "write"])
    /\ UNCHANGED <<opKind, readOnly, deletions>>

\* Deletion compares the UID of what it gets with the one asked for.
Get(c) ==
    /\ opCalls[c].phase = "get"
    /\ LET call == opCalls[c]
       IN  Moves(c, IF call.op = "delete" /\ (live = NoObject \/ live.uid # call.uid)
                    THEN Ended(call)
                    ELSE [call EXCEPT !.seen = Shows(live), !.fresh = TRUE, !.phase = "write"])
    /\ UNCHANGED <<opKind, readOnly, deletions>>

\* What is there after a deletion, which is answered at once.
Deleted(object) ==
    IF "lingers" \in Kind.repository THEN [object EXCEPT !.ending = TRUE] ELSE NoObject

\* What the call would write now.
Content(call) == IF call.undoing THEN call.found ELSE call.says

\* What the API makes of the write, none when it refuses: an update needs the version that
\* was read, a creation the name free, and a deletion takes whatever has the name.
Outcomes(call) ==
    CASE call.op = "delete" -> {Deleted(object) : object \in {live} \ {NoObject}}
      [] call.op = "upsert" /\ call.seen # NoObject ->
             {[live EXCEPT !.says = Content(call)] : x \in {TRUE} \cap {call.fresh}}
      [] OTHER -> {[uid |-> lastUID + 1, says |-> Content(call), ending |-> FALSE] : x \in {live} \cap {NoObject}}

AfterWrite(call, object) ==
    IF call.undoing THEN Ended(call)
    ELSE [call EXCEPT !.phase = "audit", !.uid = IF call.op = "delete" THEN @ ELSE object.uid]

Write(c) ==
    /\ opCalls[c].phase = "write"
    /\ \/ \E object \in Outcomes(opCalls[c]) :
              /\ object # NoObject => object.uid <= MaxUIDs
              /\ Store(c, object, AfterWrite(opCalls[c], object))
       \/ Outcomes(opCalls[c]) = {} /\ Moves(c, Ended(opCalls[c]))
    /\ UNCHANGED <<opKind, readOnly, deletions>>

\* The write is carried out, but its answer is lost.
WriteUnanswered(c) ==
    /\ opCalls[c].phase = "write"
    /\ \E object \in Outcomes(opCalls[c]) :
           /\ object # NoObject => object.uid <= MaxUIDs
           /\ Store(c, object, NoCall)
    /\ UNCHANGED <<opKind, readOnly, deletions>>

AuditOperation(c) ==
    /\ opCalls[c].phase = "audit"
    /\ Moves(c, NoCall)
    /\ deletions' = IF opCalls[c].does = "delete" THEN deletions \cup {opCalls[c].uid} ELSE deletions
    /\ UNCHANGED <<opKind, readOnly>>

\* MUTANT: an update is not taken back.
UndoLeavesUpdates(call) ==
    CASE call.does = "create" ->
             [call EXCEPT !.op = "delete", !.undoing = TRUE, !.phase = "get"]
      [] call.does = "update" -> Ended(call)
      [] call.does = "delete" /\ call.seen \in Returnable ->
             [call EXCEPT !.op = Putting, !.found = call.seen, !.undoing = TRUE,
                          !.phase = FirstPhase(Putting)]
      [] OTHER -> Ended(call)

\* What takes a call back.  The repository refuses a certificate it has deleted, and a role
\* that had no rules before: then what is written stays.
Undo(call) ==
    CASE call.does = "create" ->
             [call EXCEPT !.op = "delete", !.undoing = TRUE, !.phase = "get"]
      [] call.does = "update" /\ call.found \in Returnable ->
             [call EXCEPT !.undoing = TRUE, !.phase = FirstPhase(call.op)]
      [] call.does = "delete" /\ call.seen \in Returnable ->
             [call EXCEPT !.op = Putting, !.found = call.seen, !.undoing = TRUE,
                          !.phase = FirstPhase(Putting)]
      [] OTHER -> Ended(call)

AuditFails(c) ==
    /\ opCalls[c].phase = "audit"
    /\ Moves(c, Undo(opCalls[c]))
    /\ UNCHANGED <<opKind, readOnly, deletions>>

\* A call of the API fails, or the process stops: what is written stays.
BreakOff(c) ==
    /\ opCalls[c].phase # "ended"
    /\ Moves(c, IF opCalls[c].phase = "audit" \/ opCalls[c].undoing THEN NoCall ELSE Ended(opCalls[c]))
    /\ UNCHANGED <<opKind, readOnly, deletions>>

\* Other clients of the cluster.
OthersWrite(says) ==
    /\ live = NoObject => lastUID < MaxUIDs
    /\ Store("nobody", IF live = NoObject THEN [uid |-> lastUID + 1, says |-> says, ending |-> FALSE]
                         ELSE [live EXCEPT !.says = says], NoCall)
    /\ UNCHANGED <<opKind, readOnly, deletions>>

OthersDelete ==
    /\ live # NoObject
    /\ Store("nobody", Deleted(live), NoCall)
    /\ UNCHANGED <<opKind, readOnly, deletions>>

\* The namespace is empty, and goes.
Finalize ==
    /\ live # NoObject /\ live.ending
    /\ live' = NoObject
    /\ UNCHANGED <<opKind, lastUID, readOnly, opCalls, deletions>>

\* The cluster is saved with another policy.
SetReadOnly ==
    /\ readOnly' = ~readOnly
    /\ UNCHANGED <<opKind, live, lastUID, opCalls, deletions>>

OperationsNext ==
    \/ \E c \in OpCallers :
           \/ \E says \in Writable : CreateObject(c, says) \/ UpdateObject(c, says)
           \/ \E uid \in 1..lastUID : RemoveObject(c, uid)
           \/ Find(c) \/ Get(c) \/ Write(c) \/ WriteUnanswered(c)
           \/ AuditOperation(c) \/ AuditFails(c) \/ BreakOff(c)
    \/ \E says \in Sayings : OthersWrite(says)
    \/ OthersDelete
    \/ Finalize
    \/ SetReadOnly

OperationsSpec == OperationsInit /\ [][OperationsNext]_opVars

-------------------------------------------------------------------------------
\* Calls whose undo may be refused: it would put back what the repository does not take
\* (a certificate, a role without rules), or create a namespace while it terminates.
MayStay(call) ==
    /\ call.before # NoObject
    /\ call.before \notin Returnable \/ (call.says = NoObject /\ "lingers" \in Kind.repository)

\* A call that ended without an audit event has left standing what stood before: the write
\* failed or was taken back, also when the cluster became read-only in between.  Where the
\* undo may be refused, either that, or the whole change stays; nothing else comes of it.
\* Not so when somebody else wrote meanwhile, and when the undo was cut short.
UnrecordedIsUndone ==
    \A c \in OpCallers :
        LET call == opCalls[c]
        IN  call.phase = "ended" /\ ~call.disturbed =>
                \/ Stands(live) = call.before
                \/ MayStay(call) /\ Stands(live) = call.says

\* The object an audited deletion names is gone for good, or is a namespace that still
\* terminates, although deletion by name may meet another object than the one that was
\* compared, and other calls put objects back.
DeletedIsGone == live # NoObject /\ live.uid \in deletions => live.ending

\* What was not audited is taken back where the code can, and what was audited as deleted
\* is gone or going.
OperationsAreSound == UnrecordedIsUndone /\ DeletedIsGone
===============================================================================
