----------------------------- MODULE SafeApply -----------------------------
(***************************************************************************)
(* Changing a Kubernetes cluster under confirmation: Preview, Apply,       *)
(* PreviewDelete, Delete and Rollback of deployment.Service, executed by   *)
(* ResourceOperationEngine.                                                *)
(*                                                                         *)
(* A preview dry-runs the documents of a manifest one by one and hands out *)
(* a token, the digest of what each live object was and of what it would   *)
(* become.  An apply dry-runs again, compares the tokens, applies the      *)
(* documents one by one, and then writes inventory, audit and history, one *)
(* document at a time.  There is no transaction and no condition on the    *)
(* writes: other calls and other clients of the cluster come in between,   *)
(* and a call may stop after any step.                                     *)
(*                                                                         *)
(* Permission and the read-only flag are checked on data of other          *)
(* components before anything is written: a refused call is one that does  *)
(* not begin.                                                              *)
(***************************************************************************)
EXTENDS Naturals, Sequences, FiniteSets

CONSTANTS
    Callers,        \* concurrent calls
    Objects,        \* identities of objects in one cluster
    Contents,       \* what a document may say about an object
    Manifests,      \* the manifests clients submit: sequences of documents
    Home(_),        \* the namespace object an object lives in, or NoHome
    NoHome,         \* what Home gives for a cluster scoped object
    Gone,           \* the content of an object that is not there
    MaxRevision,    \* bound: changes of the cluster
    MaxCalls        \* bound: calls begun

Documents == [object : Objects, content : Contents]

ASSUME DocumentsAssumption ==
    /\ Gone \notin Contents
    /\ \A o \in Objects : Home(o) \in Objects \cup {NoHome}
    /\ \A m \in Manifests :
          /\ m \in Seq(Documents) /\ Len(m) > 0
          /\ \A i, j \in 1 .. Len(m) : m[i].object = m[j].object => i = j
ASSUME RevisionBounds == MaxRevision \in Nat /\ MaxCalls \in Nat

VARIABLES
    cluster,        \* cluster[o]: the live object
    revision,       \* the cluster's newest resourceVersion
    inventory,      \* inventory[o]: the content NovaAPM last recorded, or Gone
    audits,         \* audit events in the order they were recorded
    history,        \* deployment history records
    issued,         \* confirmation tokens handed out
    calls,          \* calls[c]: the request c is executing
    begun,          \* calls begun so far
    disturbed,      \* history: disturbed[c], objects others changed during the call
    written,        \* history: what apply and delete calls did to the cluster
    agreed          \* history: objects whose record was made undisturbed

vars == <<cluster, revision, inventory, audits, history, issued, calls, begun,
          disturbed, written, agreed>>

-----------------------------------------------------------------------------
(* A live object: its resourceVersion and content.                         *)

Absent == [revision |-> 0, content |-> Gone]
Existing == { o \in Objects : cluster[o] # Absent }

\* A plan says of each object which live state becomes which content; the
\* digests of a plan (its ID and its token) stand for the plan.
Diff(o, before, after) == [object |-> o, before |-> before, after |-> after]
Diffs == [object : Objects, before : Nat, after : Contents \cup {Gone}]

\* buildDeletePlan looks at the request only: object and UID, not the cluster.
DeletePlan(o, uid) == {Diff(o, uid, Gone)}

Idle == [op |-> "none"]
Ops == {"apply", "delete", "preview", "rollback"}
Phases == {"dryrun", "write", "inventory", "history"}
Deletions == { <<[object |-> o, content |-> Gone]>> : o \in Objects }

\* docs: the documents, a deletion being one document of content Gone;
\* next: the document the call is at; plan: the plan so far, later what of it
\* the inventory lacks; token: the plan the client confirms; audit: the audit
\* event of the call.
Requests == [op : Ops, phase : Phases, docs : Manifests \cup Deletions,
             next : Nat, plan : SUBSET Diffs, token : SUBSET Diffs, audit : Nat]

Request(op, phase, docs, plan, token) ==
    [op |-> op, phase |-> phase, docs |-> docs, next |-> 1, plan |-> plan,
     token |-> token, audit |-> 0]

ObjectsOf(m) == { m[i].object : i \in 1 .. Len(m) }
At(c, phase) == calls[c] # Idle /\ calls[c].phase = phase
Done(q) == q.next > Len(q.docs)
Here(q) == q.docs[q.next]

Init ==
    /\ cluster = [o \in Objects |-> Absent]
    /\ revision = 0
    /\ inventory = [o \in Objects |-> Gone]
    /\ audits = <<>>
    /\ history = <<>>
    /\ issued = {}
    /\ calls = [c \in Callers |-> Idle]
    /\ begun = 0
    /\ disturbed = [c \in Callers |-> {}]
    /\ written = {}
    /\ agreed = {}

-----------------------------------------------------------------------------
(* Beginning and ending a call.                                            *)

Begin(c, q) ==
    /\ calls[c] = Idle /\ begun < MaxCalls
    /\ begun' = begun + 1
    /\ calls' = [calls EXCEPT ![c] = q]
    /\ UNCHANGED <<cluster, revision, inventory, audits, history, issued, disturbed,
                   written, agreed>>

End(c) ==
    /\ calls' = [calls EXCEPT ![c] = Idle]
    /\ disturbed' = [disturbed EXCEPT ![c] = {}]

PreviewBegins(c) ==
    \E m \in Manifests : Begin(c, Request("preview", "dryrun", m, {}, {}))

ApplyBegins(c) ==
    \E m \in Manifests, t \in issued : Begin(c, Request("apply", "dryrun", m, {}, t))

\* matchingDeleteConfirmation: object and UID are those of the preview.
DeleteBegins(c) ==
    \E o \in Objects, uid \in 1 .. revision :
        /\ DeletePlan(o, uid) \in issued
        /\ Begin(c, Request("delete", "write", <<[object |-> o, content |-> Gone]>>,
                            DeletePlan(o, uid), DeletePlan(o, uid)))

\* historyRecordExists: a record names the first object of its call.
RollbackBegins(c) ==
    \E k \in DOMAIN history :
        Begin(c, Request("rollback", "inventory",
                         <<[object |-> history[k].object, content |-> Gone]>>, {}, {}))

\* Any error or crash: what was done so far stays done.
Fail(c) ==
    /\ calls[c] # Idle
    /\ End(c)
    /\ UNCHANGED <<cluster, revision, inventory, audits, history, issued, begun,
                   written, agreed>>

-----------------------------------------------------------------------------
(* The dry run, and what becomes of its plan.                              *)

\* PreviewApply for one document.  A dry run against a namespace that is not
\* there is put off when any document of the manifest creates the namespace.
DryRunDocument(c) ==
    LET q == calls[c]
        d == Here(q)
    IN  /\ At(c, "dryrun") /\ ~Done(q)
        /\ Home(d.object) \in {NoHome} \cup Existing \cup ObjectsOf(q.docs)
        /\ calls' = [calls EXCEPT
               ![c].next = @ + 1,
               ![c].plan = @ \cup {Diff(d.object, cluster[d.object].revision, d.content)}]
        /\ UNCHANGED <<cluster, revision, inventory, audits, history, issued, begun,
                       disturbed, written, agreed>>

RecordPreview(c) ==
    /\ At(c, "dryrun") /\ calls[c].op = "preview" /\ Done(calls[c])
    /\ audits' = Append(audits, [action |-> "preview", docs |-> calls[c].docs])
    /\ issued' = issued \cup {calls[c].plan}
    /\ End(c)
    /\ UNCHANGED <<cluster, revision, inventory, history, begun, written, agreed>>

\* The preview of a deletion is one step: it asks nothing of the cluster.
PreviewDelete(c) ==
    /\ calls[c] = Idle /\ begun < MaxCalls
    /\ begun' = begun + 1
    /\ \E o \in Objects, uid \in 1 .. revision :
          /\ issued' = issued \cup {DeletePlan(o, uid)}
          /\ audits' = Append(audits, [action |-> "delete_preview",
                                       docs |-> <<[object |-> o, content |-> Gone]>>])
    /\ UNCHANGED <<cluster, revision, inventory, history, calls, disturbed, written, agreed>>

\* MUTANT: the token is not compared.
ConfirmAnything(c) ==
    /\ At(c, "dryrun") /\ calls[c].op = "apply" /\ Done(calls[c])
    /\ calls' = [calls EXCEPT ![c].phase = "write", ![c].next = 1]
    /\ UNCHANGED <<cluster, revision, inventory, audits, history, issued, begun,
                   disturbed, written, agreed>>

\* matchingConfirmation: a different plan ends the call (Fail).
Confirm(c) ==
    /\ At(c, "dryrun") /\ calls[c].op = "apply" /\ Done(calls[c])
    /\ calls[c].plan = calls[c].token
    /\ calls' = [calls EXCEPT ![c].phase = "write", ![c].next = 1]
    /\ UNCHANGED <<cluster, revision, inventory, audits, history, issued, begun,
                   disturbed, written, agreed>>

-----------------------------------------------------------------------------
(* Writing to the cluster.  No write is conditional on what was previewed: *)
(* an apply names no resourceVersion, a deletion no UID.                   *)

\* The cluster's side of a change of o, made behind the back of the calls rest.
ChangeObject(rest, o, content) ==
    /\ revision < MaxRevision
    /\ revision' = revision + 1
    /\ cluster' = [cluster EXCEPT ![o] =
           IF content = Gone THEN Absent
           ELSE [revision |-> revision', content |-> content]]
    /\ disturbed' = [c \in Callers |->
           IF c \in rest /\ calls[c] # Idle THEN disturbed[c] \cup {o} ELSE disturbed[c]]
    /\ agreed' = agreed \ {o}

\* MUTANT: the inventory is due after the first document.
AdvanceEarly(c) ==
    calls' = [calls EXCEPT ![c].phase = "inventory", ![c].next = @ + 1]

\* The call moves on to its next document, and after the last to the inventory.
Advance(c) ==
    calls' = [calls EXCEPT
        ![c].phase = IF calls[c].next = Len(calls[c].docs) THEN "inventory" ELSE @,
        ![c].next  = @ + 1]

\* Apply for one document; its namespace must be there by now.  Content
\* that is there already is left as it is.
WriteDocument(c) ==
    LET d == Here(calls[c])
    IN  /\ At(c, "write") /\ calls[c].op = "apply"
        /\ Home(d.object) \in {NoHome} \cup Existing
        /\ \/ /\ cluster[d.object].content # d.content
              /\ ChangeObject(Callers \ {c}, d.object, d.content)
           \/ /\ cluster[d.object].content = d.content
              /\ UNCHANGED <<cluster, revision, disturbed, agreed>>
        /\ written' = written \cup {d}
        /\ Advance(c)
        /\ UNCHANGED <<inventory, audits, history, issued, begun>>

DeleteObject(c) ==
    LET d == Here(calls[c])
    IN  /\ At(c, "write") /\ calls[c].op = "delete"
        /\ d.object \in Existing
        /\ ChangeObject(Callers \ {c}, d.object, Gone)
        /\ written' = written \cup {d}
        /\ Advance(c)
        /\ UNCHANGED <<inventory, audits, history, issued, begun>>

\* Somebody else creates, changes or deletes an object.
OthersChange(o) ==
    \E content \in (Contents \cup {Gone}) \ {cluster[o].content} :
        /\ ChangeObject(Callers, o, content)
        /\ UNCHANGED <<inventory, audits, history, issued, calls, begun, written>>

-----------------------------------------------------------------------------
(* Inventory, audit and history, after the cluster.                        *)

\* MUTANT: the inventory of a deleted object stays.
KeepInventory(c) ==
    /\ At(c, "inventory")
    /\ \E d \in calls[c].plan :
          /\ inventory' = [inventory EXCEPT ![d.object] = IF d.after = Gone THEN @ ELSE d.after]
          /\ agreed' = IF d.object \in disturbed[c] THEN agreed \ {d.object}
                       ELSE agreed \cup {d.object}
          /\ calls' = [calls EXCEPT ![c].plan = @ \ {d}]
    /\ UNCHANGED <<cluster, revision, audits, history, issued, begun, disturbed, written>>

\* upsertInventory and removeInventory record one resource of the plan after
\* the other, in an order of their own: what the plan says, not what runs.
\* A record that is not there is not missed.
RecordInventory(c) ==
    /\ At(c, "inventory")
    /\ \E d \in calls[c].plan :
          /\ inventory' = [inventory EXCEPT ![d.object] = d.after]
          /\ agreed' = IF d.object \in disturbed[c] THEN agreed \ {d.object}
                       ELSE agreed \cup {d.object}
          /\ calls' = [calls EXCEPT ![c].plan = @ \ {d}]
    /\ UNCHANGED <<cluster, revision, audits, history, issued, begun, disturbed, written>>

ActionOf(q) == CASE q.op = "apply" -> "deploy"
                 [] q.op = "delete" -> "delete"
                 [] OTHER -> "rollback"

\* The audit event names the objects as a whole; a rollback changes nothing else.
RecordAudit(c) ==
    /\ At(c, "inventory") /\ calls[c].plan = {}
    /\ audits' = Append(audits, [action |-> ActionOf(calls[c]), docs |-> calls[c].docs])
    /\ calls' = [calls EXCEPT ![c].phase = "history", ![c].audit = Len(audits')]
    /\ UNCHANGED <<cluster, revision, inventory, history, issued, begun, disturbed,
                   written, agreed>>

\* recordHistory: the first object speaks for the call, the audit event is
\* its revision.
RecordHistory(c) ==
    /\ At(c, "history")
    /\ history' = Append(history, [action |-> ActionOf(calls[c]),
                                   object |-> calls[c].docs[1].object,
                                   revision |-> calls[c].audit])
    /\ End(c)
    /\ UNCHANGED <<cluster, revision, inventory, audits, issued, begun, written, agreed>>

-----------------------------------------------------------------------------
CallStep(c) ==
    \/ PreviewBegins(c) \/ ApplyBegins(c) \/ DeleteBegins(c) \/ RollbackBegins(c)
    \/ PreviewDelete(c) \/ Fail(c)
    \/ DryRunDocument(c) \/ RecordPreview(c) \/ Confirm(c)
    \/ WriteDocument(c) \/ DeleteObject(c) \/ RecordInventory(c)
    \/ RecordAudit(c) \/ RecordHistory(c)

Next == (\E c \in Callers : CallStep(c)) \/ (\E o \in Objects : OthersChange(o))

Spec == Init /\ [][Next]_vars

-----------------------------------------------------------------------------
LiveObjects == [revision : Nat, content : Contents \cup {Gone}]
AuditEvents == [action : {"preview", "delete_preview", "deploy", "delete", "rollback"},
                docs : Manifests \cup Deletions]
HistoryRecords == [action : {"deploy", "delete", "rollback"}, object : Objects, revision : Nat]

\* Every document has the fields the code gives it.
ApplyTypeOK ==
    /\ cluster \in [Objects -> LiveObjects]
    /\ revision \in Nat
    /\ inventory \in [Objects -> Contents \cup {Gone}]
    /\ audits \in Seq(AuditEvents)
    /\ history \in Seq(HistoryRecords)
    /\ issued \subseteq SUBSET Diffs
    /\ calls \in [Callers -> Requests \cup {Idle}]
    /\ begun \in 0 .. MaxCalls
    /\ disturbed \in [Callers -> SUBSET Objects]
    /\ written \subseteq [object : Objects, content : Contents \cup {Gone}]
    /\ agreed \subseteq Objects

\* What an apply is about to overwrite is what a preview showed, and what it
\* writes is what the preview announced, for every object that nobody else
\* changed since the call began: token and second dry run (Apply,
\* history_service.go:255-266) protect against everything that happened
\* between preview and confirmation, and against nothing after it.
PreviewedIsOverwritten ==
    \A c \in Callers :
        At(c, "write") /\ calls[c].op = "apply" =>
            /\ calls[c].token \in issued
            /\ \A i \in calls[c].next .. Len(calls[c].docs) :
                  LET d == calls[c].docs[i]
                  IN  d.object \notin disturbed[c] =>
                          Diff(d.object, cluster[d.object].revision, d.content)
                              \in calls[c].token

\* Inventory and cluster agree on an object after an apply or delete that
\* nobody interfered with, until one of them changes again: the inventory is
\* written from the plan, after the cluster and without looking at it
\* (upsertInventory and removeInventory).
InventoryIsTrue == \A o \in agreed : inventory[o] = cluster[o].content

\* The records are made in the order cluster, inventory, audit, history: an
\* audited deployment or deletion was carried out document by document, and
\* each history record has an audit event of its own (Apply, Delete, Rollback).
RecordsAreBacked ==
    /\ \A k \in DOMAIN audits : audits[k].action \in {"deploy", "delete"} =>
          \A i \in DOMAIN audits[k].docs : audits[k].docs[i] \in written
    /\ \A h \in DOMAIN history :
          /\ history[h].revision \in DOMAIN audits
          /\ audits[history[h].revision].action = history[h].action
          /\ audits[history[h].revision].docs[1].object = history[h].object
          /\ \A k \in DOMAIN history : history[k].revision = history[h].revision => k = h
=============================================================================
