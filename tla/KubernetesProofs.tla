--------------------------- MODULE KubernetesProofs ---------------------------
(********************************************************************************)
(* What holds of the Kubernetes side for every number of calls, objects,        *)
(* clients and values: safe apply, operations on single objects, credentials of *)
(* clusters, releases of metrics collectors, observability endpoints, the       *)
(* runtime view.  The parts share no state; each has its invariant, the steps   *)
(* that keep it, and its theorems.                                              *)
(********************************************************************************)
EXTENDS SafeApply, GuardedOperations, ClusterCredentials, ManagedCollectors,
        ObservabilityEndpoints, RuntimeTopology, FiniteSetTheorems, WellFoundedInduction, TLAPS

(***************************************************************************)
(* What a confirmation protects and what the records say, for every number *)
(* of calls, objects and manifests.                                        *)
(*                                                                         *)
(* The argument.  What a call knows about an object stays true until       *)
(* somebody else changes the object, which disturbed notes: its plan holds *)
(* the live objects, its documents are in the cluster once written.  So    *)
(* other calls only have to leave undisturbed objects alone (OthersKeep),  *)
(* and each step of a call carries over what it knew by its own text.      *)
(***************************************************************************)

Applies(q) == q.op \in {"apply", "delete"}

\* What the call of c knows, phase by phase.
PlanIsLive(c) ==
    calls[c].phase = "dryrun" =>
        \A i \in 1 .. calls[c].next - 1 :
            LET d == calls[c].docs[i]
            IN  d.object \notin disturbed[c] =>
                    Diff(d.object, cluster[d.object].revision, d.content) \in calls[c].plan

PlanIsOfDocuments(c) ==
    \A d \in calls[c].plan : \E i \in 1 .. Len(calls[c].docs) :
        calls[c].docs[i].object = d.object /\ calls[c].docs[i].content = d.after

TokenIsLive(c) ==
    calls[c].phase = "write" /\ calls[c].op = "apply" =>
        \A i \in calls[c].next .. Len(calls[c].docs) :
            LET d == calls[c].docs[i]
            IN  d.object \notin disturbed[c] =>
                    Diff(d.object, cluster[d.object].revision, d.content) \in calls[c].token

DocumentsRun(c) ==
    /\ calls[c].phase = "write" =>
          \A i \in 1 .. calls[c].next - 1 :
              LET d == calls[c].docs[i]
              IN  /\ d \in written
                  /\ d.object \notin disturbed[c] => cluster[d.object].content = d.content
    /\ calls[c].phase = "inventory" =>
          \A d \in calls[c].plan :
              d.object \notin disturbed[c] => cluster[d.object].content = d.after
    /\ calls[c].phase \in {"inventory", "history"} /\ Applies(calls[c]) =>
          \A i \in 1 .. Len(calls[c].docs) : calls[c].docs[i] \in written

AuditIsOwn(c) ==
    calls[c].phase = "history" =>
        /\ calls[c].audit \in DOMAIN audits
        /\ audits[calls[c].audit].action = ActionOf(calls[c])
        /\ audits[calls[c].audit].docs = calls[c].docs
        /\ \A h \in DOMAIN history : history[h].revision # calls[c].audit

Shape(q) ==
    /\ q.next \in 1 .. Len(q.docs) + 1
    /\ q.op = "delete" => q.docs \in Deletions
    /\ q.phase = "dryrun" => q.op \in {"preview", "apply"}
    /\ q.phase = "write" => Applies(q) /\ q.next <= Len(q.docs)
    /\ q.phase \in {"inventory", "history"} => q.op # "preview"
    /\ q.op = "rollback" => q.plan = {}

Sound(c) ==
    /\ Shape(calls[c])
    /\ calls[c].op = "apply" => calls[c].token \in issued
    /\ PlanIsLive(c)
    /\ PlanIsOfDocuments(c)
    /\ TokenIsLive(c)
    /\ DocumentsRun(c)
    /\ AuditIsOwn(c)

AuditsDiffer ==
    \A c, d \in Callers :
        c # d /\ At(c, "history") /\ At(d, "history") => calls[c].audit # calls[d].audit

SInv ==
    /\ ApplyTypeOK
    /\ \A c \in Callers : calls[c] # Idle => Sound(c)
    /\ AuditsDiffer
    /\ InventoryIsTrue
    /\ RecordsAreBacked

-----------------------------------------------------------------------------
(* Facts about documents and requests.                                     *)

LEMMA DocumentFacts ==
    ASSUME NEW m \in Manifests \cup Deletions
    PROVE  /\ Len(m) \in Nat /\ Len(m) > 0 /\ DOMAIN m = 1 .. Len(m)
           /\ \A i \in 1 .. Len(m) :
                 /\ m[i] \in [object : Objects, content : Contents \cup {Gone}]
                 /\ m[i].object \in Objects
                 /\ m[i].content \in Contents \cup {Gone}
           /\ \A i, j \in 1 .. Len(m) : m[i].object = m[j].object => i = j
<1>1. CASE m \in Manifests
  <2>1. m \in Seq(Documents) /\ Len(m) > 0
    BY <1>1, DocumentsAssumption
  <2>2. \A i, j \in 1 .. Len(m) : m[i].object = m[j].object => i = j
    BY <1>1, DocumentsAssumption
  <2>3. \A i \in 1 .. Len(m) : m[i] \in Documents
    BY <2>1
  <2> QED BY <2>1, <2>2, <2>3 DEF Documents
<1>2. CASE m \in Deletions
  <2>1. PICK o \in Objects : m = <<[object |-> o, content |-> Gone]>>
    BY <1>2 DEF Deletions
  <2> QED BY <2>1
<1> QED BY <1>1, <1>2

LEMMA CallFacts ==
    ASSUME SInv, NEW c \in Callers, calls[c] # Idle
    PROVE  /\ calls[c] \in Requests
           /\ calls[c].docs \in Manifests \cup Deletions
           /\ calls[c].plan \subseteq Diffs
           /\ calls[c].token \subseteq Diffs
           /\ calls[c].next \in Nat /\ calls[c].audit \in Nat
           /\ calls[c].op \in Ops /\ calls[c].phase \in Phases
           /\ Sound(c)
BY DEF SInv, ApplyTypeOK, Requests

LEMMA LiveFacts ==
    ASSUME SInv, NEW o \in Objects
    PROVE  /\ cluster[o].revision \in Nat
           /\ cluster[o].content \in Contents \cup {Gone}
BY DEF SInv, ApplyTypeOK, LiveObjects

\* Other calls: what c knows survives every step that leaves the objects c
\* is not disturbed about alone, and forgets nothing.
LEMMA OthersKeep ==
    ASSUME SInv, NEW c \in Callers, calls[c] # Idle, calls'[c] = calls[c],
           disturbed[c] \subseteq disturbed'[c],
           \A o \in Objects : o \notin disturbed'[c] => cluster'[o] = cluster[o],
           written \subseteq written', issued \subseteq issued',
           \A k \in DOMAIN audits : k \in DOMAIN audits' /\ audits'[k] = audits[k],
           calls[c].phase = "history" =>
               \A h \in DOMAIN history' : history'[h].revision # calls[c].audit
    PROVE  Sound(c)'
<1>a. Sound(c) /\ calls[c].docs \in Manifests \cup Deletions /\ calls[c].plan \subseteq Diffs
  BY CallFacts
<1>b. /\ \A i \in 1 .. Len(calls[c].docs) : calls[c].docs[i].object \in Objects
      /\ Len(calls[c].docs) \in Nat
  BY <1>a, DocumentFacts
<1>1. Shape(calls[c])' /\ (calls[c].op = "apply" => calls[c].token \in issued)'
  BY <1>a DEF Sound, Shape, Applies
<1>c. calls[c].next \in 1 .. Len(calls[c].docs) + 1
  BY <1>a DEF Sound, Shape
<1>0. \A i \in 1 .. calls[c].next - 1 : i \in 1 .. Len(calls[c].docs)
  BY <1>b, <1>c
<1>2. PlanIsLive(c)'
  <2>1. PlanIsLive(c)
    BY <1>a DEF Sound
  <2> QED BY <1>0, <1>b, <2>1 DEF PlanIsLive
<1>3. PlanIsOfDocuments(c)'
  BY <1>a DEF Sound, PlanIsOfDocuments
<1>4. TokenIsLive(c)'
  <2>1. TokenIsLive(c)
    BY <1>a DEF Sound
  <2>2. \A i \in calls[c].next .. Len(calls[c].docs) : calls[c].docs[i].object \in Objects
    BY <1>b, <1>c
  <2> QED BY <2>1, <2>2 DEF TokenIsLive
<1>5. DocumentsRun(c)'
  <2>1. DocumentsRun(c)
    BY <1>a DEF Sound
  <2>2. \A d \in calls[c].plan : d.object \in Objects
    BY <1>a DEF Diffs
  <2>3. calls[c].phase = "write" =>
           \A i \in 1 .. calls[c].next - 1 :
               /\ calls[c].docs[i] \in written'
               /\ calls[c].docs[i].object \notin disturbed'[c] =>
                      cluster'[calls[c].docs[i].object].content = calls[c].docs[i].content
    BY <1>0, <1>b, <2>1 DEF DocumentsRun
  <2>4. calls[c].phase = "inventory" =>
           \A d \in calls[c].plan :
               d.object \notin disturbed'[c] => cluster'[d.object].content = d.after
    BY <2>1, <2>2 DEF DocumentsRun
  <2>5. calls[c].phase \in {"inventory", "history"} /\ Applies(calls[c]) =>
           \A i \in 1 .. Len(calls[c].docs) : calls[c].docs[i] \in written'
    BY <2>1 DEF DocumentsRun
  <2> QED BY <2>3, <2>4, <2>5 DEF DocumentsRun, Applies
<1>6. AuditIsOwn(c)'
  BY <1>a DEF Sound, AuditIsOwn, ActionOf
<1> QED BY <1>1, <1>2, <1>3, <1>4, <1>5, <1>6 DEF Sound

\* A step of c that leaves what the others know.
LEMMA StepKeeps ==
    ASSUME SInv, NEW c \in Callers, ApplyTypeOK',
           calls'[c] # Idle => Sound(c)',
           \A d \in Callers \ {c} :
              /\ calls'[d] = calls[d]
              /\ disturbed[d] \subseteq disturbed'[d]
              /\ calls[d] # Idle =>
                    \A o \in Objects : o \notin disturbed'[d] => cluster'[o] = cluster[o]
              /\ At(d, "history") =>
                    \A h \in DOMAIN history' : history'[h].revision # calls[d].audit,
           written \subseteq written', issued \subseteq issued',
           \A k \in DOMAIN audits : k \in DOMAIN audits' /\ audits'[k] = audits[k],
           AuditsDiffer', InventoryIsTrue', RecordsAreBacked'
    PROVE  SInv'
<1>1. ASSUME NEW d \in Callers, calls'[d] # Idle
      PROVE  Sound(d)'
  <2>1. CASE d = c
    BY <1>1, <2>1
  <2>2. CASE d # c
    BY <1>1, <2>2, OthersKeep DEF At
  <2> QED BY <2>1, <2>2
<1> QED BY <1>1 DEF SInv

\* A step that only changes what c is doing.
LEMMA QuietStep ==
    ASSUME SInv, NEW c \in Callers, NEW q \in Requests \cup {Idle},
           calls' = [calls EXCEPT ![c] = q],
           disturbed' = disturbed \/ disturbed' = [disturbed EXCEPT ![c] = {}],
           begun' \in 0 .. MaxCalls,
           UNCHANGED <<cluster, revision, inventory, audits, history, issued, written, agreed>>,
           q # Idle => Sound(c)' /\ q.phase # "history"
    PROVE  SInv'
<1>1. ApplyTypeOK'
  BY DEF SInv, ApplyTypeOK
<1>2. \A d \in Callers \ {c} : calls'[d] = calls[d] /\ disturbed[d] \subseteq disturbed'[d]
  BY DEF SInv, ApplyTypeOK
<1>3. calls'[c] = q
  BY DEF SInv, ApplyTypeOK
<1>4. AuditsDiffer'
  BY <1>2, <1>3 DEF SInv, AuditsDiffer, At
<1>5. InventoryIsTrue' /\ RecordsAreBacked'
  BY DEF SInv, InventoryIsTrue, RecordsAreBacked
<1>6. \A d \in Callers \ {c} : At(d, "history") =>
          \A h \in DOMAIN history' : history'[h].revision # calls[d].audit
  BY DEF SInv, Sound, AuditIsOwn, At
<1> QED BY <1>1, <1>2, <1>3, <1>4, <1>5, <1>6, StepKeeps

\* A call that begins knows nothing yet.
LEMMA BeginKeeps ==
    ASSUME SInv, NEW c \in Callers, NEW q \in Requests, Begin(c, q),
           q.next = 1, Shape(q), q.op = "apply" => q.token \in issued,
           q.phase = "write" => q.op = "delete",
           \A d \in q.plan : d.object = q.docs[1].object /\ d.after = q.docs[1].content,
           q.phase = "inventory" => q.op = "rollback", q.phase # "history"
    PROVE  SInv'
<1>1. q # Idle
  <2>1. "docs" \in DOMAIN q /\ "docs" \notin DOMAIN Idle
    BY DEF Requests, Idle
  <2> QED BY <2>1
<1>2. calls' = [calls EXCEPT ![c] = q] /\ calls'[c] = q /\ begun' \in 0 .. MaxCalls
  BY RevisionBounds DEF Begin, SInv, ApplyTypeOK
<1>3. Len(q.docs) \in Nat /\ Len(q.docs) > 0
  BY DocumentFacts DEF Requests
<1>4. PlanIsLive(c)' /\ TokenIsLive(c)' /\ DocumentsRun(c)' /\ AuditIsOwn(c)'
  BY <1>2 DEF PlanIsLive, TokenIsLive, DocumentsRun, AuditIsOwn, Shape, Applies
<1>5. PlanIsOfDocuments(c)'
  BY <1>2, <1>3 DEF PlanIsOfDocuments
<1>6. Sound(c)'
  BY <1>2, <1>4, <1>5 DEF Sound, Begin
<1> QED BY <1>1, <1>2, <1>6, QuietStep DEF Begin

LEMMA CallBeginsKeeps ==
    ASSUME SInv, NEW c \in Callers,
           PreviewBegins(c) \/ ApplyBegins(c) \/ DeleteBegins(c) \/ RollbackBegins(c)
    PROVE  SInv'
<1>1. ASSUME NEW m \in Manifests, NEW op \in {"preview", "apply"}, NEW t \in SUBSET Diffs,
             op = "apply" => t \in issued,
             Begin(c, Request(op, "dryrun", m, {}, t))
      PROVE  SInv'
  <2> DEFINE q == Request(op, "dryrun", m, {}, t)
  <2>1. q \in Requests
    BY <1>1 DEF Request, Requests, Ops, Phases
  <2>2. Shape(q) /\ q.next = 1 /\ q.plan = {} /\ q.phase = "dryrun"
          /\ (q.op = "apply" => q.token \in issued)
    BY <1>1, DocumentFacts DEF Request, Shape
  <2> QED BY <1>1, <2>1, <2>2, BeginKeeps
<1>2. ASSUME NEW o \in Objects, NEW op \in {"delete", "rollback"}, NEW phase \in Phases,
             NEW p \in SUBSET Diffs,
             op = "delete" => phase = "write" /\ \A d \in p : d.object = o /\ d.after = Gone,
             op = "rollback" => phase = "inventory" /\ p = {},
             Begin(c, Request(op, phase, <<[object |-> o, content |-> Gone]>>, p, p))
      PROVE  SInv'
  <2> DEFINE m == <<[object |-> o, content |-> Gone]>>
             q == Request(op, phase, m, p, p)
  <2>1. m \in Deletions /\ Len(m) = 1 /\ m[1].object = o /\ m[1].content = Gone
    BY DEF Deletions
  <2>2. q \in Requests
    BY <1>2, <2>1 DEF Request, Requests, Ops
  <2>3. /\ q.next = 1 /\ q.op = op /\ q.phase = phase /\ q.plan = p /\ q.docs = m
    BY DEF Request
  <2> HIDE DEF q, m
  <2>4. Shape(q)
    <3>1. /\ Len(q.docs) = 1 /\ q.next = 1
          /\ q.next \in 1 .. Len(q.docs) + 1 /\ q.next <= Len(q.docs)
      <4>1. Len(q.docs) = 1
        BY <2>1, <2>3, Zenon
      <4>2. q.next = 1
        BY <2>3, Zenon
      <4> QED BY <4>1, <4>2
    <3>2. q.phase # "dryrun" /\ (q.phase = "write" => q.op = "delete")
          /\ (q.op = "rollback" => q.plan = {})
      BY <1>2, <2>3
    <3>3. q.op \in {"delete", "rollback"} /\ q.docs \in Deletions
      BY <1>2, <2>1, <2>3
    <3> QED BY <3>1, <3>2, <3>3 DEF Shape, Applies
  <2>5. Begin(c, q)
    BY <1>2 DEF q, m
  <2>6. \A d \in q.plan : d.object = q.docs[1].object /\ d.after = q.docs[1].content
    BY <1>2, <2>1, <2>3
  <2>7. /\ q.op # "apply" /\ (q.phase = "write" => q.op = "delete")
        /\ (q.phase = "inventory" => q.op = "rollback") /\ q.phase # "history"
    BY <1>2, <2>3
  <2> QED BY <2>2, <2>3, <2>4, <2>5, <2>6, <2>7, BeginKeeps
<1>3. CASE PreviewBegins(c)
  <2>1. PICK m \in Manifests : Begin(c, Request("preview", "dryrun", m, {}, {}))
    BY <1>3 DEF PreviewBegins
  <2> QED BY <1>1, <2>1
<1>4. CASE ApplyBegins(c)
  <2>1. PICK m \in Manifests, t \in issued : Begin(c, Request("apply", "dryrun", m, {}, t))
    BY <1>4 DEF ApplyBegins
  <2>2. t \in SUBSET Diffs
    BY DEF SInv, ApplyTypeOK
  <2> QED BY <1>1, <2>1, <2>2
<1>5. CASE DeleteBegins(c)
  <2>1. PICK o \in Objects, uid \in 1 .. revision :
          Begin(c, Request("delete", "write", <<[object |-> o, content |-> Gone]>>,
                           DeletePlan(o, uid), DeletePlan(o, uid)))
    BY <1>5 DEF DeleteBegins
  <2>2. DeletePlan(o, uid) \in SUBSET Diffs
    BY DEF DeletePlan, Diff, Diffs, SInv, ApplyTypeOK
  <2>3. \A d \in DeletePlan(o, uid) : d.object = o /\ d.after = Gone
    BY DEF DeletePlan, Diff
  <2>4. "write" \in Phases
    BY DEF Phases
  <2> QED BY <1>2, <2>1, <2>2, <2>3, <2>4
<1>6. CASE RollbackBegins(c)
  <2>1. PICK k \in DOMAIN history :
          Begin(c, Request("rollback", "inventory",
                           <<[object |-> history[k].object, content |-> Gone]>>, {}, {}))
    BY <1>6 DEF RollbackBegins
  <2>2. history[k].object \in Objects
    <3>1. history \in Seq(HistoryRecords)
      BY DEF SInv, ApplyTypeOK
    <3>2. history[k] \in HistoryRecords
      BY <3>1
    <3> QED BY <3>2 DEF HistoryRecords
  <2>3. "inventory" \in Phases /\ {} \in SUBSET Diffs
    BY DEF Phases
  <2> QED BY <1>2, <2>1, <2>2, <2>3
<1> QED BY <1>3, <1>4, <1>5, <1>6

LEMMA FailKeeps ==
    ASSUME SInv, NEW c \in Callers, Fail(c)
    PROVE  SInv'
BY QuietStep DEF Fail, End, SInv, ApplyTypeOK

LEMMA DryRunKeeps ==
    ASSUME SInv, NEW c \in Callers, DryRunDocument(c)
    PROVE  SInv'
<1> DEFINE n == calls[c].next
           d == calls[c].docs[n]
           x == Diff(d.object, cluster[d.object].revision, d.content)
           q == [calls[c] EXCEPT !.next = @ + 1, !.plan = @ \cup {x}]
<1>1. /\ calls[c] # Idle /\ calls[c].phase = "dryrun" /\ ~(n > Len(calls[c].docs))
      /\ calls' = [calls EXCEPT ![c].next = @ + 1, ![c].plan = @ \cup {x}]
      /\ UNCHANGED <<cluster, revision, inventory, audits, history, issued, begun,
                     disturbed, written, agreed>>
  BY DEF DryRunDocument, At, Done, Here
<1>2. /\ n \in 1 .. Len(calls[c].docs) /\ Len(calls[c].docs) \in Nat
      /\ d.object \in Objects /\ d.content \in Contents \cup {Gone}
  BY <1>1, CallFacts, DocumentFacts DEF Sound, Shape
<1>3. x \in Diffs
  BY <1>2, LiveFacts DEF Diff, Diffs
<1>4. calls[c] \in Requests
  BY <1>1, CallFacts
<1>5. /\ q \in Requests
      /\ q.phase = "dryrun" /\ q.docs = calls[c].docs /\ q.next = n + 1
      /\ q.plan = calls[c].plan \cup {x} /\ q.op = calls[c].op /\ q.token = calls[c].token
  <2>1. n + 1 \in Nat /\ calls[c].plan \cup {x} \in SUBSET Diffs
    <3>1. n \in Nat /\ calls[c].plan \subseteq Diffs
      BY <1>1, CallFacts
    <3> HIDE DEF x, n
    <3> QED BY <1>3, <3>1
  <2>2. PICK m, p : m = n + 1 /\ p = calls[c].plan \cup {x}
    OBVIOUS
  <2>3. q = [calls[c] EXCEPT !.next = m, !.plan = p]
    BY <2>2
  <2> HIDE DEF x, n, q
  <2>4. q \in Requests
    BY <1>4, <2>1, <2>2, <2>3 DEF Requests
  <2>5. /\ q.phase = calls[c].phase /\ q.docs = calls[c].docs /\ q.next = m
        /\ q.plan = p /\ q.op = calls[c].op /\ q.token = calls[c].token
    BY <1>4, <2>3 DEF Requests
  <2> QED BY <1>1, <2>2, <2>4, <2>5
<1>6. calls' = [calls EXCEPT ![c] = q] /\ calls'[c] = q
  BY <1>1, <1>4 DEF SInv, ApplyTypeOK, Requests
<1> HIDE DEF q
<1>7. Sound(c)
  BY <1>1, CallFacts
<1>8. PlanIsLive(c)'
  <2>1. ASSUME NEW i \in 1 .. n, calls[c].docs[i].object \notin disturbed[c]
        PROVE  Diff(calls[c].docs[i].object, cluster[calls[c].docs[i].object].revision,
                    calls[c].docs[i].content) \in calls[c].plan \cup {x}
    <3>1. CASE i = n
      BY <3>1
    <3>2. CASE i # n
      <4>1. i \in 1 .. n - 1
        BY <1>2, <3>2
      <4>2. PlanIsLive(c)
        BY <1>7 DEF Sound
      <4> QED BY <1>1, <2>1, <4>1, <4>2 DEF PlanIsLive
    <3> QED BY <3>1, <3>2
  <2>2. (n + 1) - 1 = n
    BY <1>2
  <2> HIDE DEF x, n
  <2>3. cluster' = cluster /\ disturbed' = disturbed
    BY <1>1
  <2>4. calls'[c] = q
    BY <1>6
  <2>5. q.docs = calls[c].docs /\ q.next - 1 = n /\ q.plan = calls[c].plan \cup {x}
    BY <1>5, <2>2
  <2>6. \A i \in 1 .. q.next - 1 :
           q.docs[i].object \notin disturbed[c] =>
               Diff(q.docs[i].object, cluster[q.docs[i].object].revision,
                    q.docs[i].content) \in q.plan
    BY <2>1, <2>5
  <2> QED BY <2>3, <2>4, <2>6 DEF PlanIsLive
<1>9. PlanIsOfDocuments(c)'
  <2>1. x.object = d.object /\ x.after = d.content
    BY DEF Diff
  <2>2. PlanIsOfDocuments(c)
    BY <1>7 DEF Sound
  <2>3. \E i \in 1 .. Len(q.docs) : q.docs[i].object = x.object /\ q.docs[i].content = x.after
    BY <1>2, <1>5, <2>1
  <2> HIDE DEF x
  <2> QED BY <1>5, <1>6, <2>2, <2>3 DEF PlanIsOfDocuments
<1>10. Shape(q) /\ (q.op = "apply" => q.token \in issued)
  <2>1. /\ Shape(calls[c]) /\ calls[c].phase = "dryrun"
        /\ calls[c].op = "apply" => calls[c].token \in issued
    BY <1>1, <1>7 DEF Sound
  <2>2. /\ n \in 1 .. Len(calls[c].docs) /\ Len(calls[c].docs) \in Nat
        /\ q.phase = "dryrun" /\ q.docs = calls[c].docs /\ q.next = n + 1
        /\ q.plan = calls[c].plan \cup {x} /\ q.op = calls[c].op /\ q.token = calls[c].token
    BY <1>2, <1>5
  <2> HIDE DEF q, n, d, x
  <2>3. q.next \in 1 .. Len(q.docs) + 1
    BY <2>2
  <2> QED BY <2>1, <2>2, <2>3 DEF Shape, Applies
<1>11. Sound(c)'
  BY <1>1, <1>5, <1>6, <1>8, <1>9, <1>10
  DEF Sound, TokenIsLive, DocumentsRun, AuditIsOwn
<1>12. begun' \in 0 .. MaxCalls
  BY <1>1 DEF SInv, ApplyTypeOK
<1> QED BY <1>1, <1>5, <1>6, <1>11, <1>12, QuietStep

\* The plan of the second dry run is the token, so the token is live.
LEMMA ConfirmKeeps ==
    ASSUME SInv, NEW c \in Callers, Confirm(c)
    PROVE  SInv'
<1> DEFINE q == [calls[c] EXCEPT !.phase = "write", !.next = 1]
<1>1. /\ calls[c] # Idle /\ calls[c].phase = "dryrun" /\ calls[c].op = "apply"
      /\ calls[c].next > Len(calls[c].docs) /\ calls[c].plan = calls[c].token
      /\ calls' = [calls EXCEPT ![c].phase = "write", ![c].next = 1]
      /\ UNCHANGED <<cluster, revision, inventory, audits, history, issued, begun,
                     disturbed, written, agreed>>
  BY DEF Confirm, At, Done
<1>2. calls[c] \in Requests /\ Sound(c) /\ Len(calls[c].docs) \in Nat /\ Len(calls[c].docs) > 0
  BY <1>1, CallFacts, DocumentFacts
<1>3. /\ q \in Requests
      /\ q.phase = "write" /\ q.docs = calls[c].docs /\ q.next = 1 /\ q.op = "apply"
      /\ q.plan = calls[c].plan /\ q.token = calls[c].plan
  BY <1>1, <1>2 DEF Requests, Phases
<1>4. calls' = [calls EXCEPT ![c] = q] /\ calls'[c] = q
  BY <1>1, <1>2 DEF SInv, ApplyTypeOK, Requests
<1> HIDE DEF q
<1>5. calls[c].next - 1 = Len(calls[c].docs)
  BY <1>1, <1>2, CallFacts DEF Sound, Shape
<1>6. TokenIsLive(c)'
  BY <1>1, <1>2, <1>3, <1>4, <1>5 DEF Sound, PlanIsLive, TokenIsLive
<1>7. Shape(q) /\ q.token \in issued
  BY <1>1, <1>2, <1>3 DEF Sound, Shape, Applies
<1>8. PlanIsOfDocuments(c)' /\ DocumentsRun(c)'
  <2>1. PlanIsOfDocuments(c)
    BY <1>2 DEF Sound
  <2>2. PlanIsOfDocuments(c)'
    BY <1>3, <1>4, <2>1 DEF PlanIsOfDocuments
  <2>3. DocumentsRun(c)'
    BY <1>3, <1>4 DEF DocumentsRun
  <2> QED BY <2>2, <2>3
<1>9. Sound(c)'
  BY <1>1, <1>3, <1>4, <1>6, <1>7, <1>8 DEF Sound, PlanIsLive, AuditIsOwn
<1>10. begun' \in 0 .. MaxCalls
  BY <1>1 DEF SInv, ApplyTypeOK
<1> QED BY <1>1, <1>3, <1>4, <1>9, <1>10, QuietStep

-----------------------------------------------------------------------------
(* Records of calls.                                                       *)

LEMMA AppendFacts ==
    ASSUME NEW S, NEW s \in Seq(S), NEW x \in S
    PROVE  /\ Append(s, x) \in Seq(S)
           /\ Len(s) \in Nat /\ Len(Append(s, x)) = Len(s) + 1
           /\ DOMAIN s = 1 .. Len(s) /\ DOMAIN Append(s, x) = 1 .. Len(s) + 1
           /\ \A k \in DOMAIN s : Append(s, x)[k] = s[k]
           /\ Append(s, x)[Len(s) + 1] = x
OBVIOUS

\* An audit event may claim documents that run.
LEMMA Audited ==
    ASSUME SInv, NEW a \in AuditEvents, audits' = Append(audits, a),
           a.action \notin {"deploy", "delete"} \/
              \A i \in DOMAIN a.docs : a.docs[i] \in written,
           UNCHANGED <<written, history>>
    PROVE  /\ audits' \in Seq(AuditEvents)
           /\ \A k \in DOMAIN audits : k \in DOMAIN audits' /\ audits'[k] = audits[k]
           /\ RecordsAreBacked'
<1>1. /\ audits \in Seq(AuditEvents)
  BY DEF SInv, ApplyTypeOK
<1>2. /\ audits' \in Seq(AuditEvents)
      /\ DOMAIN audits = 1 .. Len(audits) /\ DOMAIN audits' = 1 .. Len(audits) + 1
      /\ \A k \in DOMAIN audits : audits'[k] = audits[k]
      /\ audits'[Len(audits) + 1] = a /\ Len(audits) \in Nat
  BY <1>1, AppendFacts
<1>3. \A k \in DOMAIN audits' : audits'[k].action \in {"deploy", "delete"} =>
          \A i \in DOMAIN audits'[k].docs : audits'[k].docs[i] \in written'
  <2> SUFFICES ASSUME NEW k \in DOMAIN audits', audits'[k].action \in {"deploy", "delete"}
               PROVE  \A i \in DOMAIN audits'[k].docs : audits'[k].docs[i] \in written'
    OBVIOUS
  <2>1. CASE k \in DOMAIN audits
    BY <1>2, <2>1 DEF SInv, RecordsAreBacked
  <2>2. CASE k = Len(audits) + 1
    BY <1>2, <2>2
  <2> QED BY <1>2, <2>1, <2>2
<1> QED BY <1>2, <1>3 DEF SInv, RecordsAreBacked

LEMMA RecordPreviewKeeps ==
    ASSUME SInv, NEW c \in Callers, RecordPreview(c)
    PROVE  SInv'
<1> DEFINE a == [action |-> "preview", docs |-> calls[c].docs]
<1>1. calls[c] # Idle /\ audits' = Append(audits, a) /\ End(c)
        /\ issued' = issued \cup {calls[c].plan}
        /\ UNCHANGED <<cluster, revision, inventory, history, begun, written, agreed>>
  BY DEF RecordPreview, At
<1>2. a \in AuditEvents /\ calls[c].plan \in SUBSET Diffs
  BY <1>1, CallFacts DEF AuditEvents
<1>3. /\ audits' \in Seq(AuditEvents) /\ RecordsAreBacked'
      /\ \A k \in DOMAIN audits : k \in DOMAIN audits' /\ audits'[k] = audits[k]
  BY <1>1, <1>2, Audited
<1>4. ApplyTypeOK' /\ calls'[c] = Idle
        /\ \A d \in Callers \ {c} : calls'[d] = calls[d] /\ disturbed'[d] = disturbed[d]
  BY <1>1, <1>2, <1>3 DEF SInv, ApplyTypeOK, End
<1>5. AuditsDiffer' /\ InventoryIsTrue'
  BY <1>1, <1>4 DEF SInv, AuditsDiffer, At, InventoryIsTrue
<1>6. \A d \in Callers : At(d, "history") =>
          \A h \in DOMAIN history' : history'[h].revision # calls[d].audit
  BY <1>1 DEF SInv, Sound, AuditIsOwn, At
<1> QED BY <1>1, <1>3, <1>4, <1>5, <1>6, StepKeeps

LEMMA PreviewDeleteKeeps ==
    ASSUME SInv, NEW c \in Callers, PreviewDelete(c)
    PROVE  SInv'
<1>1. PICK o \in Objects, uid \in 1 .. revision :
        /\ issued' = issued \cup {DeletePlan(o, uid)}
        /\ audits' = Append(audits, [action |-> "delete_preview",
                                     docs |-> <<[object |-> o, content |-> Gone]>>])
  BY DEF PreviewDelete
<1> DEFINE a == [action |-> "delete_preview", docs |-> <<[object |-> o, content |-> Gone]>>]
<1>2. begun < MaxCalls /\ begun' = begun + 1 /\ calls[c] = Idle
        /\ UNCHANGED <<cluster, revision, inventory, history, calls, disturbed, written, agreed>>
  BY DEF PreviewDelete
<1>3. a \in AuditEvents
  BY DEF AuditEvents, Deletions
<1>4. DeletePlan(o, uid) \in SUBSET Diffs
  BY DEF DeletePlan, Diff, Diffs, SInv, ApplyTypeOK
<1>5. /\ audits' \in Seq(AuditEvents) /\ RecordsAreBacked'
      /\ \A k \in DOMAIN audits : k \in DOMAIN audits' /\ audits'[k] = audits[k]
  BY <1>1, <1>2, <1>3, Audited
<1>6. ApplyTypeOK'
  BY <1>1, <1>2, <1>4, <1>5, RevisionBounds DEF SInv, ApplyTypeOK
<1>7. AuditsDiffer' /\ InventoryIsTrue'
  BY <1>2 DEF SInv, AuditsDiffer, At, InventoryIsTrue
<1>8. \A d \in Callers : At(d, "history") =>
          \A h \in DOMAIN history' : history'[h].revision # calls[d].audit
  BY <1>2 DEF SInv, Sound, AuditIsOwn, At
<1> QED BY <1>1, <1>2, <1>5, <1>6, <1>7, <1>8, StepKeeps

LEMMA RecordAuditKeeps ==
    ASSUME SInv, NEW c \in Callers, RecordAudit(c)
    PROVE  SInv'
<1> DEFINE a == [action |-> ActionOf(calls[c]), docs |-> calls[c].docs]
           q == [calls[c] EXCEPT !.phase = "history", !.audit = Len(audits')]
<1>1. /\ calls[c] # Idle /\ calls[c].phase = "inventory"
      /\ audits' = Append(audits, a)
      /\ calls' = [calls EXCEPT ![c].phase = "history", ![c].audit = Len(audits')]
      /\ UNCHANGED <<cluster, revision, inventory, history, issued, begun, disturbed,
                     written, agreed>>
  BY DEF RecordAudit, At
<1>2. calls[c] \in Requests /\ Sound(c) /\ Len(calls[c].docs) \in Nat
        /\ DOMAIN calls[c].docs = 1 .. Len(calls[c].docs)
  BY <1>1, CallFacts, DocumentFacts
<1>3. a.action \in {"deploy", "delete", "rollback"} /\ (a.action # "rollback" => Applies(calls[c]))
  BY DEF ActionOf, Applies
<1>4. a \in AuditEvents
  BY <1>1, <1>3, CallFacts DEF AuditEvents
<1>5. /\ audits' \in Seq(AuditEvents) /\ RecordsAreBacked'
      /\ \A k \in DOMAIN audits : k \in DOMAIN audits' /\ audits'[k] = audits[k]
  <2>1. a.action \notin {"deploy", "delete"} \/ \A i \in DOMAIN a.docs : a.docs[i] \in written
    BY <1>1, <1>2, <1>3 DEF Sound, DocumentsRun
  <2> QED BY <1>1, <1>4, <2>1, Audited
<1>6. Len(audits') = Len(audits) + 1 /\ Len(audits) \in Nat /\ DOMAIN audits = 1 .. Len(audits)
        /\ DOMAIN audits' = 1 .. Len(audits) + 1 /\ audits'[Len(audits) + 1] = a
  <2>1. audits \in Seq(AuditEvents)
    BY DEF SInv, ApplyTypeOK
  <2> QED BY <1>1, <1>4, <2>1, AppendFacts
<1>7. /\ q \in Requests
      /\ q.phase = "history" /\ q.docs = calls[c].docs /\ q.next = calls[c].next
      /\ q.op = calls[c].op /\ q.plan = calls[c].plan /\ q.token = calls[c].token
      /\ q.audit = Len(audits) + 1
  <2> DEFINE n == Len(audits')
  <2>1. n \in Nat /\ n = Len(audits) + 1
    BY <1>6
  <2> HIDE DEF n
  <2> QED BY <1>2, <2>1 DEF Requests, Phases, n
<1>8. calls' = [calls EXCEPT ![c] = q] /\ calls'[c] = q
        /\ \A d \in Callers \ {c} : calls'[d] = calls[d]
  BY <1>1, <1>2 DEF SInv, ApplyTypeOK, Requests
<1> HIDE DEF q
<1>9. ApplyTypeOK'
  BY <1>1, <1>5, <1>7, <1>8 DEF SInv, ApplyTypeOK
<1>10. \A h \in DOMAIN history : history[h].revision \in DOMAIN audits
  BY DEF SInv, RecordsAreBacked
<1>11. \A d \in Callers : At(d, "history") => calls[d].audit \in DOMAIN audits
  BY DEF SInv, Sound, AuditIsOwn, At
<1>12. AuditIsOwn(c)'
  <2>1. ActionOf(q) = ActionOf(calls[c])
    BY <1>7 DEF ActionOf
  <2>2. \A h \in DOMAIN history : history[h].revision # Len(audits) + 1
    BY <1>6, <1>10
  <2>3. calls'[c].audit = Len(audits) + 1 /\ calls'[c].docs = calls[c].docs
          /\ ActionOf(calls'[c]) = ActionOf(calls[c])
    BY <1>7, <1>8, <2>1
  <2>4. /\ audits'[calls'[c].audit].action = ActionOf(calls'[c])
        /\ audits'[calls'[c].audit].docs = calls'[c].docs
    BY <1>6, <2>3
  <2>5. calls'[c].audit \in DOMAIN audits'
    BY <1>6, <2>3
  <2> HIDE DEF a
  <2> QED BY <1>1, <2>2, <2>3, <2>4, <2>5 DEF AuditIsOwn
<1>13. Shape(q) /\ (q.op = "apply" => q.token \in issued)
  BY <1>1, <1>2, <1>7 DEF Sound, Shape, Applies
<1>14. Sound(c)'
  <2>1. PlanIsOfDocuments(c)'
    BY <1>2, <1>7, <1>8 DEF Sound, PlanIsOfDocuments
  <2>2. PlanIsLive(c)' /\ TokenIsLive(c)'
    BY <1>7, <1>8 DEF PlanIsLive, TokenIsLive
  <2>3. DocumentsRun(c)'
    BY <1>1, <1>2, <1>7, <1>8 DEF Sound, DocumentsRun, Applies
  <2> QED BY <1>1, <1>8, <1>12, <1>13, <2>1, <2>2, <2>3 DEF Sound
<1>15. AuditsDiffer'
  BY <1>6, <1>7, <1>8, <1>11 DEF SInv, AuditsDiffer, At
<1>16. \A d \in Callers : At(d, "history") =>
          \A h \in DOMAIN history' : history'[h].revision # calls[d].audit
  BY <1>1 DEF SInv, Sound, AuditIsOwn, At
<1>17. InventoryIsTrue'
  BY <1>1 DEF SInv, InventoryIsTrue
<1> QED BY <1>1, <1>5, <1>8, <1>9, <1>14, <1>15, <1>16, <1>17, StepKeeps

LEMMA RecordHistoryKeeps ==
    ASSUME SInv, NEW c \in Callers, RecordHistory(c)
    PROVE  SInv'
<1> DEFINE r == [action |-> ActionOf(calls[c]), object |-> calls[c].docs[1].object,
                 revision |-> calls[c].audit]
<1>1. /\ calls[c] # Idle /\ calls[c].phase = "history"
      /\ history' = Append(history, r) /\ End(c)
      /\ UNCHANGED <<cluster, revision, inventory, audits, issued, begun, written, agreed>>
  BY DEF RecordHistory, At
<1>2. r \in HistoryRecords
  BY <1>1, CallFacts, DocumentFacts DEF HistoryRecords, ActionOf
<1>3. history \in Seq(HistoryRecords)
  BY DEF SInv, ApplyTypeOK
<1>4. /\ history' \in Seq(HistoryRecords) /\ Len(history) \in Nat
      /\ DOMAIN history = 1 .. Len(history) /\ DOMAIN history' = 1 .. Len(history) + 1
      /\ \A k \in DOMAIN history : history'[k] = history[k]
      /\ history'[Len(history) + 1] = r
  BY <1>1, <1>2, <1>3, AppendFacts
<1>5. ApplyTypeOK' /\ calls'[c] = Idle
        /\ \A d \in Callers \ {c} : calls'[d] = calls[d] /\ disturbed'[d] = disturbed[d]
  BY <1>1, <1>4 DEF SInv, ApplyTypeOK, End
<1>6. AuditsDiffer' /\ InventoryIsTrue'
  BY <1>1, <1>5 DEF SInv, AuditsDiffer, At, InventoryIsTrue
<1>7. AuditIsOwn(c)
  BY <1>1, CallFacts DEF Sound
<1>8. /\ r.revision \in DOMAIN audits
      /\ audits[r.revision].action = r.action
      /\ audits[r.revision].docs[1].object = r.object
      /\ \A h \in DOMAIN history : history[h].revision # r.revision
  BY <1>1, <1>7 DEF AuditIsOwn
<1> HIDE DEF r
<1>9. RecordsAreBacked'
  <2>1. \A h \in DOMAIN history' : h \in DOMAIN history \/ h = Len(history) + 1
    BY <1>4
  <2>2. RecordsAreBacked
    BY DEF SInv
  <2>3. \A h \in DOMAIN history' :
            /\ history'[h].revision \in DOMAIN audits
            /\ audits[history'[h].revision].action = history'[h].action
            /\ audits[history'[h].revision].docs[1].object = history'[h].object
    BY <1>4, <1>8, <2>1, <2>2 DEF RecordsAreBacked
  <2>4. \A h, k \in DOMAIN history' : history'[k].revision = history'[h].revision => k = h
    BY <1>4, <1>8, <2>1, <2>2 DEF RecordsAreBacked
  <2> QED BY <1>1, <2>2, <2>3, <2>4 DEF RecordsAreBacked
<1>10. \A d \in Callers \ {c} : At(d, "history") =>
          \A h \in DOMAIN history' : history'[h].revision # calls[d].audit
  <2>1. \A d \in Callers \ {c} : At(d, "history") => calls[d].audit # r.revision
    BY <1>1 DEF SInv, AuditsDiffer, At, r
  <2>2. \A d \in Callers : At(d, "history") =>
            \A h \in DOMAIN history : history[h].revision # calls[d].audit
    BY DEF SInv, Sound, AuditIsOwn, At
  <2> QED BY <1>4, <2>1, <2>2
<1> QED BY <1>1, <1>5, <1>6, <1>9, <1>10, StepKeeps

LEMMA RecordInventoryKeeps ==
    ASSUME SInv, NEW c \in Callers, RecordInventory(c)
    PROVE  SInv'
<1>1. PICK d \in calls[c].plan :
        /\ inventory' = [inventory EXCEPT ![d.object] = d.after]
        /\ agreed' = IF d.object \in disturbed[c] THEN agreed \ {d.object}
                     ELSE agreed \cup {d.object}
        /\ calls' = [calls EXCEPT ![c].plan = @ \ {d}]
  BY DEF RecordInventory
<1>2. /\ calls[c] # Idle /\ calls[c].phase = "inventory"
      /\ UNCHANGED <<cluster, revision, audits, history, issued, begun, disturbed, written>>
  BY DEF RecordInventory, At
<1> DEFINE q == [calls[c] EXCEPT !.plan = @ \ {d}]
<1>3. calls[c] \in Requests /\ Sound(c) /\ calls[c].plan \subseteq Diffs
  BY <1>2, CallFacts
<1>4. d.object \in Objects /\ d.after \in Contents \cup {Gone}
  BY <1>3 DEF Diffs
<1>5. /\ q \in Requests
      /\ q.phase = "inventory" /\ q.docs = calls[c].docs /\ q.next = calls[c].next
      /\ q.op = calls[c].op /\ q.plan = calls[c].plan \ {d} /\ q.token = calls[c].token
  BY <1>2, <1>3 DEF Requests
<1>6. calls'[c] = q /\ calls' = [calls EXCEPT ![c] = q]
        /\ \A e \in Callers \ {c} : calls'[e] = calls[e]
  BY <1>1, <1>3 DEF SInv, ApplyTypeOK, Requests
<1> HIDE DEF q
<1>7. ApplyTypeOK'
  <2>1. inventory' \in [Objects -> Contents \cup {Gone}] /\ agreed' \subseteq Objects
    BY <1>1, <1>4 DEF SInv, ApplyTypeOK
  <2>2. calls' \in [Callers -> Requests \cup {Idle}]
    BY <1>5, <1>6 DEF SInv, ApplyTypeOK
  <2> QED BY <1>2, <2>1, <2>2 DEF SInv, ApplyTypeOK
<1>8. Shape(q) /\ (q.op = "apply" => q.token \in issued)
  BY <1>2, <1>3, <1>5 DEF Sound, Shape, Applies
<1>9. Sound(c)'
  <2>1. PlanIsOfDocuments(c)'
    BY <1>3, <1>5, <1>6 DEF Sound, PlanIsOfDocuments
  <2>2. PlanIsLive(c)' /\ TokenIsLive(c)' /\ AuditIsOwn(c)'
    BY <1>5, <1>6 DEF PlanIsLive, TokenIsLive, AuditIsOwn
  <2>3. DocumentsRun(c)'
    BY <1>2, <1>3, <1>5, <1>6 DEF Sound, DocumentsRun, Applies
  <2> QED BY <1>2, <1>6, <1>8, <2>1, <2>2, <2>3 DEF Sound
<1>10. InventoryIsTrue'
  <2>1. d.object \notin disturbed[c] => cluster[d.object].content = d.after
    BY <1>2, <1>3 DEF Sound, DocumentsRun
  <2>2. inventory'[d.object] = d.after
          /\ \A o \in Objects \ {d.object} : inventory'[o] = inventory[o]
    BY <1>1, <1>4 DEF SInv, ApplyTypeOK
  <2> QED BY <1>1, <1>2, <2>1, <2>2 DEF SInv, InventoryIsTrue, ApplyTypeOK
<1>11. AuditsDiffer' /\ RecordsAreBacked'
  BY <1>2, <1>5, <1>6 DEF SInv, AuditsDiffer, At, RecordsAreBacked
<1>12. \A e \in Callers : At(e, "history") =>
          \A h \in DOMAIN history' : history'[h].revision # calls[e].audit
  BY <1>2 DEF SInv, Sound, AuditIsOwn, At
<1> QED BY <1>2, <1>6, <1>7, <1>9, <1>10, <1>11, <1>12, StepKeeps

-----------------------------------------------------------------------------
(* Changes of the cluster.                                                 *)

LEMMA ChangeFacts ==
    ASSUME SInv, NEW rest \in SUBSET Callers, NEW o \in Objects,
           NEW content \in Contents \cup {Gone}, ChangeObject(rest, o, content)
    PROVE  /\ cluster' \in [Objects -> LiveObjects] /\ revision' \in Nat
           /\ disturbed' \in [Callers -> SUBSET Objects]
           /\ agreed' = agreed \ {o} /\ agreed' \subseteq Objects
           /\ cluster'[o].content = content
           /\ \A p \in Objects \ {o} : cluster'[p] = cluster[p]
           /\ \A d \in Callers : disturbed[d] \subseteq disturbed'[d]
           /\ \A d \in rest : calls[d] # Idle => o \in disturbed'[d]
           /\ \A d \in Callers \ rest : disturbed'[d] = disturbed[d]
<1>1. revision \in Nat /\ revision' = revision + 1
  BY DEF SInv, ApplyTypeOK, ChangeObject
<1> DEFINE new == IF content = Gone THEN Absent ELSE [revision |-> revision', content |-> content]
<1>2. new \in LiveObjects /\ new.content = content
  BY <1>1 DEF Absent, LiveObjects
<1> HIDE DEF new
<1>3. cluster' = [cluster EXCEPT ![o] = new]
  BY DEF ChangeObject, new
<1>4. /\ cluster' \in [Objects -> LiveObjects] /\ cluster'[o].content = content
      /\ \A p \in Objects \ {o} : cluster'[p] = cluster[p]
  BY <1>2, <1>3 DEF SInv, ApplyTypeOK
<1> QED BY <1>1, <1>4 DEF SInv, ApplyTypeOK, ChangeObject

LEMMA HistoryOfOthers ==
    ASSUME SInv, UNCHANGED history
    PROVE  \A d \in Callers : At(d, "history") =>
               \A h \in DOMAIN history' : history'[h].revision # calls[d].audit
BY DEF SInv, Sound, AuditIsOwn, At

\* A document of c is carried out: apply and delete alike.
LEMMA DocumentRunsKeeps ==
    ASSUME SInv, NEW c \in Callers, calls[c] # Idle, calls[c].phase = "write",
           Advance(c), written' = written \cup {Here(calls[c])},
           UNCHANGED <<inventory, audits, history, issued, begun>>,
           \/ ChangeObject(Callers \ {c}, Here(calls[c]).object, Here(calls[c]).content)
           \/ /\ cluster[Here(calls[c]).object].content = Here(calls[c]).content
              /\ UNCHANGED <<cluster, revision, disturbed, agreed>>
    PROVE  SInv'
<1> DEFINE n == calls[c].next
           m == calls[c].docs
           d == m[n]
           phase == IF n = Len(m) THEN "inventory" ELSE "write"
           q == [calls[c] EXCEPT !.phase = phase, !.next = n + 1]
<1>1. calls[c] \in Requests /\ Sound(c) /\ m \in Manifests \cup Deletions
  BY CallFacts
<1>2. /\ Len(m) \in Nat /\ n \in 1 .. Len(m) /\ Applies(calls[c])
      /\ d \in [object : Objects, content : Contents \cup {Gone}]
      /\ d.object \in Objects /\ d.content \in Contents \cup {Gone}
      /\ \A i \in 1 .. Len(m) : m[i].object \in Objects /\ (m[i].object = d.object => i = n)
  BY <1>1, DocumentFacts DEF Sound, Shape
<1>3. Here(calls[c]) = d
  BY DEF Here
<1>4. /\ q \in Requests
      /\ q.phase = phase /\ q.docs = m /\ q.next = n + 1
      /\ q.op = calls[c].op /\ q.plan = calls[c].plan /\ q.token = calls[c].token
  <2>1. n + 1 \in Nat /\ phase \in Phases
    BY <1>2 DEF Phases
  <2> HIDE DEF phase
  <2> QED BY <1>1, <2>1 DEF Requests
<1>5. calls'[c] = q /\ calls' = [calls EXCEPT ![c] = q]
        /\ \A e \in Callers \ {c} : calls'[e] = calls[e]
  BY <1>1 DEF SInv, ApplyTypeOK, Requests, Advance
<1>6. /\ cluster' \in [Objects -> LiveObjects] /\ revision' \in Nat
      /\ disturbed' \in [Callers -> SUBSET Objects]
      /\ agreed' \subseteq Objects /\ agreed' \subseteq agreed
      /\ cluster'[d.object].content = d.content
      /\ \A p \in Objects \ {d.object} : cluster'[p] = cluster[p]
      /\ \A e \in Callers : disturbed[e] \subseteq disturbed'[e]
      /\ \A e \in Callers \ {c} : calls[e] # Idle =>
            \A o \in Objects : o \notin disturbed'[e] => cluster'[o] = cluster[o]
      /\ disturbed'[c] = disturbed[c]
      /\ \A o \in agreed' : cluster'[o].content = cluster[o].content
  <2>1. CASE ChangeObject(Callers \ {c}, d.object, d.content)
    <3>1. agreed \subseteq Objects
      BY DEF SInv, ApplyTypeOK
    <3> HIDE DEF d
    <3>2. /\ cluster' \in [Objects -> LiveObjects] /\ revision' \in Nat
          /\ disturbed' \in [Callers -> SUBSET Objects]
          /\ agreed' = agreed \ {d.object}
          /\ cluster'[d.object].content = d.content
          /\ \A p \in Objects \ {d.object} : cluster'[p] = cluster[p]
          /\ \A e \in Callers : disturbed[e] \subseteq disturbed'[e]
          /\ \A e \in Callers \ {c} : calls[e] # Idle => d.object \in disturbed'[e]
          /\ disturbed'[c] = disturbed[c]
      <4>1. d.object \in Objects /\ d.content \in Contents \cup {Gone}
        BY <1>2
      <4> DEFINE rest == Callers \ {c}
                 o == d.object
                 x == d.content
      <4>2. /\ rest \in SUBSET Callers /\ c \in Callers \ rest /\ ChangeObject(rest, o, x)
            /\ o \in Objects /\ x \in Contents \cup {Gone}
        BY <2>1, <4>1
      <4> HIDE DEF rest, o, x
      <4>3. /\ cluster' \in [Objects -> LiveObjects] /\ revision' \in Nat
            /\ disturbed' \in [Callers -> SUBSET Objects]
            /\ agreed' = agreed \ {o}
            /\ cluster'[o].content = x
            /\ \A p \in Objects \ {o} : cluster'[p] = cluster[p]
            /\ \A e \in Callers : disturbed[e] \subseteq disturbed'[e]
            /\ \A e \in rest : calls[e] # Idle => o \in disturbed'[e]
            /\ \A e \in Callers \ rest : disturbed'[e] = disturbed[e]
        BY <4>2, ChangeFacts
      <4> QED BY <4>2, <4>3 DEF rest, o, x
    <3> QED BY <3>1, <3>2
  <2>2. CASE cluster[d.object].content = d.content /\ UNCHANGED <<cluster, revision, disturbed, agreed>>
    BY <2>2 DEF SInv, ApplyTypeOK
  <2> QED BY <1>3, <2>1, <2>2
<1> HIDE DEF q
<1>7. ApplyTypeOK'
  BY <1>2, <1>3, <1>4, <1>5, <1>6 DEF SInv, ApplyTypeOK
<1>8. Shape(q) /\ (q.op = "apply" => q.token \in issued)
  BY <1>1, <1>2, <1>4 DEF Sound, Shape, Applies
<1>9. PlanIsOfDocuments(c)'
  BY <1>1, <1>4, <1>5 DEF Sound, PlanIsOfDocuments
<1>10. TokenIsLive(c)'
  <2>1. ASSUME NEW i \in n + 1 .. Len(m), phase = "write", q.op = "apply",
               m[i].object \notin disturbed'[c]
        PROVE  Diff(m[i].object, cluster'[m[i].object].revision, m[i].content) \in q.token
    <3>1. i \in n .. Len(m) /\ i \in 1 .. Len(m) /\ i # n
      BY <1>2
    <3>2. m[i].object # d.object /\ m[i].object \in Objects
      BY <1>2, <3>1
    <3>3. cluster'[m[i].object] = cluster[m[i].object] /\ m[i].object \notin disturbed[c]
      BY <1>6, <2>1, <3>2
    <3> QED BY <1>1, <1>4, <2>1, <3>1, <3>3 DEF Sound, TokenIsLive
  <2> QED BY <1>4, <1>5, <2>1 DEF TokenIsLive
<1>11. \A i \in 1 .. n : m[i] \in written'
         /\ (m[i].object \notin disturbed[c] => cluster'[m[i].object].content = m[i].content)
  <2> SUFFICES ASSUME NEW i \in 1 .. n
               PROVE  m[i] \in written' /\ (m[i].object \notin disturbed[c] =>
                           cluster'[m[i].object].content = m[i].content)
    OBVIOUS
  <2>1. CASE i = n
    BY <1>3, <1>6, <2>1
  <2>2. CASE i # n
    <3>1. i \in 1 .. n - 1 /\ i \in 1 .. Len(m)
      BY <1>2, <2>2
    <3>2. m[i].object # d.object /\ m[i].object \in Objects
      BY <1>2, <2>2, <3>1
    <3> QED BY <1>1, <1>6, <3>1, <3>2 DEF Sound, DocumentsRun
  <2> QED BY <2>1, <2>2
<1>12. DocumentsRun(c)'
  <2>1. CASE n = Len(m)
    <3>1. \A e \in calls[c].plan :
            e.object \notin disturbed[c] => cluster'[e.object].content = e.after
      BY <1>1, <1>11, <2>1 DEF Sound, PlanIsOfDocuments
    <3> QED BY <1>2, <1>4, <1>5, <1>6, <1>11, <2>1, <3>1 DEF DocumentsRun
  <2>2. CASE n # Len(m)
    <3>1. n \in Nat /\ q.phase = "write"
      BY <1>2, <1>4, <2>2
    <3> HIDE DEF m, n, phase
    <3>2. calls'[c].phase = "write" /\ calls'[c].next - 1 = n /\ calls'[c].docs = m
      BY <1>4, <1>5, <3>1
    <3> QED BY <1>6, <1>11, <3>2 DEF DocumentsRun
  <2> QED BY <2>1, <2>2
<1>13. PlanIsLive(c)' /\ AuditIsOwn(c)'
  BY <1>4, <1>5 DEF PlanIsLive, AuditIsOwn
<1>14. Sound(c)'
  BY <1>5, <1>8, <1>9, <1>10, <1>12, <1>13 DEF Sound
<1>15. AuditsDiffer' /\ RecordsAreBacked'
  BY <1>4, <1>5 DEF SInv, AuditsDiffer, At, RecordsAreBacked
<1>16. InventoryIsTrue'
  BY <1>6 DEF SInv, InventoryIsTrue
<1> QED BY <1>5, <1>6, <1>7, <1>14, <1>15, <1>16, HistoryOfOthers, StepKeeps

LEMMA WriteDocumentKeeps ==
    ASSUME SInv, NEW c \in Callers, WriteDocument(c)
    PROVE  SInv'
BY DocumentRunsKeeps DEF WriteDocument, At

LEMMA DeleteObjectKeeps ==
    ASSUME SInv, NEW c \in Callers, DeleteObject(c)
    PROVE  SInv'
<1> DEFINE m == calls[c].docs
<1>1. calls[c] # Idle /\ calls[c].phase = "write" /\ calls[c].op = "delete"
        /\ ChangeObject(Callers \ {c}, Here(calls[c]).object, Gone)
        /\ written' = written \cup {Here(calls[c])} /\ Advance(c)
        /\ UNCHANGED <<inventory, audits, history, issued, begun>>
  BY DEF DeleteObject, At
<1>2. Here(calls[c]).content = Gone
  <2>1. Shape(calls[c]) /\ Len(m) \in Nat /\ m \in Deletions
    BY <1>1, CallFacts, DocumentFacts DEF Sound, Shape
  <2>2. PICK o \in Objects : m = <<[object |-> o, content |-> Gone]>>
    BY <2>1 DEF Deletions
  <2>3. calls[c].next \in 1 .. Len(m)
    BY <1>1, <2>1 DEF Shape
  <2> QED BY <2>2, <2>3 DEF Here
<1> QED BY <1>1, <1>2, DocumentRunsKeeps

LEMMA OthersChangeKeeps ==
    ASSUME SInv, NEW o \in Objects, OthersChange(o)
    PROVE  SInv'
<1>1. PICK content \in Contents \cup {Gone} : ChangeObject(Callers, o, content)
  BY DEF OthersChange
<1>2. UNCHANGED <<inventory, audits, history, issued, calls, begun, written>>
  BY DEF OthersChange
<1>3. /\ cluster' \in [Objects -> LiveObjects] /\ revision' \in Nat
      /\ disturbed' \in [Callers -> SUBSET Objects]
      /\ agreed' = agreed \ {o} /\ agreed' \subseteq Objects
      /\ \A p \in Objects \ {o} : cluster'[p] = cluster[p]
      /\ \A d \in Callers : disturbed[d] \subseteq disturbed'[d]
      /\ \A d \in Callers : calls[d] # Idle => o \in disturbed'[d]
  BY <1>1, ChangeFacts
<1>4. ApplyTypeOK'
  BY <1>2, <1>3 DEF SInv, ApplyTypeOK
<1>5. \A d \in Callers : calls'[d] # Idle => Sound(d)'
  BY <1>2, <1>3, HistoryOfOthers, OthersKeep DEF At
<1>6. AuditsDiffer' /\ RecordsAreBacked' /\ InventoryIsTrue'
  BY <1>2, <1>3 DEF SInv, AuditsDiffer, At, RecordsAreBacked, InventoryIsTrue
<1> QED BY <1>4, <1>5, <1>6 DEF SInv

-----------------------------------------------------------------------------
LEMMA SInvInit == Init => SInv
<1> SUFFICES ASSUME Init PROVE SInv
  OBVIOUS
<1>1. ApplyTypeOK
  BY RevisionBounds DEF Init, ApplyTypeOK, Absent, LiveObjects
<1>2. AuditsDiffer /\ InventoryIsTrue /\ RecordsAreBacked
  BY DEF Init, AuditsDiffer, At, InventoryIsTrue, RecordsAreBacked
<1> QED BY <1>1, <1>2 DEF Init, SInv

LEMMA SInvNext == SInv /\ [Next]_vars => SInv'
<1> SUFFICES ASSUME SInv, [Next]_vars PROVE SInv'
  OBVIOUS
<1>1. CASE UNCHANGED vars
  <2>1. ApplyTypeOK' /\ AuditsDiffer' /\ InventoryIsTrue' /\ RecordsAreBacked'
    BY <1>1 DEF vars, SInv, ApplyTypeOK, AuditsDiffer, At, InventoryIsTrue, RecordsAreBacked
  <2>2. \A d \in Callers : calls'[d] # Idle => Sound(d)'
    BY <1>1, HistoryOfOthers, OthersKeep DEF vars, At
  <2> QED BY <2>1, <2>2 DEF SInv
<1>2. ASSUME NEW c \in Callers, CallStep(c)
      PROVE  SInv'
  BY <1>2, CallBeginsKeeps, PreviewDeleteKeeps, FailKeeps, DryRunKeeps, RecordPreviewKeeps,
     ConfirmKeeps, WriteDocumentKeeps, DeleteObjectKeeps, RecordInventoryKeeps,
     RecordAuditKeeps, RecordHistoryKeeps
  DEF CallStep
<1>3. ASSUME NEW o \in Objects, OthersChange(o)
      PROVE  SInv'
  BY <1>3, OthersChangeKeeps
<1> QED BY <1>1, <1>2, <1>3 DEF Next

THEOREM ApplyInvariance == Spec => []SInv
BY SInvInit, SInvNext, PTL DEF Spec

\* Documents keep the fields the code gives them.
THEOREM ApplyTypes == Spec => []ApplyTypeOK
<1>1. SInv => ApplyTypeOK
  BY DEF SInv
<1> QED BY <1>1, ApplyInvariance, PTL

\* An apply overwrites what its preview showed, except what somebody else
\* changed after the call began.
THEOREM ConfirmationProtects == Spec => []PreviewedIsOverwritten
<1>1. SInv => PreviewedIsOverwritten
  BY DEF SInv, Sound, TokenIsLive, PreviewedIsOverwritten, At
<1> QED BY <1>1, ApplyInvariance, PTL

\* The inventory of an object nobody interfered with is what the cluster runs.
THEOREM InventoryFollowsCluster == Spec => []InventoryIsTrue
<1>1. SInv => InventoryIsTrue
  BY DEF SInv
<1> QED BY <1>1, ApplyInvariance, PTL

\* What audit and history claim was carried out.
THEOREM RecordsFollowCluster == Spec => []RecordsAreBacked
<1>1. SInv => RecordsAreBacked
  BY DEF SInv
<1> QED BY <1>1, ApplyInvariance, PTL

-------------------------------------------------------------------------------
(******************************************************************************)
(* Guarded operations.  What a call knows of the object stays true as long as *)
(* nobody else writes, and a call that met another write says nothing; what   *)
(* is audited as deleted was the newest object of the name, or an older one.  *)
(******************************************************************************)
ObjectsSeen == ObjectContents \cup {NoObject}
ObjectDocs == [uid : Nat, says : ObjectContents, ending : BOOLEAN]

OpCallDocs ==
    [does : {"nothing", "create", "update", "delete"}, op : {"", "upsert", "create", "delete"},
     says : ObjectsSeen, uid : Nat, before : ObjectsSeen, found : ObjectsSeen, seen : ObjectsSeen,
     phase : {"ended", "find", "get", "write", "audit"}, undoing : BOOLEAN, fresh : BOOLEAN,
     disturbed : BOOLEAN]

OpsTypes ==
    /\ opKind \in DOMAIN Kinds
    /\ live \in ObjectDocs \cup {NoObject}
    /\ lastUID \in Nat
    /\ opCalls \in [OpCallers -> OpCallDocs]

\* The object there is is the newest; only what lingers terminates.
ObjectIsNewest ==
    live # NoObject => live.uid = lastUID /\ (live.ending => "lingers" \in Kind.repository)

\* The object of UID u is gone, or going.
Over(u) == live # NoObject /\ u = live.uid => live.ending

DeletionsAreOld == \A u \in deletions : u \in Nat /\ u <= lastUID /\ Over(u)

\* What the operation of a call allows its phase and its values to be.
OpFits(q) == q.phase # "ended" =>
    /\ q.does \in {"create", "update", "delete"}
    /\ q.says = NoObject <=> q.does = "delete"
    /\ q.op # "delete" => q.op = Putting /\ Content(q) \in ObjectContents
    /\ q.op = "delete" => q.phase # "find"
    /\ q.does = "update" => q.op = "upsert" /\ (q.phase # "find" => q.found \in ObjectContents)
    /\ ~q.undoing => (q.does = "delete" <=> q.op = "delete")
    /\ q.undoing => q.phase \in {"get", "write"} /\ (q.does = "create" <=> q.op = "delete")

\* What a call read last is what there is, while it is fresh; a deletion that is to be
\* audited has removed its object.
OpReads(q) ==
    /\ q.op = "upsert" /\ q.phase = "write" /\ q.fresh => q.seen = Shows(live)
    /\ q.phase # "ended" /\ q.does = "delete" /\ ~q.undoing =>
           /\ q.uid <= lastUID
           /\ q.phase \in {"write", "audit"} => q.seen \in ObjectContents
           /\ q.phase = "audit" => Over(q.uid)

\* Nothing terminates: what is shown stands.
Settled == live # NoObject => ~live.ending

\* What a call that nobody disturbed knows before its write is carried out ...
OpUnwritten(q) ==
    /\ Settled
    /\ Shows(live) = q.before
    /\ q.does = "create" /\ q.op = "upsert" /\ q.phase # "find" => q.before = NoObject
    /\ q.does = "update" /\ q.phase # "find" => q.found = q.before
    /\ q.phase = "write" /\ q.op # "create" => q.seen = q.before
    /\ q.phase = "write" /\ q.op = "upsert" => q.fresh

\* ... once it is ...
OpWritten(q) ==
    /\ Stands(live) = q.says
    /\ q.does = "create" => q.before = NoObject /\ live # NoObject /\ live.uid = q.uid
    /\ q.does = "update" => q.found = q.before /\ live # NoObject
    /\ q.does = "delete" => q.seen = q.before

\* ... and while it takes the write back.
OpUndoing(q) ==
    /\ q.op = "delete" => q.before = NoObject /\ live # NoObject /\ live.uid = q.uid /\ Settled
    /\ q.op # "delete" => q.found = q.before
    /\ q.op = "create" => Stands(live) = NoObject /\ q.says = NoObject
    /\ q.op = "upsert" /\ q.phase = "write" => q.fresh

\* What a call has left when it ended.
EndsWell(q) == Stands(live) = q.before \/ (MayStay(q) /\ Stands(live) = q.says)

OpKnows(q) == ~q.disturbed =>
    /\ q.phase = "ended" => EndsWell(q)
    /\ q.phase \in {"find", "get", "write"} /\ ~q.undoing => OpUnwritten(q)
    /\ q.phase = "audit" => OpWritten(q)
    /\ q.phase # "ended" /\ q.undoing => OpUndoing(q)

OpIsRight(q) == OpFits(q) /\ OpReads(q) /\ OpKnows(q)

OpsInv ==
    /\ OpsTypes
    /\ ObjectIsNewest
    /\ DeletionsAreOld
    /\ \A c \in OpCallers : OpIsRight(opCalls[c])

LEMMA NoOpCallIsRight == NoCall \in OpCallDocs /\ OpIsRight(NoCall) /\ OpIsRight(NoCall)'
BY DEF NoCall, OpCallDocs, ObjectsSeen, OpIsRight, OpFits, OpReads, OpKnows, Content

\* Of the kinds of objects, those that are replaced when they are there are looked for first,
\* and those that terminate are not replaced.
LEMMA KindsFit ==
    ASSUME opKind \in DOMAIN Kinds
    PROVE  /\ Putting \in {"upsert", "create"}
           /\ "updates" \in Kind.service => Putting = "upsert"
           /\ "lingers" \in Kind.repository => Putting = "create"
           /\ Putting = "upsert" => "finds" \in Kind.service
<1>1. opKind \in {"role", "binding", "serviceAccount", "namespace", "certificate"}
  BY DEF Kinds
<1>2. CASE opKind = "role"
  BY <1>2 DEF Putting, Kind, Kinds, Roles, RoleRepository
<1>3. CASE opKind = "binding"
  BY <1>3 DEF Putting, Kind, Kinds, RoleBindings, RoleBindingRepository
<1>4. CASE opKind = "serviceAccount"
  BY <1>4 DEF Putting, Kind, Kinds, ServiceAccounts, ServiceAccountRepository
<1>5. CASE opKind = "namespace"
  BY <1>5 DEF Putting, Kind, Kinds, NamespaceObjects, NamespaceRepository
<1>6. CASE opKind = "certificate"
  BY <1>6 DEF Putting, Kind, Kinds, Certificates, CertificateRepository
<1> QED
  BY <1>1, <1>2, <1>3, <1>4, <1>5, <1>6

\* What an object shows: nothing that it could say, if it is not there.
LEMMA ShownIsSaid ==
    ASSUME OpsTypes
    PROVE  /\ live # NoObject => live \in ObjectDocs /\ Shows(live) = live.says /\ Shows(live) \in ObjectContents
           /\ live = NoObject => Shows(live) = NoObject
           /\ Shows(live) \in ObjectsSeen
           /\ NoObject \notin ObjectContents
           /\ NoObject \notin ObjectDocs
           /\ Stands(live) \in ObjectsSeen
           /\ Settled => Stands(live) = Shows(live)
           /\ live = NoObject => Stands(live) = NoObject
           /\ Stands(live) # NoObject => Settled
           /\ ~Settled => Stands(live) = NoObject
BY OperationsAssumption DEF OpsTypes, ObjectDocs, Shows, Stands, Settled, ObjectsSeen

\* A call moves on and nothing else does: the invariant holds after it if the call is right.
LEMMA OpMoves ==
    ASSUME OpsInv, NEW c \in OpCallers, NEW q \in OpCallDocs, Moves(c, q), OpIsRight(q),
           UNCHANGED opKind,
           \A u \in deletions' \ deletions : u \in Nat /\ u <= lastUID /\ Over(u)
    PROVE  OpsInv'
<1> DEFINE old == opCalls
<1>1. opCalls \in [OpCallers -> OpCallDocs] /\ UNCHANGED <<opKind, live, lastUID>>
      /\ opCalls' = [opCalls EXCEPT ![c] = q]
  BY DEF OpsInv, OpsTypes, Moves
<1>2. OpsTypes'
  BY <1>1 DEF OpsInv, OpsTypes
<1>3. ObjectIsNewest'
  BY <1>1 DEF OpsInv, ObjectIsNewest, Kind
<1>4. DeletionsAreOld'
  BY <1>1 DEF OpsInv, DeletionsAreOld, Over
<1>5. ASSUME NEW d \in OpCallers
      PROVE  OpIsRight(opCalls[d])'
  <2>1. PICK p \in OpCallDocs : p = opCalls'[d] /\ OpIsRight(p)
    BY <1>1 DEF OpsInv
  <2>2. OpIsRight(p)'
    BY <2>1, <1>1 DEF OpIsRight, OpFits, OpReads, OpKnows, OpUnwritten, OpWritten, OpUndoing, Putting, Kind, Content,
                        EndsWell, MayStay, Returnable, Writable, Over, Settled, Shows, Stands
  <2> QED
    BY <2>1, <2>2
<1> QED
  BY <1>2, <1>3, <1>4, <1>5 DEF OpsInv

\* Objects a write may leave: none, the one that is there with other contents or terminating,
\* or a new one.
Follows(object) ==
    \/ object = NoObject
    \/ /\ object \in ObjectDocs /\ live # NoObject /\ object.uid = live.uid
       /\ live.ending => object.ending
       /\ object.ending => live.ending \/ "lingers" \in Kind.repository
    \/ object \in ObjectDocs /\ live = NoObject /\ object.uid = lastUID + 1 /\ ~object.ending

Disturbed(q) ==
    IF q.phase = "ended" THEN NoCall
    ELSE [q EXCEPT !.disturbed = TRUE, !.fresh = FALSE, !.before = NoObject]

\* The object is written: the UIDs go on, and whoever is disturbed is right again.
LEMMA OpStoreKeeps ==
    ASSUME OpsInv, NEW c, NEW call, NEW object, Store(c, object, call), Follows(object), UNCHANGED <<opKind, deletions>>
    PROVE  /\ live' = object /\ live' \in ObjectDocs \cup {NoObject} /\ lastUID' \in Nat
           /\ lastUID <= lastUID'
           /\ ObjectIsNewest'
           /\ DeletionsAreOld'
           /\ \A u \in Nat : u <= lastUID /\ Over(u) => Over(u)'
<1>1. /\ live \in ObjectDocs \cup {NoObject} /\ lastUID \in Nat /\ ObjectIsNewest
      /\ live' = object
      /\ lastUID' = IF object # NoObject /\ object.uid > lastUID THEN object.uid ELSE lastUID
      /\ NoObject \notin ObjectDocs /\ Kind' = Kind
  BY ShownIsSaid DEF OpsInv, OpsTypes, Store, Kind
<1>2. CASE object = NoObject
  BY <1>1, <1>2 DEF OpsInv, ObjectIsNewest, DeletionsAreOld, Over
<1>3. CASE /\ object \in ObjectDocs /\ live # NoObject /\ object.uid = live.uid
           /\ live.ending => object.ending
           /\ object.ending => live.ending \/ "lingers" \in Kind.repository
  <2>1. live.uid = lastUID /\ object.uid = lastUID /\ lastUID' = lastUID /\ object # NoObject
    BY <1>1, <1>3 DEF ObjectIsNewest
  <2> QED
    BY <2>1, <1>1, <1>3 DEF OpsInv, ObjectIsNewest, DeletionsAreOld, Over
<1>4. CASE object \in ObjectDocs /\ live = NoObject /\ object.uid = lastUID + 1 /\ ~object.ending
  <2>1. lastUID' = lastUID + 1 /\ object # NoObject
    BY <1>1, <1>4
  <2>2. \A u \in Nat : u <= lastUID => u # object.uid /\ u <= lastUID'
    BY <2>1, <1>1, <1>4
  <2> QED
    BY <2>1, <2>2, <1>1, <1>4 DEF OpsInv, ObjectIsNewest, DeletionsAreOld, Over
<1> QED
  BY <1>2, <1>3, <1>4 DEF Follows

\* A disturbed call is right whatever was written.
LEMMA DisturbedIsRight ==
    ASSUME UNCHANGED opKind, lastUID \in Nat, lastUID' \in Nat, lastUID <= lastUID',
           \A u \in Nat : u <= lastUID /\ Over(u) => Over(u)',
           NEW q \in OpCallDocs, OpIsRight(q)
    PROVE  Disturbed(q) \in OpCallDocs /\ OpIsRight(Disturbed(q))'
<1>1. CASE q.phase = "ended"
  BY <1>1, NoOpCallIsRight DEF Disturbed
<1>2. CASE q.phase # "ended"
  <2>1. PICK p : p = [q EXCEPT !.disturbed = TRUE, !.fresh = FALSE, !.before = NoObject]
    OBVIOUS
  <2>2. /\ p \in OpCallDocs /\ Disturbed(q) = p /\ p.disturbed = TRUE /\ p.fresh = FALSE
        /\ p.does = q.does /\ p.op = q.op /\ p.says = q.says /\ p.uid = q.uid /\ p.phase = q.phase
        /\ p.found = q.found /\ p.seen = q.seen /\ p.undoing = q.undoing
    BY <1>2, <2>1 DEF Disturbed, OpCallDocs, ObjectsSeen
  <2>3. OpFits(p)'
    BY <2>2 DEF OpIsRight, OpFits, Putting, Kind, Content
  <2>4. p.uid \in Nat
    BY <2>2 DEF OpCallDocs
  <2>5. OpReads(p)'
    BY <2>2, <2>4 DEF OpIsRight, OpReads
  <2>6. OpKnows(p)'
    BY <2>2 DEF OpKnows
  <2> QED
    BY <2>2, <2>3, <2>5, <2>6 DEF OpIsRight
<1> QED
  BY <1>1, <1>2

LEMMA OpStores ==
    ASSUME OpsInv, NEW c, NEW q \in OpCallDocs, NEW object, Store(c, object, q), Follows(object),
           OpIsRight(q)', UNCHANGED <<opKind, deletions>>
    PROVE  OpsInv'
<1>1. /\ live' = object /\ live' \in ObjectDocs \cup {NoObject} /\ lastUID' \in Nat
      /\ lastUID <= lastUID'
      /\ ObjectIsNewest'
      /\ DeletionsAreOld'
      /\ \A u \in Nat : u <= lastUID /\ Over(u) => Over(u)'
  BY OpStoreKeeps
<1>2. opKind' = opKind /\ lastUID \in Nat /\ opCalls \in [OpCallers -> OpCallDocs]
      /\ opCalls' = [d \in OpCallers |-> IF d = c THEN q ELSE Disturbed(opCalls[d])]
  BY DEF OpsInv, OpsTypes, Store, Disturbed
<1>3. ASSUME NEW d \in OpCallers
      PROVE  opCalls'[d] \in OpCallDocs /\ OpIsRight(opCalls[d])'
  <2>1. CASE d = c
    BY <1>2, <2>1
  <2>2. CASE d # c
    <3>1. PICK p \in OpCallDocs : p = opCalls[d] /\ OpIsRight(p)
      BY <1>2 DEF OpsInv
    <3>2. Disturbed(p) \in OpCallDocs /\ OpIsRight(Disturbed(p))'
      BY <3>1, <1>1, <1>2, DisturbedIsRight
    <3> QED
      BY <3>1, <3>2, <2>2, <1>2
  <2> QED
    BY <2>1, <2>2
<1>4. OpsTypes'
  BY <1>1, <1>2, <1>3 DEF OpsInv, OpsTypes
<1> QED
  BY <1>1, <1>3, <1>4 DEF OpsInv

\* A call ends: what it left is known if nobody else wrote.
LEMMA OpEndsRight ==
    ASSUME OpsInv, NEW q \in OpCallDocs, ~q.disturbed => EndsWell(q)
    PROVE  Ended(q) \in OpCallDocs /\ OpIsRight(Ended(q))
<1>1. CASE q.disturbed
  BY <1>1, NoOpCallIsRight DEF Ended
<1>2. CASE ~q.disturbed
  <2>1. PICK p : p = [NoCall EXCEPT !.before = q.before, !.says = q.says, !.disturbed = FALSE]
    OBVIOUS
  <2>2. p \in OpCallDocs /\ Ended(q) = p /\ p.phase = "ended" /\ p.before = q.before /\ p.says = q.says
    BY <1>2, <2>1 DEF Ended, NoCall, OpCallDocs, ObjectsSeen
  <2>3. EndsWell(p)
    BY <1>2, <2>2 DEF EndsWell, MayStay
  <2> QED
    BY <2>2, <2>3 DEF OpIsRight, OpFits, OpReads, OpKnows, NoCall, Content
<1> QED
  BY <1>1, <1>2

LEMMA OpBegins ==
    ASSUME OpsInv, NEW c \in OpCallers, NEW q \in OpCallDocs, BeginOperation(c, q),
           q.before = Stands(live), ~q.disturbed => Settled, ~q.undoing, ~q.fresh,
           \/ /\ q.does = "create" /\ q.op = Putting /\ q.says \in ObjectContents
              /\ q.phase = IF "finds" \in Kind.service THEN "find" ELSE FirstPhase(Putting)
           \/ /\ q.does = "update" /\ q.op = Putting /\ q.says \in ObjectContents
              /\ q.phase = "find" /\ "updates" \in Kind.service
           \/ /\ q.does = "delete" /\ q.op = "delete" /\ q.says = NoObject
              /\ q.uid <= lastUID /\ q.phase = "get"
    PROVE  OpsInv'
<1>1. /\ Putting \in {"upsert", "create"}
      /\ "updates" \in Kind.service => Putting = "upsert"
      /\ Putting = "upsert" => "finds" \in Kind.service
  BY KindsFit DEF OpsInv, OpsTypes
<1>2. q.phase \in {"find", "get", "write"}
  BY <1>1 DEF FirstPhase
<1>3. OpFits(q)
  BY <1>1, ShownIsSaid DEF OpFits, Content, OpsInv
<1>4. q.phase = "write" => q.op = "create" /\ q.does = "create"
  BY <1>1 DEF FirstPhase
<1>5. OpReads(q)
  BY <1>2, <1>4 DEF OpReads
<1>6. q.does = "create" /\ q.op = "upsert" => q.phase = "find"
  BY <1>1
<1>7. ~q.disturbed => OpUnwritten(q)
  BY <1>4, <1>6, ShownIsSaid DEF OpUnwritten, OpsInv
<1>8. OpIsRight(q)
  BY <1>2, <1>3, <1>5, <1>7 DEF OpIsRight, OpKnows
<1>9. Moves(c, q) /\ UNCHANGED <<opKind, deletions>>
  BY DEF BeginOperation
<1> QED
  BY <1>8, <1>9, OpMoves

LEMMA FreshCallDoes ==
    ASSUME OpsInv
    PROVE  FreshCall \in OpCallDocs /\ FreshCall.before = Stands(live) /\ (~FreshCall.disturbed => Settled)
           /\ FreshCall.undoing = FALSE /\ FreshCall.fresh = FALSE /\ FreshCall.says = NoObject
           /\ Putting \in {"upsert", "create"} /\ FirstPhase(Putting) \in {"get", "write"}
<1>1. Stands(live) \in ObjectsSeen /\ Putting \in {"upsert", "create"}
  BY ShownIsSaid, KindsFit DEF OpsInv, OpsTypes
<1>2. FirstPhase(Putting) \in {"get", "write"}
  BY <1>1 DEF FirstPhase
<1>3. PICK stood \in ObjectsSeen : stood = Stands(live)
  BY <1>1
<1>4. PICK ends \in BOOLEAN : ends = (live # NoObject /\ live.ending)
  BY ShownIsSaid DEF OpsInv, OpsTypes, ObjectDocs
<1>5. FreshCall = [NoCall EXCEPT !.before = stood, !.disturbed = ends]
  BY <1>3, <1>4 DEF FreshCall
<1>6. NoCall \in OpCallDocs /\ ~NoCall.undoing /\ ~NoCall.fresh /\ NoCall.says = NoObject
  BY DEF NoCall, OpCallDocs, ObjectsSeen
<1>7. /\ FreshCall \in OpCallDocs /\ FreshCall.before = stood /\ FreshCall.disturbed = ends
      /\ FreshCall.undoing = FALSE /\ FreshCall.fresh = FALSE /\ FreshCall.says = NoObject
  BY <1>5, <1>6 DEF OpCallDocs
<1> QED
  BY <1>1, <1>2, <1>3, <1>4, <1>7 DEF Settled

LEMMA CreateObjectKeeps ==
    ASSUME OpsInv, NEW c \in OpCallers, NEW says \in ObjectContents, CreateObject(c, says)
    PROVE  OpsInv'
<1> DEFINE phase == IF "finds" \in Kind.service THEN "find" ELSE FirstPhase(Putting)
<1>1. PICK q : q = [FreshCall EXCEPT !.does = "create", !.op = Putting, !.says = says,
                                       !.phase = phase]
  OBVIOUS
<1>2. phase \in {"find", "get", "write"}
  BY FreshCallDoes
<1>3. BeginOperation(c, q)
  BY <1>1 DEF CreateObject
<1> HIDE DEF phase
<1>4. /\ q \in OpCallDocs /\ q.does = "create" /\ q.op = Putting /\ q.says = says /\ q.phase = phase
      /\ q.before = Stands(live) /\ (~q.disturbed => Settled) /\ ~q.undoing /\ ~q.fresh
  <2>1. FreshCall \in OpCallDocs /\ Putting \in {"upsert", "create"} /\ says \in ObjectsSeen
    BY FreshCallDoes DEF ObjectsSeen
  <2>2. q \in OpCallDocs
    BY <1>1, <1>2, <2>1 DEF OpCallDocs
  <2>3. /\ q.does = "create" /\ q.op = Putting /\ q.says = says /\ q.phase = phase
        /\ q.before = FreshCall.before /\ q.disturbed = FreshCall.disturbed
        /\ q.undoing = FreshCall.undoing /\ q.fresh = FreshCall.fresh
    BY <1>1, <2>1 DEF OpCallDocs
  <2> QED BY <2>2, <2>3, FreshCallDoes
<1> QED BY <1>2, <1>3, <1>4, OpBegins DEF phase

LEMMA UpdateObjectKeeps ==
    ASSUME OpsInv, NEW c \in OpCallers, NEW says \in ObjectContents, UpdateObject(c, says)
    PROVE  OpsInv'
<1>1. PICK q : q = [FreshCall EXCEPT !.does = "update", !.op = Putting, !.says = says,
                                       !.phase = "find"]
  OBVIOUS
<1>2. /\ q \in OpCallDocs /\ q.does = "update" /\ q.op = Putting /\ q.says = says /\ q.phase = "find"
      /\ q.before = Stands(live) /\ (~q.disturbed => Settled) /\ ~q.undoing /\ ~q.fresh
  BY <1>1, FreshCallDoes DEF OpCallDocs, ObjectsSeen
<1>3. BeginOperation(c, q) /\ "updates" \in Kind.service
  BY <1>1 DEF UpdateObject
<1> QED
  BY <1>2, <1>3, OpBegins

LEMMA RemoveObjectKeeps ==
    ASSUME OpsInv, NEW c \in OpCallers, NEW uid \in 1 .. lastUID, RemoveObject(c, uid)
    PROVE  OpsInv'
<1>1. PICK q : q = [FreshCall EXCEPT !.does = "delete", !.op = "delete", !.uid = uid, !.phase = "get"]
  OBVIOUS
<1>2. uid \in Nat /\ uid <= lastUID
  BY DEF OpsInv, OpsTypes
<1>3. /\ q \in OpCallDocs /\ q.does = "delete" /\ q.op = "delete" /\ q.uid = uid /\ q.phase = "get"
      /\ q.says = NoObject
      /\ q.before = Stands(live) /\ (~q.disturbed => Settled) /\ ~q.undoing /\ ~q.fresh
  BY <1>1, <1>2, FreshCallDoes DEF OpCallDocs
<1>4. BeginOperation(c, q)
  BY <1>1 DEF RemoveObject
<1> QED
  BY <1>2, <1>3, <1>4, OpBegins

\* What the steps of a call start from.
LEMMA OpCallFacts ==
    ASSUME OpsInv, NEW c \in OpCallers
    PROVE  /\ opCalls[c] \in OpCallDocs /\ OpIsRight(opCalls[c])
           /\ Putting \in {"upsert", "create"}
           /\ live # NoObject => Shows(live) \in ObjectContents
           /\ live = NoObject => Shows(live) = NoObject
           /\ Shows(live) \in ObjectsSeen /\ NoObject \notin ObjectContents
           /\ Settled => Stands(live) = Shows(live)
           /\ Stands(live) \in ObjectsSeen
BY KindsFit, ShownIsSaid DEF OpsInv, OpsTypes

LEMMA FindKeeps ==
    ASSUME OpsInv, NEW c \in OpCallers, Find(c)
    PROVE  OpsInv'
<1>1. PICK q \in OpCallDocs : q = opCalls[c] /\ OpIsRight(q) /\ q.phase = "find"
  BY OpCallFacts DEF Find
<1>2. /\ Putting \in {"upsert", "create"}
      /\ live # NoObject => Shows(live) \in ObjectContents
      /\ live = NoObject => Shows(live) = NoObject
      /\ Shows(live) \in ObjectsSeen /\ NoObject \notin ObjectContents
  BY OpCallFacts
<1>3. UNCHANGED <<opKind, deletions>>
  BY DEF Find
<1>4. /\ q.does \in {"create", "update"} /\ q.op = Putting /\ Content(q) \in ObjectContents /\ ~q.undoing
      /\ q.does = "update" => q.op = "upsert"
  BY <1>1 DEF OpIsRight, OpFits, Content
<1>5. ~q.disturbed => OpUnwritten(q)
  BY <1>1, <1>4 DEF OpIsRight, OpKnows
<1>6. CASE (live = NoObject) = (q.does = "create")
  <2>1. PICK p : p = [q EXCEPT !.found = Shows(live), !.phase = FirstPhase(q.op)]
    OBVIOUS
  <2>2. Moves(c, p)
    BY <1>1, <1>6, <2>1 DEF Find
  <2>3. FirstPhase(q.op) \in {"get", "write"} /\ (FirstPhase(q.op) = "write" => q.op = "create")
    BY DEF FirstPhase
  <2>4. /\ p \in OpCallDocs
        /\ p.does = q.does /\ p.op = q.op /\ p.says = q.says /\ p.before = q.before /\ p.found = Shows(live)
        /\ p.phase = FirstPhase(q.op) /\ p.undoing = FALSE /\ p.disturbed = q.disturbed
    BY <1>2, <1>4, <2>1, <2>3 DEF OpCallDocs
  <2>5. q.does = "update" => live # NoObject
    BY <1>6, <1>4
  <2>6. OpFits(p)
    BY <1>2, <1>4, <2>3, <2>4, <2>5 DEF OpFits, Content
  <2>7. OpReads(p)
    BY <1>4, <2>3, <2>4 DEF OpReads
  <2>8. ~p.disturbed => OpUnwritten(p)
    BY <1>2, <1>4, <1>5, <1>6, <2>3, <2>4 DEF OpUnwritten
  <2>9. OpIsRight(p)
    BY <2>3, <2>4, <2>6, <2>7, <2>8 DEF OpIsRight, OpKnows
  <2> QED
    BY <1>3, <2>2, <2>4, <2>9, OpMoves
<1>7. CASE (live = NoObject) # (q.does = "create")
  <2>1. Moves(c, Ended(q))
    BY <1>1, <1>7 DEF Find
  <2>2. Ended(q) \in OpCallDocs /\ OpIsRight(Ended(q))
    BY <1>5, OpEndsRight, OpCallFacts DEF OpUnwritten, EndsWell
  <2>3. PICK p \in OpCallDocs : p = Ended(q) /\ OpIsRight(p)
    BY <2>2
  <2> QED
    BY <1>3, <2>1, <2>3, OpMoves
<1> QED
  BY <1>6, <1>7

LEMMA GetKeeps ==
    ASSUME OpsInv, NEW c \in OpCallers, Get(c)
    PROVE  OpsInv'
<1>1. PICK q \in OpCallDocs : q = opCalls[c] /\ OpIsRight(q) /\ q.phase = "get"
  BY OpCallFacts DEF Get
<1>2. /\ Putting \in {"upsert", "create"}
      /\ live # NoObject => Shows(live) \in ObjectContents
      /\ live = NoObject => Shows(live) = NoObject
      /\ Shows(live) \in ObjectsSeen /\ NoObject \notin ObjectContents
  BY OpCallFacts
<1>3. UNCHANGED <<opKind, deletions>>
  BY DEF Get
<1>4. /\ ~q.disturbed /\ ~q.undoing => OpUnwritten(q)
      /\ ~q.disturbed /\ q.undoing => OpUndoing(q)
  BY <1>1 DEF OpIsRight, OpKnows
<1>5. CASE q.op = "delete" /\ (live = NoObject \/ live.uid # q.uid)
  <2>1. Moves(c, Ended(q))
    BY <1>1, <1>5 DEF Get
  <2>2. ~q.disturbed => EndsWell(q)
    BY <1>4, <1>5, OpCallFacts DEF OpUnwritten, OpUndoing, EndsWell, Content
  <2>3. PICK p \in OpCallDocs : p = Ended(q) /\ OpIsRight(p)
    BY <2>2, OpEndsRight
  <2> QED
    BY <1>3, <2>1, <2>3, OpMoves
<1>6. CASE ~(q.op = "delete" /\ (live = NoObject \/ live.uid # q.uid))
  <2>1. PICK p : p = [q EXCEPT !.seen = Shows(live), !.fresh = TRUE, !.phase = "write"]
    OBVIOUS
  <2>2. Moves(c, p)
    BY <1>1, <1>6, <2>1 DEF Get
  <2>3. /\ p \in OpCallDocs /\ p.seen = Shows(live) /\ p.fresh = TRUE /\ p.phase = "write"
        /\ p.does = q.does /\ p.op = q.op /\ p.says = q.says /\ p.before = q.before /\ p.found = q.found
        /\ p.uid = q.uid /\ p.undoing = q.undoing /\ p.disturbed = q.disturbed
    BY <1>2, <2>1 DEF OpCallDocs
  <2>4. OpFits(p)
    BY <1>1, <2>3 DEF OpIsRight, OpFits, Content
  <2>5. q.does = "delete" /\ ~q.undoing => Shows(live) \in ObjectContents
    BY <1>1, <1>2, <1>6 DEF OpIsRight, OpFits, Content
  <2>6. OpReads(p)
    BY <1>1, <2>3, <2>5 DEF OpIsRight, OpReads
  <2>7. ~p.disturbed /\ ~p.undoing => OpUnwritten(p)
    BY <1>1, <1>4, <2>3 DEF OpUnwritten
  <2>8. ~p.disturbed /\ p.undoing => OpUndoing(p)
    BY <1>1, <1>4, <2>3 DEF OpUndoing, Content
  <2>9. OpIsRight(p)
    BY <2>3, <2>4, <2>6, <2>7, <2>8 DEF OpIsRight, OpKnows
  <2> QED
    BY <1>3, <2>2, <2>3, <2>9, OpMoves
<1> QED
  BY <1>5, <1>6

\* What the API makes of a write that a call is about to make.
LEMMA OutcomesAre ==
    ASSUME OpsInv, NEW q \in OpCallDocs, OpIsRight(q), q.phase = "write"
    PROVE  /\ \A object \in Outcomes(q) :
                  \/ /\ q.op = "delete" /\ live # NoObject
                     /\ \/ object = NoObject
                        \/ /\ object \in ObjectDocs /\ object.uid = live.uid /\ object.ending
                           /\ "lingers" \in Kind.repository
                  \/ /\ q.op = "upsert" /\ q.seen # NoObject /\ q.fresh /\ live # NoObject
                     /\ object \in ObjectDocs /\ object.uid = live.uid /\ object.says = Content(q)
                     /\ ~object.ending
                  \/ /\ q.op = "create" \/ (q.op = "upsert" /\ q.seen = NoObject)
                     /\ live = NoObject /\ object \in ObjectDocs
                     /\ object.uid = lastUID + 1 /\ object.says = Content(q) /\ ~object.ending
           /\ \A object \in Outcomes(q) : Follows(object)
           /\ Outcomes(q) = {} =>
                  \/ q.op = "delete" /\ live = NoObject
                  \/ q.op = "upsert" /\ q.seen # NoObject /\ ~q.fresh
                  \/ (q.op = "create" \/ (q.op = "upsert" /\ q.seen = NoObject)) /\ live # NoObject
<1>1. /\ lastUID \in Nat /\ lastUID + 1 \in Nat
      /\ live # NoObject => live \in ObjectDocs
      /\ live = NoObject => Shows(live) = NoObject
      /\ Putting \in {"upsert", "create"}
      /\ live # NoObject /\ live.ending => "lingers" \in Kind.repository /\ Putting = "create"
  BY ShownIsSaid, KindsFit DEF OpsInv, OpsTypes, ObjectIsNewest
<1>2. /\ q.op \in {"delete", "upsert", "create"}
      /\ q.op # "delete" => Content(q) \in ObjectContents /\ q.op = Putting
  BY <1>1 DEF OpIsRight, OpFits, Content
<1>3. CASE q.op = "delete"
  <2>1. Outcomes(q) = {Deleted(object) : object \in {live} \ {NoObject}}
    BY <1>3 DEF Outcomes
  <2>2. CASE live = NoObject
    BY <1>3, <2>1, <2>2
  <2>3. CASE live # NoObject /\ "lingers" \in Kind.repository
    <3>1. PICK o : o = [live EXCEPT !.ending = TRUE]
      OBVIOUS
    <3>2. o \in ObjectDocs /\ o.uid = live.uid /\ o.ending = TRUE
      BY <1>1, <2>3, <3>1 DEF ObjectDocs
    <3>3. Outcomes(q) = {o}
      BY <2>1, <2>3, <3>1 DEF Deleted
    <3> QED
      BY <1>3, <2>3, <3>2, <3>3 DEF Follows
  <2>4. CASE live # NoObject /\ "lingers" \notin Kind.repository
    <3>1. Outcomes(q) = {NoObject}
      BY <2>1, <2>4 DEF Deleted
    <3> QED
      BY <1>3, <2>4, <3>1 DEF Follows
  <2> QED
    BY <2>2, <2>3, <2>4
<1>4. CASE q.op = "upsert" /\ q.seen # NoObject
  <2>1. Outcomes(q) = {[live EXCEPT !.says = Content(q)] : x \in {TRUE} \cap {q.fresh}}
    BY <1>4 DEF Outcomes
  <2>2. q.fresh \in BOOLEAN
    BY DEF OpCallDocs
  <2>3. q.fresh => live # NoObject
    BY <1>1, <1>4 DEF OpIsRight, OpReads
  <2>4. PICK o : o = [live EXCEPT !.says = Content(q)]
    OBVIOUS
  <2>5. live # NoObject => o \in ObjectDocs /\ o.uid = live.uid /\ o.says = Content(q) /\ o.ending = FALSE
                           /\ live.ending = FALSE
    BY <1>1, <1>2, <1>4, <2>4 DEF ObjectDocs
  <2>6. Outcomes(q) = {o : x \in {TRUE} \cap {q.fresh}}
    BY <2>1, <2>4
  <2>7. CASE q.fresh = TRUE
    <3>1. Outcomes(q) = {o}
      BY <2>6, <2>7
    <3> QED
      BY <3>1, <1>4, <2>3, <2>5, <2>7 DEF Follows
  <2>8. CASE q.fresh = FALSE
    <3>1. Outcomes(q) = {}
      BY <2>6, <2>8
    <3> QED
      BY <3>1, <1>4, <2>8
  <2> QED
    BY <2>2, <2>7, <2>8
<1>5. CASE q.op = "create" \/ (q.op = "upsert" /\ q.seen = NoObject)
  <2>1. Outcomes(q) = {[uid |-> lastUID + 1, says |-> Content(q), ending |-> FALSE] : x \in {live} \cap {NoObject}}
    BY <1>5 DEF Outcomes
  <2>2. PICK o : o = [uid |-> lastUID + 1, says |-> Content(q), ending |-> FALSE]
    OBVIOUS
  <2>3. o \in ObjectDocs /\ o.uid = lastUID + 1 /\ o.says = Content(q) /\ o.ending = FALSE
    BY <1>1, <1>2, <1>5, <2>2 DEF ObjectDocs
  <2>4. Outcomes(q) = {o : x \in {live} \cap {NoObject}}
    BY <2>1, <2>2
  <2> QED
    BY <1>5, <2>3, <2>4 DEF Follows
<1> QED
  BY <1>2, <1>3, <1>4, <1>5

\* A write that was carried out leaves its call right.
LEMMA WrittenIsRight ==
    ASSUME OpsInv, NEW q \in OpCallDocs, OpIsRight(q), q.phase = "write", NEW object \in Outcomes(q),
           live' = object, lastUID' \in Nat, live' \in ObjectDocs \cup {NoObject},
           lastUID <= lastUID', UNCHANGED opKind
    PROVE  \E p \in OpCallDocs : p = AfterWrite(q, object) /\ OpIsRight(p)'
<1>1. /\ live \in ObjectDocs \cup {NoObject} /\ live' \in ObjectDocs \cup {NoObject}
      /\ lastUID \in Nat /\ NoObject \notin ObjectDocs /\ NoObject \notin ObjectContents
      /\ live # NoObject => live.uid = lastUID
  BY ShownIsSaid DEF OpsInv, OpsTypes, ObjectIsNewest
<1>2. /\ live # NoObject => Shows(live) \in ObjectContents
      /\ live = NoObject => Shows(live) = NoObject
      /\ live' # NoObject /\ ~live'.ending => Stands(live)' = live'.says
      /\ live' = NoObject \/ live'.ending => Stands(live)' = NoObject
      /\ Putting' = Putting
  BY ShownIsSaid DEF OpsInv, Shows, Stands, Putting, Kind
<1>3. PICK o : o = object
  OBVIOUS
<1>4. \/ /\ q.op = "delete" /\ live # NoObject
         /\ o = NoObject \/ (o \in ObjectDocs /\ o.uid = live.uid /\ o.ending)
      \/ /\ q.op = "upsert" /\ q.seen # NoObject /\ q.fresh /\ live # NoObject
         /\ o \in ObjectDocs /\ o.uid = live.uid /\ o.says = Content(q) /\ ~o.ending
      \/ /\ q.op = "create" \/ (q.op = "upsert" /\ q.seen = NoObject)
         /\ live = NoObject /\ o \in ObjectDocs
         /\ o.uid = lastUID + 1 /\ o.says = Content(q) /\ ~o.ending
  BY <1>3, OutcomesAre
<1>5. live' = o
  BY <1>3
<1>8. o # NoObject => o.ending \in BOOLEAN
  BY <1>1, <1>5 DEF ObjectDocs
<1>9. q.op = "delete" => Stands(live)' = NoObject
  BY <1>2, <1>4, <1>5, <1>8
<1>10. q.op # "delete" => Stands(live)' = Content(q) /\ live' # NoObject
  BY <1>1, <1>2, <1>4, <1>5, <1>8
<1>6. CASE q.undoing
  <2>1. AfterWrite(q, object) = Ended(q)
    BY <1>6 DEF AfterWrite
  <2>2. ~q.disturbed => OpUndoing(q)
    BY <1>6 DEF OpIsRight, OpKnows
  <2>3. ~q.disturbed => Stands(live)' = q.before
    BY <1>6, <1>9, <1>10, <2>2 DEF OpUndoing, Content
  <2>4. CASE q.disturbed
    <3>1. PICK p : p = NoCall
      OBVIOUS
    <3> QED
      BY <2>1, <2>4, <3>1, NoOpCallIsRight DEF Ended
  <2>5. CASE ~q.disturbed
    <3>1. PICK p : p = [NoCall EXCEPT !.before = q.before, !.says = q.says, !.disturbed = FALSE]
      OBVIOUS
    <3>2. p \in OpCallDocs /\ Ended(q) = p /\ p.phase = "ended" /\ p.before = q.before
          /\ p.op = "" /\ p.does = "nothing"
      BY <2>5, <3>1 DEF Ended, NoCall, OpCallDocs, ObjectsSeen
    <3>3. OpIsRight(p)'
      BY <2>3, <2>5, <3>2 DEF OpIsRight, OpFits, OpReads, OpKnows, EndsWell, Content
    <3> QED
      BY <2>1, <3>2, <3>3
  <2> QED
    BY <2>4, <2>5
<1>7. CASE ~q.undoing
  <2>1. PICK p : p = [q EXCEPT !.phase = "audit", !.uid = IF q.op = "delete" THEN q.uid ELSE o.uid]
    OBVIOUS
  <2>2. AfterWrite(q, object) = p
    BY <1>3, <1>7, <2>1 DEF AfterWrite
  <2>3. q.op # "delete" => o \in ObjectDocs /\ o.uid \in Nat
    BY <1>1, <1>4, <1>5 DEF ObjectDocs
  <2>4. /\ p \in OpCallDocs /\ p.phase = "audit"
        /\ p.uid = (IF q.op = "delete" THEN q.uid ELSE o.uid)
        /\ p.does = q.does /\ p.op = q.op /\ p.says = q.says /\ p.before = q.before /\ p.found = q.found
        /\ p.seen = q.seen /\ p.undoing = FALSE /\ p.disturbed = q.disturbed /\ p.fresh = q.fresh
       
    BY <1>7, <2>1, <2>3 DEF OpCallDocs
  <2>5. OpFits(p)'
    BY <1>2, <1>7, <2>4 DEF OpIsRight, OpFits, Content
  <2>6. OpFits(q) /\ OpReads(q) /\ q.uid \in Nat
    BY DEF OpIsRight, OpCallDocs
  <2>7. q.does = "delete" => q.op = "delete" /\ p.uid = q.uid /\ (o = NoObject \/ o.ending)
    BY <1>1, <1>4, <1>7, <2>4, <2>6 DEF OpFits, Content
  <2>8. OpReads(p)'
    BY <1>1, <1>5, <1>7, <2>4, <2>6, <2>7 DEF OpReads, Over
  <2>9. ~q.disturbed => OpUnwritten(q)
    BY <1>7 DEF OpIsRight, OpKnows
  <2>10. ~p.disturbed => OpWritten(p)'
    <3>1. q.does \in {"create", "update", "delete"} /\ (q.does = "delete" <=> q.op = "delete")
          /\ (q.does = "update" => q.op = "upsert" /\ q.found \in ObjectContents)
      BY <1>7, <2>6 DEF OpFits, Content
    <3>2. CASE q.does = "create"
      BY <1>1, <1>2, <1>4, <1>5, <1>7, <1>9, <1>10, <2>4, <2>6, <2>9, <3>1, <3>2
         DEF OpWritten, OpUnwritten, OpFits, Content
    <3>3. CASE q.does = "update"
      BY <1>1, <1>4, <1>5, <1>7, <1>9, <1>10, <2>4, <2>6, <2>9, <3>1, <3>3
         DEF OpWritten, OpUnwritten, OpFits, Content
    <3>4. CASE q.does = "delete"
      BY <1>1, <1>4, <1>5, <1>7, <1>9, <1>10, <2>4, <2>6, <2>9, <3>1, <3>4
         DEF OpWritten, OpUnwritten, OpFits, Content
    <3> QED
      BY <3>1, <3>2, <3>3, <3>4
  <2>11. OpIsRight(p)'
    BY <2>4, <2>5, <2>8, <2>10 DEF OpIsRight, OpKnows
  <2> QED
    BY <2>2, <2>4, <2>11
<1> QED
  BY <1>6, <1>7

LEMMA WriteKeeps ==
    ASSUME OpsInv, NEW c \in OpCallers, Write(c)
    PROVE  OpsInv'
<1>1. PICK q \in OpCallDocs : q = opCalls[c] /\ OpIsRight(q) /\ q.phase = "write"
  BY OpCallFacts DEF Write
<1>2. UNCHANGED <<opKind, deletions>>
  BY DEF Write
<1>3. ASSUME NEW object \in Outcomes(q), Store(c, object, AfterWrite(q, object))
      PROVE  OpsInv'
  <2>1. Follows(object)
    BY <1>1, OutcomesAre
  <2>2. PICK o : o = object
    OBVIOUS
  <2>3. PICK p : p = AfterWrite(q, object)
    OBVIOUS
  <2>4. Store(c, o, p) /\ Follows(o)
    BY <1>3, <2>1, <2>2, <2>3
  <2>5. live' = o /\ live' \in ObjectDocs \cup {NoObject} /\ lastUID' \in Nat /\ lastUID <= lastUID'
    BY <1>2, <2>4, OpStoreKeeps
  <2>6. live' = object
    BY <2>2, <2>5
  <2>7. p \in OpCallDocs /\ OpIsRight(p)'
    BY <1>1, <1>2, <2>3, <2>5, <2>6, WrittenIsRight
  <2> QED
    BY <1>2, <2>4, <2>7, OpStores
<1>4. ASSUME Outcomes(q) = {}, Moves(c, Ended(q))
      PROVE  OpsInv'
  <2>1. \/ q.op = "delete" /\ live = NoObject
        \/ q.op = "upsert" /\ q.seen # NoObject /\ ~q.fresh
        \/ (q.op = "create" \/ (q.op = "upsert" /\ q.seen = NoObject)) /\ live # NoObject
    BY <1>1, <1>4, OutcomesAre
  <2>2. /\ ~q.disturbed /\ ~q.undoing => OpUnwritten(q)
        /\ ~q.disturbed /\ q.undoing => OpUndoing(q)
        /\ OpReads(q)
    BY <1>1 DEF OpIsRight, OpKnows
  <2>3. /\ live # NoObject => Shows(live) # NoObject
        /\ live = NoObject => Stands(live) = NoObject
        /\ live # NoObject /\ ~Settled => "lingers" \in Kind.repository
        /\ Settled => Stands(live) = Shows(live)
        /\ NoObject \notin ObjectContents
    BY OpCallFacts, ShownIsSaid DEF OpsInv, ObjectIsNewest, Settled
  <2>4. ~q.disturbed /\ ~q.undoing => EndsWell(q)
    BY <1>1, <2>1, <2>2, <2>3 DEF OpUnwritten, OpReads, EndsWell
  <2>5. ~q.disturbed /\ q.undoing /\ q.op # "create" => EndsWell(q)
    BY <1>1, <2>1, <2>2, <2>3 DEF OpUndoing, OpReads, EndsWell, Content
  <2>6. ~q.disturbed /\ q.undoing /\ q.op = "create" => EndsWell(q)
    BY <1>1, <2>1, <2>2, <2>3 DEF OpUndoing, OpIsRight, OpFits, EndsWell, MayStay, Content
  <2>7. PICK p \in OpCallDocs : p = Ended(q) /\ OpIsRight(p)
    BY <2>4, <2>5, <2>6, OpEndsRight
  <2> QED
    BY <1>2, <1>4, <2>7, OpMoves
<1> QED
  BY <1>1, <1>3, <1>4 DEF Write

LEMMA WriteUnansweredKeeps ==
    ASSUME OpsInv, NEW c \in OpCallers, WriteUnanswered(c)
    PROVE  OpsInv'
<1>1. PICK q \in OpCallDocs : q = opCalls[c] /\ OpIsRight(q) /\ q.phase = "write"
  BY OpCallFacts DEF WriteUnanswered
<1>2. PICK object \in Outcomes(q) : Store(c, object, NoCall) /\ UNCHANGED <<opKind, deletions>>
  BY <1>1 DEF WriteUnanswered
<1>3. Follows(object)
  BY <1>1, OutcomesAre
<1>4. PICK o, p : o = object /\ p = NoCall
  OBVIOUS
<1>5. p \in OpCallDocs /\ OpIsRight(p)'
  BY <1>4, NoOpCallIsRight
<1> QED
  BY <1>2, <1>3, <1>4, <1>5, OpStores

LEMMA AuditOperationKeeps ==
    ASSUME OpsInv, NEW c \in OpCallers, AuditOperation(c)
    PROVE  OpsInv'
<1>1. PICK q \in OpCallDocs : q = opCalls[c] /\ OpIsRight(q) /\ q.phase = "audit"
  BY OpCallFacts DEF AuditOperation
<1>2. ~q.undoing
  BY <1>1 DEF OpIsRight, OpFits, Content
<1>3. q.uid \in Nat /\ (q.does = "delete" => q.uid <= lastUID /\ Over(q.uid))
  BY <1>1, <1>2 DEF OpIsRight, OpReads, OpCallDocs
<1>4. deletions' = (IF q.does = "delete" THEN deletions \cup {q.uid} ELSE deletions) /\ opKind' = opKind
  BY <1>1 DEF AuditOperation
<1>5. \A u \in deletions' \ deletions : u \in Nat /\ u <= lastUID /\ Over(u)
  BY <1>3, <1>4
<1>6. PICK p : p = NoCall
  OBVIOUS
<1>7. Moves(c, p) /\ p \in OpCallDocs /\ OpIsRight(p)
  BY <1>6, NoOpCallIsRight DEF AuditOperation
<1> QED
  BY <1>4, <1>5, <1>7, OpMoves

LEMMA AuditFailsKeeps ==
    ASSUME OpsInv, NEW c \in OpCallers, AuditFails(c)
    PROVE  OpsInv'
<1>1. PICK q \in OpCallDocs : q = opCalls[c] /\ OpIsRight(q) /\ q.phase = "audit"
  BY OpCallFacts DEF AuditFails
<1>2. /\ Putting \in {"upsert", "create"}
      /\ live # NoObject => Shows(live) \in ObjectContents
      /\ live = NoObject => Shows(live) = NoObject
      /\ NoObject \notin ObjectContents
      /\ Stands(live) # NoObject => Settled
  BY OpCallFacts, ShownIsSaid DEF OpsInv
<1>3. Moves(c, Undo(q)) /\ UNCHANGED <<opKind, deletions>>
  BY <1>1 DEF AuditFails
<1>4. /\ ~q.undoing /\ q.does \in {"create", "update", "delete"}
      /\ q.op # "delete" => q.op = Putting /\ q.says \in ObjectContents
      /\ q.does = "update" => q.op = "upsert" /\ q.found \in ObjectContents
      /\ q.does = "delete" <=> q.op = "delete"
      /\ q.says = NoObject <=> q.does = "delete"
      /\ q.does = "delete" => q.seen \in ObjectContents
      /\ ~q.disturbed => OpWritten(q)
  BY <1>1 DEF OpIsRight, OpFits, OpReads, OpKnows, Content
<1>5. CASE q.does = "create"
  <2>1. PICK p : p = [q EXCEPT !.op = "delete", !.undoing = TRUE, !.phase = "get"]
    OBVIOUS
  <2>2. Moves(c, p)
    BY <1>3, <1>5, <2>1 DEF Undo
  <2>3. /\ p \in OpCallDocs /\ p.op = "delete" /\ p.undoing = TRUE /\ p.phase = "get"
        /\ p.does = q.does /\ p.says = q.says /\ p.before = q.before /\ p.uid = q.uid
        /\ p.disturbed = q.disturbed
    BY <2>1 DEF OpCallDocs
  <2>4. OpIsRight(p)
    BY <1>2, <1>4, <1>5, <2>3 DEF OpIsRight, OpFits, OpReads, OpKnows, OpWritten, OpUndoing, Content
  <2> QED
    BY <1>3, <2>2, <2>3, <2>4, OpMoves
<1>6. CASE q.does = "update" /\ q.found \in Returnable
  <2>1. PICK p : p = [q EXCEPT !.undoing = TRUE, !.phase = FirstPhase(q.op)]
    OBVIOUS
  <2>2. Moves(c, p)
    BY <1>3, <1>6, <2>1 DEF Undo
  <2>3. FirstPhase(q.op) = "get"
    BY <1>4, <1>6 DEF FirstPhase
  <2>4. /\ p \in OpCallDocs /\ p.op = q.op /\ p.undoing = TRUE /\ p.phase = "get"
        /\ p.does = q.does /\ p.says = q.says /\ p.before = q.before /\ p.found = q.found
        /\ p.disturbed = q.disturbed
    BY <2>1, <2>3 DEF OpCallDocs
  <2>5. OpIsRight(p)
    BY <1>4, <1>6, <2>4 DEF OpIsRight, OpFits, OpReads, OpKnows, OpWritten, OpUndoing, Content
  <2> QED
    BY <1>3, <2>2, <2>4, <2>5, OpMoves
<1>7. CASE \/ q.does = "update" /\ q.found \notin Returnable
           \/ q.does = "delete" /\ q.seen \notin Returnable
  <2>1. Undo(q) = Ended(q)
    BY <1>7 DEF Undo
  <2>2. ~q.disturbed => EndsWell(q)
    BY <1>2, <1>4, <1>7 DEF OpWritten, EndsWell, MayStay, Content
  <2>3. PICK p \in OpCallDocs : p = Ended(q) /\ OpIsRight(p)
    BY <2>2, OpEndsRight
  <2> QED
    BY <1>3, <2>1, <2>3, OpMoves
<1>8. CASE q.does = "delete" /\ q.seen \in Returnable
  <2>1. PICK p : p = [q EXCEPT !.op = Putting, !.found = q.seen, !.undoing = TRUE, !.phase = FirstPhase(Putting)]
    OBVIOUS
  <2>2. Moves(c, p)
    BY <1>3, <1>8, <2>1 DEF Undo
  <2>3. FirstPhase(Putting) \in {"get", "write"} /\ (FirstPhase(Putting) = "write" => Putting = "create")
    BY DEF FirstPhase
  <2>4. /\ p \in OpCallDocs /\ p.op = Putting /\ p.undoing = TRUE /\ p.phase = FirstPhase(Putting)
        /\ p.does = q.does /\ p.says = q.says /\ p.found = q.seen /\ p.before = q.before
        /\ p.disturbed = q.disturbed
    BY <1>2, <2>1, <2>3 DEF OpCallDocs
  <2>5. OpFits(p)
    BY <1>2, <1>4, <1>8, <2>3, <2>4 DEF OpFits, Content
  <2>6. OpReads(p)
    BY <1>2, <2>3, <2>4 DEF OpReads
  <2>7. ~p.disturbed => OpUndoing(p)
    BY <1>2, <1>4, <1>8, <2>3, <2>4 DEF OpWritten, OpUndoing, Content
  <2>8. OpIsRight(p)
    BY <2>3, <2>4, <2>5, <2>6, <2>7 DEF OpIsRight, OpKnows
  <2> QED
    BY <1>3, <2>2, <2>4, <2>8, OpMoves
<1> QED
  BY <1>4, <1>5, <1>6, <1>7, <1>8

LEMMA BreakOffKeeps ==
    ASSUME OpsInv, NEW c \in OpCallers, BreakOff(c)
    PROVE  OpsInv'
<1>1. PICK q \in OpCallDocs : q = opCalls[c] /\ OpIsRight(q) /\ q.phase # "ended"
  BY OpCallFacts DEF BreakOff
<1>2. /\ Moves(c, IF q.phase = "audit" \/ q.undoing THEN NoCall ELSE Ended(q))
      /\ UNCHANGED <<opKind, deletions>>
  BY <1>1 DEF BreakOff
<1>3. CASE q.phase = "audit" \/ q.undoing
  <2>1. PICK p : p = NoCall
    OBVIOUS
  <2> QED
    BY <1>2, <1>3, <2>1, NoOpCallIsRight, OpMoves
<1>4. CASE ~(q.phase = "audit" \/ q.undoing)
  <2>1. ~q.disturbed => EndsWell(q)
    BY <1>1, <1>4, OpCallFacts DEF OpIsRight, OpKnows, OpUnwritten, OpCallDocs, EndsWell
  <2>2. PICK p \in OpCallDocs : p = Ended(q) /\ OpIsRight(p)
    BY <2>1, OpEndsRight
  <2> QED
    BY <1>2, <1>4, <2>2, OpMoves
<1> QED
  BY <1>3, <1>4

LEMMA OthersWriteKeeps ==
    ASSUME OpsInv, NEW says \in ObjectContents, OthersWrite(says)
    PROVE  OpsInv'
<1>1. PICK o : o = IF live = NoObject THEN [uid |-> lastUID + 1, says |-> says, ending |-> FALSE] ELSE [live EXCEPT !.says = says]
  OBVIOUS
<1>2. lastUID \in Nat /\ (live # NoObject => live \in ObjectDocs)
  BY ShownIsSaid DEF OpsInv, OpsTypes
<1>3. CASE live = NoObject
  <2>1. o \in ObjectDocs /\ o.uid = lastUID + 1 /\ o.ending = FALSE
    BY <1>1, <1>2, <1>3 DEF ObjectDocs
  <2> QED
    BY <1>1, <1>3, <2>1, NoOpCallIsRight, OpStores DEF OthersWrite, Follows
<1>4. CASE live # NoObject
  <2>1. o \in ObjectDocs /\ o.uid = live.uid /\ o.ending = live.ending
    BY <1>1, <1>2, <1>4 DEF ObjectDocs
  <2> QED
    BY <1>1, <1>4, <2>1, NoOpCallIsRight, OpStores DEF OthersWrite, Follows
<1> QED
  BY <1>3, <1>4

LEMMA OthersDeleteKeeps ==
    ASSUME OpsInv, OthersDelete
    PROVE  OpsInv'
<1>1. PICK o, p : o = Deleted(live) /\ p = NoCall
  OBVIOUS
<1>2. live # NoObject /\ live \in ObjectDocs
  BY ShownIsSaid DEF OthersDelete, OpsInv
<1>3. Follows(o)
  BY <1>1, <1>2 DEF Follows, Deleted, ObjectDocs
<1> QED
  BY <1>1, <1>3, NoOpCallIsRight, OpStores DEF OthersDelete

\* A terminating namespace goes: no call that knows anything takes it to stand.
LEMMA FinalizeKeeps ==
    ASSUME OpsInv, Finalize
    PROVE  OpsInv'
<1>1. /\ live \in ObjectDocs /\ live # NoObject /\ live.ending /\ live' = NoObject
      /\ UNCHANGED <<opKind, lastUID, opCalls, deletions>>
      /\ "lingers" \in Kind.repository /\ Putting = "create"
      /\ Stands(live) = NoObject /\ Stands(live)' = NoObject /\ ~Settled
      /\ NoObject \notin ObjectContents
  BY ShownIsSaid, KindsFit DEF OpsInv, OpsTypes, ObjectIsNewest, Finalize, Stands, Settled
<1>2. OpsTypes' /\ ObjectIsNewest' /\ DeletionsAreOld'
  BY <1>1 DEF OpsInv, OpsTypes, ObjectIsNewest, DeletionsAreOld, Over
<1>3. ASSUME NEW d \in OpCallers
      PROVE  OpIsRight(opCalls[d])'
  <2>1. PICK q \in OpCallDocs : q = opCalls[d] /\ q = opCalls'[d] /\ OpIsRight(q)
    BY <1>1 DEF OpsInv, OpsTypes
  <2>2. OpFits(q)'
    BY <1>1, <2>1 DEF OpIsRight, OpFits, Putting, Kind, Content
  <2>3. OpReads(q)'
    BY <1>1, <2>1 DEF OpIsRight, OpReads, OpFits, Over, Content
  <2>4. ~q.disturbed /\ q.phase = "ended" => EndsWell(q)'
    BY <1>1, <2>1 DEF OpIsRight, OpKnows, EndsWell, MayStay, Returnable, Writable, Kind
  <2>5. ~q.disturbed => ~(q.phase \in {"find", "get", "write"} /\ ~q.undoing)
    BY <1>1, <2>1 DEF OpIsRight, OpKnows, OpUnwritten
  <2>6. ~q.disturbed /\ q.phase = "audit" => OpWritten(q)'
    BY <1>1, <2>1 DEF OpIsRight, OpKnows, OpFits, OpWritten, Content
  <2>7. ~q.disturbed /\ q.phase # "ended" /\ q.undoing => OpUndoing(q)'
    BY <1>1, <2>1 DEF OpIsRight, OpKnows, OpFits, OpUndoing, Content
  <2> QED
    BY <2>1, <2>2, <2>3, <2>4, <2>5, <2>6, <2>7 DEF OpIsRight, OpKnows
<1> QED
  BY <1>2, <1>3 DEF OpsInv

LEMMA OperationsStep == OpsInv /\ [OperationsNext]_opVars => OpsInv'
<1> SUFFICES ASSUME OpsInv, [OperationsNext]_opVars PROVE OpsInv'
  OBVIOUS
<1>1. ASSUME NEW c \in OpCallers, NEW says \in Writable, CreateObject(c, says) \/ UpdateObject(c, says)
      PROVE  OpsInv'
  BY <1>1, CreateObjectKeeps, UpdateObjectKeeps DEF Writable
<1>2. ASSUME NEW c \in OpCallers, NEW uid \in 1 .. lastUID, RemoveObject(c, uid)
      PROVE  OpsInv'
  BY <1>2, RemoveObjectKeeps
<1>3. ASSUME NEW c \in OpCallers, Find(c) \/ Get(c) \/ Write(c) \/ WriteUnanswered(c)
      PROVE  OpsInv'
  BY <1>3, FindKeeps, GetKeeps, WriteKeeps, WriteUnansweredKeeps
<1>4. ASSUME NEW c \in OpCallers, AuditOperation(c) \/ AuditFails(c) \/ BreakOff(c)
      PROVE  OpsInv'
  BY <1>4, AuditOperationKeeps, AuditFailsKeeps, BreakOffKeeps
<1>5. ASSUME NEW says \in Sayings, OthersWrite(says)
      PROVE  OpsInv'
  BY <1>5, OthersWriteKeeps DEF Sayings, Writable
<1>6. CASE OthersDelete
  BY <1>6, OthersDeleteKeeps
<1>7. CASE SetReadOnly
  BY <1>7 DEF SetReadOnly, OpsInv, OpsTypes, ObjectIsNewest, DeletionsAreOld, OpIsRight, OpFits, OpReads, OpKnows, Content,
              OpUnwritten, OpWritten, OpUndoing, Putting, Kind, Shows, Stands, Settled, Over,
              EndsWell, MayStay, Returnable, Writable
<1>8. CASE UNCHANGED opVars
  BY <1>8 DEF opVars, OpsInv, OpsTypes, ObjectIsNewest, DeletionsAreOld, OpIsRight, OpFits, OpReads, OpKnows, Content,
              OpUnwritten, OpWritten, OpUndoing, Putting, Kind, Shows, Stands, Settled, Over,
              EndsWell, MayStay, Returnable, Writable
<1>9. CASE Finalize
  BY <1>9, FinalizeKeeps
<1> QED
  BY <1>1, <1>2, <1>3, <1>4, <1>5, <1>6, <1>7, <1>8, <1>9 DEF OperationsNext

LEMMA OperationsStart == OperationsInit => OpsInv
<1> SUFFICES ASSUME OperationsInit PROVE OpsInv
  OBVIOUS
<1>1. NoCall \in OpCallDocs /\ OpIsRight(NoCall)
  BY NoOpCallIsRight
<1>2. OpsTypes /\ ObjectIsNewest /\ DeletionsAreOld
  BY <1>1 DEF OperationsInit, OpsTypes, ObjectIsNewest, DeletionsAreOld
<1>3. ASSUME NEW c \in OpCallers PROVE OpIsRight(opCalls[c])
  BY <1>1 DEF OperationsInit
<1> QED
  BY <1>2, <1>3 DEF OpsInv

(******************************************************************************)
(* For every kind of object, any requests and other clients, and any number   *)
(* of objects of the name: what was not audited is taken back unless somebody *)
(* else wrote, or stays whole where the undo may be refused, and the object   *)
(* of an audited deletion is gone for good or terminates.                     *)
(******************************************************************************)
THEOREM OperationsAreRight == OperationsSpec => []OperationsAreSound
<1>1. OpsInv => OperationsAreSound
  BY DEF OpsInv, OperationsAreSound, UnrecordedIsUndone, DeletedIsGone, DeletionsAreOld, OpIsRight, OpKnows,
         EndsWell, Over
<1> QED
  BY <1>1, OperationsStart, OperationsStep, PTL DEF OperationsSpec

-------------------------------------------------------------------------------
(*****************************************************************************)
(* Credentials.  A secret is fresher than every secret that was stored when  *)
(* the call that stores it began: both its times are read after that, and no *)
(* two readings of the clock are the same.                                   *)
(*****************************************************************************)
SecretDocs == [type : {"credential", "kubeconfig"}, created : Nat, rotated : Nat, after : SUBSET Nat]

SecretOperations == {"nothing", "create", "rotate", "rollback", "kubeconfig", "read", "export"}

SecretPhases == {"ended", "validate", "build", "make", "save", "record", "look", "audit", "give", "render"}

SecretCallDocs ==
    [does : SecretOperations, phase : SecretPhases, rotated : Nat, made : Nat, secret : Nat, recorded : BOOLEAN,
     after : SUBSET Nat]

SecretTypes ==
    /\ clock \in Nat
    /\ secrets \subseteq SecretDocs
    /\ secretCalls \in [SecretCallers -> SecretCallDocs]

\* Every secret whose ID is in after was fresh before the time, if there is one.
StaleBy(after, time) ==
    time # 0 => \A t \in secrets : t.created \in after => secretFreshnessTime(t) < time

SecretStored(s) ==
    /\ s.created <= clock /\ s.rotated <= clock
    /\ s.after \subseteq StoredNow
    /\ StaleBy(s.after, secretFreshnessTime(s))
    /\ s.created # 0

SecretCallFits(call) ==
    /\ call.rotated <= clock /\ call.made <= clock
    /\ call.after \subseteq StoredNow
    /\ StaleBy(call.after, call.rotated) /\ StaleBy(call.after, call.made)
    /\ call.made \notin StoredNow
    /\ call.phase = "save" => call.made # 0
    /\ call.phase = "give" => call.recorded

CredInv ==
    /\ SecretTypes
    /\ unrecorded = {}
    /\ \A s \in secrets : SecretStored(s)
    /\ \A c \in SecretCallers : SecretCallFits(secretCalls[c])
    /\ \A c, d \in SecretCallers :
           secretCalls[c].made # 0 /\ secretCalls[c].made = secretCalls[d].made => c = d

LEMMA NoSecretCallType == NoSecretCall \in SecretCallDocs
BY DEF NoSecretCall, SecretCallDocs, SecretOperations, SecretPhases

\* Zero is no reading: no secret has it for its ID.
LEMMA NoSecretCallFits == CredInv => SecretCallFits(NoSecretCall)
<1> SUFFICES ASSUME CredInv PROVE SecretCallFits(NoSecretCall)
  OBVIOUS
<1>1. clock \in Nat
  BY DEF CredInv, SecretTypes
<1>2. 0 \notin StoredNow
  BY DEF CredInv, StoredNow, SecretStored, secretFreshnessTime
<1> QED BY <1>1, <1>2 DEF SecretCallFits, NoSecretCall, StaleBy

LEMMA CredInit == CredentialsInit => CredInv
<1> SUFFICES ASSUME CredentialsInit PROVE CredInv
  OBVIOUS
<1>1. /\ secrets = {} /\ clock = 0 /\ unrecorded = {}
      /\ secretCalls = [c \in SecretCallers |-> NoSecretCall]
  BY DEF CredentialsInit
<1>2. SecretTypes
  BY <1>1, NoSecretCallType DEF SecretTypes
<1>3. SecretCallFits(NoSecretCall)
  BY <1>1 DEF SecretCallFits, NoSecretCall, StaleBy, StoredNow
<1>4. NoSecretCall.made = 0
  BY DEF NoSecretCall
<1> QED BY <1>1, <1>2, <1>3, <1>4 DEF CredInv

\* A call moves on, and reads the clock at most.
LEMMA CallMovesKeeps ==
    ASSUME CredInv, NEW c \in SecretCallers, NEW call \in SecretCallDocs, CallMoves(c, call),
           UNCHANGED <<secrets, unrecorded>>, clock' \in Nat, clock <= clock',
           /\ call.rotated <= clock' /\ call.made <= clock'
           /\ call.after \subseteq StoredNow
           /\ StaleBy(call.after, call.rotated) /\ StaleBy(call.after, call.made)
           /\ call.made \notin StoredNow
           /\ call.phase = "save" => call.made # 0
           /\ call.phase = "give" => call.recorded,
           call.made # 0 => \A d \in SecretCallers \ {c} : secretCalls[d].made # call.made
    PROVE  CredInv'
<1>1. SecretTypes /\ secrets' = secrets /\ unrecorded' = unrecorded /\ StoredNow' = StoredNow
  BY DEF CredInv, StoredNow
<1>2. secretCalls' = [secretCalls EXCEPT ![c] = call]
  BY DEF CallMoves
<1>3. SecretTypes'
  BY <1>1, <1>2 DEF SecretTypes
<1>4. ASSUME NEW s \in secrets PROVE SecretStored(s)'
  <2>1. SecretStored(s) /\ clock \in Nat /\ s.created \in Nat /\ s.rotated \in Nat
    BY <1>1 DEF CredInv, SecretTypes, SecretDocs
  <2> QED BY <1>1, <2>1 DEF SecretStored, StaleBy, secretFreshnessTime
<1>5. ASSUME NEW d \in SecretCallers PROVE SecretCallFits(secretCalls[d])'
  <2>1. CASE d = c
    <3>1. secretCalls'[d] = call
      BY <1>1, <1>2, <2>1 DEF SecretTypes
    <3> QED BY <1>1, <3>1 DEF SecretCallFits, StaleBy, secretFreshnessTime
  <2>2. CASE d # c
    <3>1. /\ secretCalls'[d] = secretCalls[d] /\ SecretCallFits(secretCalls[d])
          /\ clock \in Nat /\ secretCalls[d].made \in Nat /\ secretCalls[d].rotated \in Nat
      BY <1>1, <1>2, <2>2 DEF SecretTypes, CredInv, SecretCallDocs
    <3> QED BY <1>1, <3>1 DEF SecretCallFits, StaleBy, secretFreshnessTime
  <2> QED BY <2>1, <2>2
<1>6. ASSUME NEW d \in SecretCallers, NEW e \in SecretCallers,
             secretCalls'[d].made # 0, secretCalls'[d].made = secretCalls'[e].made
      PROVE  d = e
  BY <1>1, <1>2, <1>6 DEF CredInv, SecretTypes
<1> QED BY <1>1, <1>3, <1>4, <1>5, <1>6 DEF CredInv

\* A call is over, or has nothing yet.
LEMMA PlainCallKeeps ==
    ASSUME CredInv, NEW c \in SecretCallers, NEW call \in SecretCallDocs, CallMoves(c, call),
           UNCHANGED <<secrets, clock, unrecorded>>,
           call.rotated = 0 /\ call.made = 0 /\ call.after \subseteq StoredNow,
           call.phase \notin {"save", "give"}
    PROVE  CredInv'
<1>1. SecretCallFits(NoSecretCall) /\ clock \in Nat
  BY NoSecretCallFits DEF CredInv, SecretTypes
<1>2. 0 \notin StoredNow
  BY <1>1 DEF SecretCallFits, NoSecretCall
<1>3. StaleBy(call.after, call.rotated) /\ StaleBy(call.after, call.made)
  BY DEF StaleBy
<1> QED BY <1>1, <1>2, <1>3, CallMovesKeeps

\* A call that keeps its times moves on.
LEMMA SameTimesKeeps ==
    ASSUME CredInv, NEW c \in SecretCallers, NEW call \in SecretCallDocs, CallMoves(c, call),
           UNCHANGED <<secrets, clock, unrecorded>>,
           call.rotated = secretCalls[c].rotated, call.made = secretCalls[c].made,
           call.after = secretCalls[c].after,
           call.phase # "save", call.phase = "give" => call.recorded
    PROVE  CredInv'
<1>1. SecretCallFits(secretCalls[c]) /\ clock \in Nat
  BY DEF CredInv, SecretTypes
<1>2. call.made # 0 => \A d \in SecretCallers \ {c} : secretCalls[d].made # call.made
  BY DEF CredInv
<1> QED BY <1>1, <1>2, CallMovesKeeps DEF SecretCallFits

-------------------------------------------------------------------------------
LEMMA BeginCallKeeps ==
    ASSUME CredInv, NEW c \in SecretCallers,
           \/ CreateCredential(c) \/ RotateCredential(c) \/ RollbackCredential(c)
           \/ CreateKubeconfig(c) \/ ReadKubeconfig(c) \/ ExportSecret(c)
    PROVE  CredInv'
<1>1. StoredNow \subseteq Nat /\ \A s \in secrets : s.created \in Nat
  BY DEF CredInv, SecretTypes, StoredNow, SecretDocs
<1>2. PICK call \in SecretCallDocs :
         /\ BeginCall(c, call)
         /\ call.rotated = 0 /\ call.made = 0 /\ call.after \in {{}, StoredNow}
         /\ call.phase \notin {"save", "give"}
  <2> DEFINE Plain(call) == /\ call \in SecretCallDocs
                            /\ call.rotated = 0 /\ call.made = 0 /\ call.after \in {{}, StoredNow}
                            /\ call.phase \notin {"save", "give"}
  <2>1. \A does \in {"create", "rotate", "rollback"} : Plain(ChangeCall(does))
    BY <1>1 DEF ChangeCall, NoSecretCall, SecretCallDocs, SecretOperations, SecretPhases
  <2>2. \A does \in {"kubeconfig", "read"} :
           Plain([NoSecretCall EXCEPT !.does = does, !.phase = "look"])
    BY DEF NoSecretCall, SecretCallDocs, SecretOperations, SecretPhases
  <2>3. \A s \in secrets :
           Plain([NoSecretCall EXCEPT !.does = "export", !.phase = "audit", !.secret = s.created])
    BY <1>1 DEF NoSecretCall, SecretCallDocs, SecretOperations, SecretPhases
  <2>4. \E call : Plain(call) /\ BeginCall(c, call)
    <3> HIDE DEF Plain
    <3> QED BY <2>1, <2>2, <2>3 DEF CreateCredential, RotateCredential, RollbackCredential,
               CreateKubeconfig, ReadKubeconfig, ExportSecret
  <2> QED BY <2>4
<1>3. call.after \subseteq StoredNow
  BY <1>2
<1> QED BY <1>2, <1>3, PlainCallKeeps DEF BeginCall

LEMMA EndCallKeeps ==
    ASSUME CredInv, NEW c \in SecretCallers, RecordSecret(c) \/ SecretCallFails(c)
    PROVE  CredInv'
<1>1. /\ NoSecretCall.rotated = 0 /\ NoSecretCall.made = 0 /\ NoSecretCall.after = {}
      /\ NoSecretCall.phase = "ended"
  BY DEF NoSecretCall
<1> QED BY <1>1, NoSecretCallType, PlainCallKeeps DEF RecordSecret, SecretCallFails

LEMMA MoveOnKeeps ==
    ASSUME CredInv, NEW c \in SecretCallers,
           \/ ValidateCredential(c) \/ RenderKubeconfig(c) \/ LookUpCredential(c) \/ AuditReading(c)
    PROVE  CredInv'
<1> DEFINE q == secretCalls[c]
<1>1. q \in SecretCallDocs /\ \A s \in latestByTypeAndScope : s.created \in Nat
  BY DEF CredInv, SecretTypes, latestByTypeAndScope, CredentialSecrets, SecretDocs
<1>2. PICK call :
         /\ CallMoves(c, call) /\ UNCHANGED <<secrets, clock, unrecorded>>
         /\ \/ \E phase \in {"make", "build"} : call = [q EXCEPT !.phase = phase]
            \/ \E s \in latestByTypeAndScope :
                   call = [q EXCEPT !.secret = s.created, !.phase = "audit"]
            \/ call = [q EXCEPT !.phase = "give", !.recorded = TRUE]
  BY DEF ValidateCredential, RenderKubeconfig, LookUpCredential, AuditReading
<1> HIDE DEF q
<1>3. /\ call \in SecretCallDocs /\ call.rotated = q.rotated /\ call.made = q.made
      /\ call.after = q.after /\ call.phase # "save" /\ (call.phase = "give" => call.recorded)
  BY <1>1, <1>2 DEF SecretCallDocs, SecretPhases
<1> QED BY <1>2, <1>3, SameTimesKeeps DEF q

LEMMA ReadTimeKeeps ==
    ASSUME CredInv, NEW c \in SecretCallers, rotatedAtForAction(c) \/ MakeSecret(c)
    PROVE  CredInv'
<1> DEFINE q == secretCalls[c]
<1>1. /\ q \in SecretCallDocs /\ SecretCallFits(q) /\ clock \in Nat /\ secrets \subseteq SecretDocs
      /\ \A s \in secrets : SecretStored(s)
  BY DEF CredInv, SecretTypes
<1>2. PICK call :
         /\ CallMoves(c, call) /\ UNCHANGED <<secrets, unrecorded>> /\ clock' = clock + 1
         /\ \/ call = [q EXCEPT !.rotated = clock + 1, !.phase = "make"]
            \/ call = [q EXCEPT !.made = clock + 1, !.phase = "save"]
  BY DEF rotatedAtForAction, MakeSecret, ReadClock
<1> HIDE DEF q
<1>3. StaleBy(q.after, clock + 1)
  BY <1>1 DEF StaleBy, SecretStored, secretFreshnessTime, SecretDocs
<1>4. clock + 1 \notin StoredNow
  BY <1>1 DEF StoredNow, SecretStored, SecretDocs
<1>5. /\ call \in SecretCallDocs /\ call.after = q.after /\ call.phase # "give"
      /\ call.rotated \in {q.rotated, clock + 1} /\ call.made \in {q.made, clock + 1}
      /\ call.phase = "save" => call.made # 0
  <2>1. PICK time \in Nat : time = clock + 1 /\ time # 0
    BY <1>1
  <2>2. CASE call = [q EXCEPT !.rotated = time, !.phase = "make"]
    BY <1>1, <2>1, <2>2 DEF SecretCallDocs, SecretPhases
  <2>3. CASE call = [q EXCEPT !.made = time, !.phase = "save"]
    BY <1>1, <2>1, <2>3 DEF SecretCallDocs, SecretPhases
  <2> QED BY <1>2, <2>1, <2>2, <2>3
<1>6. /\ q.rotated \in Nat /\ q.made \in Nat /\ q.rotated <= clock /\ q.made <= clock
      /\ q.after \subseteq StoredNow /\ StaleBy(q.after, q.rotated) /\ StaleBy(q.after, q.made)
      /\ q.made \notin StoredNow
  BY <1>1 DEF SecretCallDocs, SecretCallFits
<1>7. ASSUME call.made # 0, NEW d \in SecretCallers \ {c} PROVE secretCalls[d].made # call.made
  <2>1. secretCalls[d].made <= clock /\ secretCalls[d].made \in Nat
    BY DEF CredInv, SecretTypes, SecretCallFits, SecretCallDocs
  <2>2. q.made # 0 => secretCalls[d].made # q.made
    BY DEF CredInv, q
  <2> QED BY <1>1, <1>5, <1>7, <2>1, <2>2
<1>8. /\ clock' \in Nat /\ clock <= clock' /\ call.rotated <= clock' /\ call.made <= clock'
      /\ call.made \notin StoredNow
  BY <1>1, <1>2, <1>4, <1>5, <1>6
<1>9. StaleBy(call.after, call.rotated) /\ StaleBy(call.after, call.made)
  BY <1>3, <1>5, <1>6
<1>10. call.after \subseteq StoredNow
  BY <1>5, <1>6
<1> QED BY <1>2, <1>5, <1>7, <1>8, <1>9, <1>10, CallMovesKeeps

LEMMA SaveSecretKeeps ==
    ASSUME CredInv, NEW c \in SecretCallers, SaveSecret(c)
    PROVE  CredInv'
<1> DEFINE q == secretCalls[c]
           new == [type |-> IF q.does = "kubeconfig" THEN "kubeconfig" ELSE "credential",
                   created |-> q.made, rotated |-> q.rotated, after |-> q.after]
           over == [NoSecretCall EXCEPT !.phase = "record"]
<1>1. /\ q.phase = "save" /\ secrets' = secrets \cup {new} /\ CallMoves(c, over)
      /\ clock' = clock /\ unrecorded' = unrecorded
  BY DEF SaveSecret
<1>2. /\ q \in SecretCallDocs /\ SecretCallFits(q) /\ clock \in Nat /\ secrets \subseteq SecretDocs
      /\ SecretTypes /\ unrecorded = {}
  BY DEF CredInv, SecretTypes
<1>3. /\ over \in SecretCallDocs /\ over.made = 0 /\ over.rotated = 0 /\ over.after = {}
      /\ over.phase = "record"
  BY DEF NoSecretCall, SecretCallDocs, SecretOperations, SecretPhases
<1>4. /\ new \in SecretDocs /\ new.created = q.made /\ new.rotated = q.rotated /\ new.after = q.after
  BY <1>2 DEF SecretCallDocs, SecretDocs
<1>5. /\ q.made \in Nat /\ q.rotated \in Nat /\ q.made # 0 /\ q.made <= clock /\ q.rotated <= clock
      /\ q.after \subseteq StoredNow /\ StaleBy(q.after, q.rotated) /\ StaleBy(q.after, q.made)
      /\ q.made \notin StoredNow
  BY <1>1, <1>2 DEF SecretCallDocs, SecretCallFits
<1> HIDE DEF new, over
<1>6. secretCalls' = [secretCalls EXCEPT ![c] = over]
  BY <1>1 DEF CallMoves
<1>7. StoredNow' = StoredNow \cup {q.made}
  BY <1>1, <1>4 DEF StoredNow
<1>8. ASSUME NEW after, NEW time, after \subseteq StoredNow, StaleBy(after, time)
      PROVE  StaleBy(after, time)'
  <2>1. new.created \notin after
    BY <1>4, <1>5, <1>8
  <2> QED BY <1>1, <1>8, <2>1 DEF StaleBy, secretFreshnessTime
<1> HIDE DEF q
<1>9. SecretTypes'
  BY <1>1, <1>2, <1>3, <1>4, <1>6 DEF SecretTypes
<1>10. ASSUME NEW s \in secrets' PROVE SecretStored(s)'
  <2>1. CASE s \in secrets
    <3>1. SecretStored(s)
      BY <2>1 DEF CredInv
    <3>2. StaleBy(s.after, secretFreshnessTime(s))'
      BY <1>8, <3>1 DEF SecretStored, secretFreshnessTime
    <3> QED BY <1>1, <1>7, <3>1, <3>2 DEF SecretStored, secretFreshnessTime
  <2>2. CASE s = new
    <3>1. secretFreshnessTime(s) \in {q.made, q.rotated} /\ secretFreshnessTime(s) # 0
      BY <1>4, <1>5, <2>2 DEF secretFreshnessTime
    <3>2. StaleBy(s.after, secretFreshnessTime(s))'
      BY <1>4, <1>5, <1>8, <2>2, <3>1 DEF secretFreshnessTime
    <3> QED BY <1>1, <1>4, <1>5, <1>7, <2>2, <3>1, <3>2 DEF SecretStored, secretFreshnessTime
  <2> QED BY <1>1, <2>1, <2>2
<1>11. ASSUME NEW d \in SecretCallers PROVE SecretCallFits(secretCalls[d])'
  <2>1. CASE d = c
    <3>1. secretCalls'[d] = over
      BY <1>2, <1>6, <2>1 DEF SecretTypes
    <3>2. 0 \notin StoredNow
      BY NoSecretCallFits DEF SecretCallFits, NoSecretCall
    <3> QED BY <1>1, <1>2, <1>3, <1>5, <1>7, <3>1, <3>2 DEF SecretCallFits, StaleBy
  <2>2. CASE d # c
    <3>1. secretCalls'[d] = secretCalls[d] /\ SecretCallFits(secretCalls[d])
      BY <1>2, <1>6, <2>2 DEF SecretTypes, CredInv
    <3>2. secretCalls[d].made # q.made
      BY <1>5, <2>2 DEF CredInv, q
    <3>3. /\ StaleBy(secretCalls[d].after, secretCalls[d].rotated)'
          /\ StaleBy(secretCalls[d].after, secretCalls[d].made)'
      <4> DEFINE r == secretCalls[d]
      <4>1. r.after \subseteq StoredNow /\ StaleBy(r.after, r.rotated) /\ StaleBy(r.after, r.made)
        BY <3>1 DEF SecretCallFits
      <4> QED BY <1>8, <3>1, <4>1
    <3> QED BY <1>1, <1>7, <3>1, <3>2, <3>3 DEF SecretCallFits
  <2> QED BY <2>1, <2>2
<1>12. ASSUME NEW d \in SecretCallers, NEW e \in SecretCallers,
              secretCalls'[d].made # 0, secretCalls'[d].made = secretCalls'[e].made
       PROVE  d = e
  BY <1>2, <1>3, <1>6, <1>12 DEF CredInv, SecretTypes
<1> QED BY <1>1, <1>2, <1>9, <1>10, <1>11, <1>12 DEF CredInv

LEMMA GivePlaintextKeeps ==
    ASSUME CredInv, NEW c \in SecretCallers, GivePlaintext(c)
    PROVE  CredInv'
<1>1. unrecorded' = unrecorded
  BY DEF GivePlaintext, CredInv, SecretCallFits
<1>2. PICK call \in {NoSecretCall,
                     [NoSecretCall EXCEPT !.does = secretCalls[c].does, !.phase = "render"]} :
         CallMoves(c, call) /\ UNCHANGED <<secrets, clock>>
  BY DEF GivePlaintext
<1>3. /\ call \in SecretCallDocs /\ call.rotated = 0 /\ call.made = 0 /\ call.after = {}
      /\ call.phase \notin {"save", "give"}
  <2>1. secretCalls[c].does \in SecretOperations
    BY DEF CredInv, SecretTypes, SecretCallDocs
  <2>2. PICK does \in SecretOperations :
           call \in {NoSecretCall, [NoSecretCall EXCEPT !.does = does, !.phase = "render"]}
    BY <1>2, <2>1
  <2>3. CASE call = NoSecretCall
    BY <2>3, NoSecretCallType DEF NoSecretCall
  <2>4. CASE call = [NoSecretCall EXCEPT !.does = does, !.phase = "render"]
    BY <2>4 DEF NoSecretCall, SecretCallDocs, SecretPhases
  <2> QED BY <2>2, <2>3, <2>4
<1> QED BY <1>1, <1>2, <1>3, PlainCallKeeps

LEMMA CredNext == CredInv /\ [CredentialsNext]_secretVars => CredInv'
<1> SUFFICES ASSUME CredInv, [CredentialsNext]_secretVars PROVE CredInv'
  OBVIOUS
<1>1. CASE UNCHANGED secretVars
  BY <1>1 DEF secretVars, CredInv, SecretTypes, SecretStored, SecretCallFits, StaleBy, StoredNow,
              secretFreshnessTime
<1>2. CASE CredentialsNext
  BY <1>2, BeginCallKeeps, EndCallKeeps, MoveOnKeeps, ReadTimeKeeps, SaveSecretKeeps,
     GivePlaintextKeeps DEF CredentialsNext
<1> QED BY <1>1, <1>2

\* The credential clients get is the one the list shows as active, and no credential is used
\* that was stored before another one's creation, rotation or rollback began; no plaintext is
\* given without an audit event (cluster/credential.go, platform/secret).
THEOREM NewestCredentialIsUsed == CredentialsSpec => []CredentialsAreSound
<1>1. CredInv => CredentialsAreSound
  <2> SUFFICES ASSUME CredInv PROVE CredentialsAreSound
    OBVIOUS
  <2>1. \A s \in secrets : secretFreshnessTime(s) \in Nat /\ credentialFreshness(s) = secretFreshnessTime(s)
    BY DEF CredInv, SecretTypes, SecretDocs, secretFreshnessTime, credentialFreshness
  <2>2. latestByTypeAndScope = credentialHistory
    BY <2>1 DEF latestByTypeAndScope, credentialHistory, CredentialSecrets
  <2>3. ASSUME NEW used \in latestByTypeAndScope, NEW s \in CredentialSecrets
        PROVE  used.created \notin s.after
    <3>1. used \in secrets /\ s \in secrets /\ secretFreshnessTime(s) <= secretFreshnessTime(used)
      BY DEF latestByTypeAndScope, CredentialSecrets
    <3>2. used.created \in s.after => secretFreshnessTime(used) < secretFreshnessTime(s)
      <4>1. SecretStored(s) /\ s.rotated \in Nat
        BY <3>1 DEF CredInv, SecretTypes, SecretDocs
      <4>2. secretFreshnessTime(s) # 0 /\ StaleBy(s.after, secretFreshnessTime(s))
        BY <4>1 DEF SecretStored, secretFreshnessTime
      <4> QED BY <3>1, <4>2 DEF StaleBy
    <3> QED BY <2>1, <3>1, <3>2
  <2> QED BY <2>2, <2>3 DEF CredentialsAreSound, NewestWriteIsUsed, ReadingsAreRecorded, CredInv
<1> QED BY CredInit, CredNext, <1>1, PTL DEF CredentialsSpec

-------------------------------------------------------------------------------
(****************************************************************************)
(* The platform's collectors.  What is shown as applied, and what a call is *)
(* about to record as applied, runs, unless its source had its collector    *)
(* replaced.                                                                *)
(****************************************************************************)
CollectorDocs == [source : ManagedSources, url : WriteURLs]

ReleaseDocs ==
    [namespace : CollectorNamespaces, url : WriteURLs,
     status : {"previewed", "applied", "failed"},
     token : [seen : CollectorDocs \cup {NoCollector},
              grantee : CollectorNamespaces \cup {NoCollector}],
     generation : Nat]

ReleaseTypes ==
    /\ writeURL \in [ManagedSources -> WriteURLs]
    /\ release \in [ManagedSources -> ReleaseDocs \cup {NoRelease}]
    /\ collector \in [CollectorNamespaces -> CollectorDocs \cup {NoCollector}]
    /\ grantee \in CollectorNamespaces \cup {NoCollector}
    /\ DOMAIN relCalls = ReleaseCallers

Runs(s, r) == r.status = "applied" => collector[r.namespace] = [source |-> s, url |-> r.url]

ReleaseCallFits(call) ==
    /\ call.phase \in {"detect", "preview"} =>
           call.source \in ManagedSources /\ call.namespace \in CollectorNamespaces
           /\ call.url \in WriteURLs
    /\ call.phase = "save" =>
           call.source \in ManagedSources /\ call.release \in ReleaseDocs
           /\ call.release.status = "previewed"
    /\ call.phase \in {"apply", "record"} =>
           call \in [phase : {"apply", "record"}, source : ManagedSources, release : ReleaseDocs]
    /\ call.phase = "record" => call.source \in replaced \/ Runs(call.source, call.release)

ReleaseInv ==
    /\ ReleaseTypes
    /\ \A c \in ReleaseCallers : ReleaseCallFits(relCalls[c])
    /\ \A s \in ManagedSources \ replaced : release[s] # NoRelease => Runs(s, release[s])

LEMMA IdleReleaseFits == ReleaseCallFits(IdleRelease)
BY DEF ReleaseCallFits, IdleRelease

LEMMA ReleaseInit == CollectorsInit => ReleaseInv
<1> SUFFICES ASSUME CollectorsInit PROVE ReleaseInv
  OBVIOUS
<1> USE DEF CollectorsInit
<1>1. ReleaseTypes
  BY DEF ReleaseTypes
<1>2. \A c \in ReleaseCallers : ReleaseCallFits(relCalls[c])
  BY IdleReleaseFits
<1> QED BY <1>1, <1>2 DEF ReleaseInv

\* Neither releases nor collectors change.
LEMMA ReleaseCallMovesKeeps ==
    ASSUME ReleaseInv, NEW c \in ReleaseCallers, NEW call, RelCallMoves(c, call),
           UNCHANGED <<settingVars, release, clusterVars>>, ReleaseCallFits(call)
    PROVE  ReleaseInv'
<1> USE DEF settingVars, clusterVars
<1>1. relCalls' = [relCalls EXCEPT ![c] = call]
  BY DEF RelCallMoves
<1>2. ReleaseTypes'
  BY <1>1 DEF ReleaseInv, ReleaseTypes
<1>3. \A d \in ReleaseCallers : ReleaseCallFits(relCalls'[d])
  BY <1>1 DEF ReleaseInv, ReleaseTypes
<1>4. \A d \in ReleaseCallers : ReleaseCallFits(relCalls[d])'
  BY <1>3 DEF ReleaseCallFits, Runs
<1> QED BY <1>2, <1>4 DEF ReleaseInv, Runs

LEMMA SettingsKeep ==
    ASSUME ReleaseInv, UNCHANGED <<release, clusterVars, relCalls>>,
           writeURL' \in [ManagedSources -> WriteURLs]
    PROVE  ReleaseInv'
BY DEF ReleaseInv, ReleaseTypes, ReleaseCallFits, Runs, clusterVars

LEMMA PreviewCollectorKeeps ==
    ASSUME ReleaseInv, NEW c \in ReleaseCallers,
           \/ \E s \in ManagedSources, n \in CollectorNamespaces : PreviewCollectorReads(c, s, n)
           \/ PreviewCollectorDetects(c) \/ PreviewCollectorRuns(c)
    PROVE  ReleaseInv'
<1>1. ASSUME NEW s \in ManagedSources, NEW n \in CollectorNamespaces,
             PreviewCollectorReads(c, s, n)
      PROVE  ReleaseInv'
  <2>1. ReleaseCallFits([phase |-> "detect", source |-> s, namespace |-> n, url |-> writeURL[s]])
    BY DEF ReleaseCallFits, ReleaseInv, ReleaseTypes
  <2> QED BY <1>1, <2>1, ReleaseCallMovesKeeps DEF PreviewCollectorReads
<1>2. CASE PreviewCollectorDetects(c)
  <2>1. relCalls[c].phase = "detect" /\ ReleaseCallFits(relCalls[c])
    BY <1>2 DEF PreviewCollectorDetects, ReleaseInv
  <2>2. ReleaseCallFits([relCalls[c] EXCEPT !.phase = "preview"])
    BY <2>1 DEF ReleaseCallFits
  <2> QED BY <1>2, <2>2, IdleReleaseFits, ReleaseCallMovesKeeps DEF PreviewCollectorDetects
<1>3. CASE PreviewCollectorRuns(c)
  <2> DEFINE q == relCalls[c]
             r == [namespace |-> q.namespace, url |-> q.url, status |-> "previewed",
                   token |-> SeenBy(q), generation |-> Generation(q.source) + 1]
             call == [phase |-> "save", source |-> q.source, release |-> r]
  <2>1. q.phase = "preview" /\ RelCallMoves(c, call) /\ UNCHANGED <<settingVars, release, clusterVars>>
    BY <1>3 DEF PreviewCollectorRuns
  <2>2. q.source \in ManagedSources /\ q.namespace \in CollectorNamespaces /\ q.url \in WriteURLs
    BY <2>1 DEF ReleaseInv, ReleaseCallFits
  <2> HIDE DEF q
  <2>3. Generation(q.source) \in Nat
    <3>1. release[q.source] \in ReleaseDocs \cup {NoRelease}
      BY <2>2 DEF ReleaseInv, ReleaseTypes
    <3> QED BY <3>1 DEF Generation, ReleaseDocs
  <2>4. SeenBy(q) \in [seen : CollectorDocs \cup {NoCollector},
                       grantee : CollectorNamespaces \cup {NoCollector}]
    BY <2>2 DEF SeenBy, ReleaseInv, ReleaseTypes
  <2>5. r \in ReleaseDocs /\ r.status = "previewed"
    BY <2>2, <2>3, <2>4 DEF ReleaseDocs
  <2> HIDE DEF r
  <2>6. ReleaseCallFits(call)
    BY <2>2, <2>5 DEF ReleaseCallFits
  <2> QED BY <2>1, <2>6, ReleaseCallMovesKeeps
<1> QED BY <1>1, <1>2, <1>3

LEMMA ApplyCollectorReadsKeeps ==
    ASSUME ReleaseInv, NEW c \in ReleaseCallers, NEW s \in ManagedSources, ApplyCollectorReads(c, s)
    PROVE  ReleaseInv'
<1>1. release[s] \in ReleaseDocs
  BY DEF ApplyCollectorReads, ReleaseInv, ReleaseTypes
<1>2. ReleaseCallFits([phase |-> "apply", source |-> s, release |-> release[s]])
  BY <1>1 DEF ReleaseCallFits
<1> QED BY <1>2, ReleaseCallMovesKeeps DEF ApplyCollectorReads

LEMMA ReleaseCallFailsKeeps ==
    ASSUME ReleaseInv, NEW c \in ReleaseCallers, ReleaseCallFails(c)
    PROVE  ReleaseInv'
BY IdleReleaseFits, ReleaseCallMovesKeeps DEF ReleaseCallFails

\* The newest release of a source is another one, that runs if it says so.
LEMMA ReleaseStoredKeeps ==
    ASSUME ReleaseInv, NEW c \in ReleaseCallers, RelCallMoves(c, IdleRelease),
           UNCHANGED <<settingVars, clusterVars>>,
           NEW s \in ManagedSources, NEW r \in ReleaseDocs \cup {NoRelease},
           release' = [release EXCEPT ![s] = r],
           s \in replaced \/ r = NoRelease \/ Runs(s, r)
    PROVE  ReleaseInv'
<1> USE DEF settingVars, clusterVars
<1>1. relCalls' = [relCalls EXCEPT ![c] = IdleRelease]
  BY DEF RelCallMoves
<1>2. ReleaseTypes'
  BY <1>1 DEF ReleaseInv, ReleaseTypes
<1>3. \A d \in ReleaseCallers : ReleaseCallFits(relCalls'[d])
  BY <1>1, IdleReleaseFits DEF ReleaseInv, ReleaseTypes
<1>4. \A d \in ReleaseCallers : ReleaseCallFits(relCalls[d])'
  BY <1>3 DEF ReleaseCallFits, Runs
<1>5. \A t \in ManagedSources \ replaced : release'[t] # NoRelease => Runs(t, release'[t])
  BY DEF ReleaseInv, ReleaseTypes
<1> QED BY <1>2, <1>4, <1>5 DEF ReleaseInv, Runs

LEMMA SaveReleaseKeeps ==
    ASSUME ReleaseInv, NEW c \in ReleaseCallers,
           SaveCollectorRelease(c) \/ UpdateCollectorRelease(c)
    PROVE  ReleaseInv'
<1> DEFINE q == relCalls[c]
<1>1. PICK r : /\ release' = [release EXCEPT ![q.source] = r]
               /\ \/ q.phase \in {"save", "record"} /\ r = q.release
                  \/ q.phase \in {"save", "record"} /\ r = release[q.source]
  <2>1. release = [release EXCEPT ![q.source] = release[q.source]]
    BY DEF ReleaseInv, ReleaseTypes
  <2>2. ASSUME UpdateCollectorRelease(c)
        PROVE  /\ q.phase = "record"
               /\ \/ release' = [release EXCEPT ![q.source] = q.release]
                  \/ release' = [release EXCEPT ![q.source] = release[q.source]]
    BY <2>2 DEF UpdateCollectorRelease
  <2>3. ASSUME SaveCollectorRelease(c)
        PROVE  /\ q.phase = "save"
               /\ \/ release' = [release EXCEPT ![q.source] = q.release]
                  \/ release' = [release EXCEPT ![q.source] = release[q.source]]
    BY <2>1, <2>3 DEF SaveCollectorRelease
  <2> QED BY <2>2, <2>3
<1>2. RelCallMoves(c, IdleRelease) /\ UNCHANGED <<settingVars, clusterVars>>
  BY DEF SaveCollectorRelease, UpdateCollectorRelease
<1>3. /\ q.source \in ManagedSources /\ q.release \in ReleaseDocs
      /\ q.source \in replaced \/ Runs(q.source, q.release)
  <2>1. ReleaseCallFits(q) /\ q.phase \in {"save", "record"}
    BY <1>1 DEF ReleaseInv
  <2> HIDE DEF q
  <2> QED BY <2>1 DEF ReleaseCallFits, Runs
<1>4. /\ r \in ReleaseDocs \cup {NoRelease}
      /\ q.source \in replaced \/ r = NoRelease \/ Runs(q.source, r)
  <2>1. /\ release[q.source] \in ReleaseDocs \cup {NoRelease}
        /\ q.source \in replaced \/ release[q.source] = NoRelease \/ Runs(q.source, release[q.source])
    BY <1>3 DEF ReleaseInv, ReleaseTypes
  <2> QED BY <1>1, <1>3, <2>1
<1> QED BY <1>1, <1>2, <1>3, <1>4, ReleaseStoredKeeps

-------------------------------------------------------------------------------
\* A collector is replaced: only the source whose collector it was loses it.
LEMMA DeploysKeepsRunning ==
    ASSUME ReleaseTypes, NEW s \in ManagedSources, NEW r \in ReleaseDocs, Deploys(s, r),
           NEW t \in ManagedSources, NEW u \in ReleaseDocs, t \in replaced \/ Runs(t, u)
    PROVE  t \in replaced' \/ Runs(t, u)'
<1> SUFFICES ASSUME t \notin replaced', u.status = "applied"
             PROVE  collector'[u.namespace] = [source |-> t, url |-> u.url]
  BY DEF Runs
<1>1. /\ collector[u.namespace] = [source |-> t, url |-> u.url]
      /\ ~(collector[r.namespace] # NoCollector /\ collector[r.namespace].source = t)
  BY DEF Deploys, Runs
<1>2. u.namespace \in CollectorNamespaces /\ u.url \in WriteURLs
  BY DEF ReleaseDocs
<1>3. [source |-> t, url |-> u.url] # NoCollector
  BY <1>2, CollectorAssumption
<1>4. u.namespace # r.namespace
  BY <1>1, <1>3
<1> QED BY <1>1, <1>2, <1>4 DEF Deploys, ReleaseTypes

LEMMA ApplyCollectorDeploysKeeps ==
    ASSUME ReleaseInv, NEW c \in ReleaseCallers, ApplyCollectorDeploys(c)
    PROVE  ReleaseInv'
<1> DEFINE q == relCalls[c]
           confirmed == SeenBy(q.release) = q.release.token
<1>1. PICK outcome \in {"applied", "failed"} :
         /\ outcome = "applied" => confirmed
         /\ RelCallMoves(c, [q EXCEPT !.phase = "record", !.release.status = outcome])
         /\ \/ confirmed /\ Deploys(q.source, q.release)
            \/ outcome = "failed" /\ UNCHANGED <<collector, grantee, replaced>>
  BY DEF ApplyCollectorDeploys
<1>2. q.phase = "apply" /\ UNCHANGED <<settingVars, release>>
  BY DEF ApplyCollectorDeploys
<1>3. /\ q \in [phase : {"apply", "record"}, source : ManagedSources, release : ReleaseDocs]
      /\ ReleaseTypes
  BY <1>2 DEF ReleaseInv, ReleaseCallFits
<1> HIDE DEF confirmed
<1>4. PICK r : r = [q.release EXCEPT !.status = outcome]
  OBVIOUS
<1>5. /\ r \in ReleaseDocs /\ r.status = outcome
      /\ r.namespace = q.release.namespace /\ r.url = q.release.url
  BY <1>3, <1>4 DEF ReleaseDocs
<1>6. PICK call \in [phase : {"apply", "record"}, source : ManagedSources, release : ReleaseDocs] :
         call = [q EXCEPT !.phase = "record", !.release = r]
  BY <1>3, <1>5
<1>7. call.phase = "record" /\ call.source = q.source /\ call.release = r
  BY <1>3, <1>6
<1>8. relCalls' = [relCalls EXCEPT ![c] = call]
  BY <1>1, <1>3, <1>4, <1>6 DEF RelCallMoves
<1>9. /\ q.source \in ManagedSources /\ q.release \in ReleaseDocs
      /\ q.release.namespace \in CollectorNamespaces /\ q.release.url \in WriteURLs
  BY <1>3 DEF ReleaseDocs
<1> HIDE DEF q
<1>10. ReleaseTypes'
  <2>1. [source |-> q.source, url |-> q.release.url] \in CollectorDocs
    BY <1>9 DEF CollectorDocs
  <2> QED BY <1>1, <1>2, <1>3, <1>8, <1>9, <2>1 DEF ReleaseTypes, Deploys, settingVars
<1>11. ASSUME NEW t \in ManagedSources, NEW u \in ReleaseDocs, t \in replaced \/ Runs(t, u)
       PROVE  t \in replaced' \/ Runs(t, u)'
  BY <1>1, <1>3, <1>9, <1>11, DeploysKeepsRunning DEF Runs
<1>12. ASSUME NEW d \in ReleaseCallers PROVE ReleaseCallFits(relCalls[d])'
  <2>1. CASE d = c
    <3>1. relCalls'[d] = call
      BY <1>3, <1>8, <2>1 DEF ReleaseTypes
    <3>2. Runs(call.source, call.release)'
      BY <1>1, <1>3, <1>5, <1>7, <1>9 DEF Runs, Deploys, ReleaseTypes
    <3> QED BY <1>6, <1>7, <3>1, <3>2 DEF ReleaseCallFits
  <2>2. CASE d # c
    <3>1. relCalls'[d] = relCalls[d] /\ ReleaseCallFits(relCalls[d])
      BY <1>3, <1>8, <2>2 DEF ReleaseTypes, ReleaseInv
    <3>2. relCalls[d].phase = "record" =>
              relCalls[d].source \in replaced' \/ Runs(relCalls[d].source, relCalls[d].release)'
      <4> DEFINE p == relCalls[d]
      <4>1. p.phase = "record" =>
               /\ p.source \in ManagedSources /\ p.release \in ReleaseDocs
               /\ p.source \in replaced \/ Runs(p.source, p.release)
        BY <3>1 DEF ReleaseCallFits
      <4> QED BY <1>11, <3>1, <4>1 DEF Runs
    <3> QED BY <3>1, <3>2 DEF ReleaseCallFits, Runs
  <2> QED BY <2>1, <2>2
<1>13. ASSUME NEW s \in ManagedSources \ replaced', release[s] # NoRelease
       PROVE  Runs(s, release[s])'
  <2>1. release[s] \in ReleaseDocs /\ (s \in replaced \/ Runs(s, release[s]))
    BY <1>3, <1>13 DEF ReleaseInv, ReleaseTypes
  <2> QED BY <1>2, <1>11, <1>13, <2>1 DEF Runs
<1> QED BY <1>2, <1>10, <1>12, <1>13 DEF ReleaseInv, Runs

LEMMA OthersRemoveKeeps ==
    ASSUME ReleaseInv, NEW n \in CollectorNamespaces, OthersRemoveCollector(n)
    PROVE  ReleaseInv'
<1> USE DEF settingVars
<1>1. /\ collector[n] # NoCollector /\ collector' = [collector EXCEPT ![n] = NoCollector]
      /\ replaced' = replaced \cup {collector[n].source}
      /\ UNCHANGED <<settingVars, release, grantee, relCalls>>
  BY DEF OthersRemoveCollector
<1>2. ReleaseTypes /\ ReleaseTypes'
  BY <1>1 DEF ReleaseInv, ReleaseTypes
<1>3. ASSUME NEW t \in ManagedSources, NEW u \in ReleaseDocs, t \in replaced \/ Runs(t, u)
      PROVE  t \in replaced' \/ Runs(t, u)'
  <2> SUFFICES ASSUME t \notin replaced', u.status = "applied"
               PROVE  collector'[u.namespace] = [source |-> t, url |-> u.url]
    BY DEF Runs
  <2>1. collector[u.namespace] = [source |-> t, url |-> u.url] /\ collector[n].source # t
    BY <1>1, <1>3 DEF Runs
  <2>2. u.namespace # n /\ u.namespace \in CollectorNamespaces
    BY <2>1 DEF ReleaseDocs
  <2> QED BY <1>1, <1>2, <2>1, <2>2 DEF ReleaseTypes
<1>4. ASSUME NEW d \in ReleaseCallers PROVE ReleaseCallFits(relCalls[d])'
  <2> DEFINE p == relCalls[d]
  <2>1. ReleaseCallFits(p) /\ relCalls'[d] = p
    BY <1>1 DEF ReleaseInv
  <2>2. p.phase = "record" =>
           /\ p.source \in ManagedSources /\ p.release \in ReleaseDocs
           /\ p.source \in replaced \/ Runs(p.source, p.release)
    BY <2>1 DEF ReleaseCallFits
  <2>3. p.phase = "record" => p.source \in replaced' \/ Runs(p.source, p.release)'
    BY <1>1, <1>3, <2>2 DEF Runs
  <2> QED BY <1>1, <2>1, <2>3 DEF ReleaseCallFits, Runs
<1>5. ASSUME NEW s \in ManagedSources \ replaced', release[s] # NoRelease
      PROVE  Runs(s, release[s])'
  <2>1. release[s] \in ReleaseDocs /\ (s \in replaced \/ Runs(s, release[s]))
    BY <1>2, <1>5 DEF ReleaseInv, ReleaseTypes
  <2> QED BY <1>1, <1>3, <1>5, <2>1 DEF Runs
<1> QED BY <1>1, <1>2, <1>4, <1>5 DEF ReleaseInv, Runs

LEMMA ReleaseNext == ReleaseInv /\ [CollectorsNext]_releaseVars => ReleaseInv'
<1> SUFFICES ASSUME ReleaseInv, [CollectorsNext]_releaseVars PROVE ReleaseInv'
  OBVIOUS
<1>1. CASE UNCHANGED releaseVars
  BY <1>1, SettingsKeep DEF releaseVars, clusterVars, ReleaseInv, ReleaseTypes
<1>2. ASSUME NEW s \in ManagedSources, Rebind(s)
      PROVE  ReleaseInv'
  BY <1>2, SettingsKeep DEF Rebind, ReleaseInv, ReleaseTypes
<1>3. ASSUME NEW s \in ManagedSources, NEW url \in WriteURLs, UpdateIntegration(s, url)
      PROVE  ReleaseInv'
  BY <1>3, SettingsKeep DEF UpdateIntegration, ReleaseInv, ReleaseTypes
<1>4. ASSUME NEW s \in ManagedSources, NEW to, UpdateSourceAccess(s, to)
      PROVE  ReleaseInv'
  BY <1>4, SettingsKeep DEF UpdateSourceAccess, ReleaseInv, ReleaseTypes
<1> QED BY <1>1, <1>2, <1>3, <1>4, PreviewCollectorKeeps, ApplyCollectorReadsKeeps,
           ReleaseCallFailsKeeps, SaveReleaseKeeps, ApplyCollectorDeploysKeeps, OthersRemoveKeeps
           DEF CollectorsNext

\* A release that is the newest of its source and shown as applied runs in its namespace and
\* writes where it says, unless another source's release or somebody else replaced it
\* (internal/metrics/managed_collector.go).
THEOREM AppliedReleasesRun == CollectorsSpec => []AppliedReleaseRuns
<1>1. ReleaseInv => AppliedReleaseRuns
  BY DEF ReleaseInv, Runs, AppliedReleaseRuns
<1> QED BY ReleaseInit, ReleaseNext, <1>1, PTL DEF CollectorsSpec

-------------------------------------------------------------------------------
(****************************************************************************)
(* Back ends.  Until something was written between a read and the write it  *)
(* was for, the documents are the intended ones, and a call that will write *)
(* holds what is stored, but for what it changes.                           *)
(****************************************************************************)
EndpointDocs == [kind : EndpointKinds, name : EndpointNames, status : EndpointStatuses,
                 health : {NoHealth, "healthy", "failed", "pending"}]

EndpointNamesUnique ==
    \A i, j \in DOMAIN endpoints : endpoints[i].name = endpoints[j].name => i = j

\* What a call is about to write fits what is stored.
EndpointCallFits(call) ==
    /\ call.phase = "insert" =>
           /\ call.kind \in EndpointKinds /\ call.name \in EndpointNames
           /\ ~NameExists(call.name, 0)
    /\ call.phase \in {"unique", "probe", "replace", "record"} => call.id \in DOMAIN endpoints
    /\ call.phase = "unique" => call.current = endpoints[call.id]
    /\ call.phase = "replace" =>
           /\ call.endpoint \in EndpointDocs
           /\ call.endpoint.kind = endpoints[call.id].kind
           /\ call.endpoint.health \in {NoHealth, endpoints[call.id].health}
           /\ ~NameExists(call.endpoint.name, call.id)
    /\ call.phase = "probe" => call.endpoint \in EndpointDocs
    /\ call.phase = "record" =>
           \E health \in {"healthy", "failed", "pending"} :
               call.endpoint = [endpoints[call.id] EXCEPT !.health = health]

EndpointsInv ==
    /\ DOMAIN endpointCalls = EndpointCallers
    /\ overlapped \in BOOLEAN
    /\ ~overlapped =>
           /\ endpoints \in Seq(EndpointDocs)
           /\ endpoints = intended
           /\ EndpointNamesUnique
           /\ \A c \in EndpointCallers : EndpointCallFits(endpointCalls[c])

LEMMA EndpointsInvInit == EndpointsInit => EndpointsInv
<1>1. EndpointCallFits(NoEndpointCall)
  BY DEF EndpointCallFits, NoEndpointCall
<1> SUFFICES ASSUME EndpointsInit PROVE EndpointsInv
  OBVIOUS
<1>2. /\ endpoints = <<>> /\ intended = <<>> /\ overlapped = FALSE
      /\ endpointCalls = [c \in EndpointCallers |-> NoEndpointCall]
  BY DEF EndpointsInit
<1>3. endpoints \in Seq(EndpointDocs) /\ EndpointNamesUnique
  BY <1>2 DEF EndpointNamesUnique
<1>4. \A c \in EndpointCallers : EndpointCallFits(endpointCalls[c])
  BY <1>1, <1>2
<1> QED BY <1>2, <1>3, <1>4 DEF EndpointsInv

\* A call goes on without a write.
LEMMA EndpointStepKeeps ==
    ASSUME EndpointsInv, NEW c \in EndpointCallers, NEW call, EndpointStep(c, call),
           ~overlapped => EndpointCallFits(call)
    PROVE  EndpointsInv'
<1>1. /\ endpointCalls' = [endpointCalls EXCEPT ![c] = call]
      /\ endpoints' = endpoints /\ intended' = intended /\ overlapped' = overlapped
  BY DEF EndpointStep
<1>2. ~overlapped' => \A d \in EndpointCallers : EndpointCallFits(endpointCalls[d])'
  <2> SUFFICES ASSUME ~overlapped, NEW d \in EndpointCallers
               PROVE  EndpointCallFits(endpointCalls[d])'
    BY <1>1
  <2>1. EndpointCallFits(call) /\ EndpointCallFits(endpointCalls[d])
    BY DEF EndpointsInv
  <2>2. endpointCalls'[d] = IF d = c THEN call ELSE endpointCalls[d]
    BY <1>1 DEF EndpointsInv
  <2>3. CASE d = c
    BY <2>1, <2>2, <2>3, <1>1 DEF EndpointCallFits, NameExists
  <2>4. CASE d # c
    BY <2>1, <2>2, <2>4, <1>1 DEF EndpointCallFits, NameExists
  <2> QED BY <2>3, <2>4
<1> QED BY <1>1, <1>2 DEF EndpointsInv, EndpointNamesUnique

\* A call writes the document id and ends; nobody else had read for a write, unless
\* the write is one that overlaps.
LEMMA EndpointWriteKeeps ==
    ASSUME EndpointsInv, NEW c \in EndpointCallers, NEW after, NEW meant,
           EndpointsWritten(c, after, meant),
           ~overlapped => /\ after \in Seq(EndpointDocs)
                          /\ after = meant
                          /\ DOMAIN endpoints \subseteq DOMAIN after
                          /\ \A i, j \in DOMAIN after : after[i].name = after[j].name => i = j
    PROVE  EndpointsInv'
<1>1. /\ endpoints' = after
      /\ endpointCalls' = [endpointCalls EXCEPT ![c] = NoEndpointCall]
      /\ overlapped' \in BOOLEAN
  BY DEF EndpointsWritten, EndpointsInv
<1>2. ASSUME ~overlapped'
      PROVE  /\ intended' = meant /\ ~overlapped
             /\ \A d \in EndpointCallers \ {c} :
                    endpointCalls[d].phase \notin {"insert", "unique", "replace", "record"}
  BY <1>2 DEF EndpointsWritten
<1>3. ASSUME ~overlapped', NEW d \in EndpointCallers
      PROVE  EndpointCallFits(endpointCalls[d])'
  <2>1. CASE d = c
    BY <1>1, <2>1 DEF EndpointCallFits, NoEndpointCall, EndpointsInv
  <2>2. CASE d # c
    <3>1. EndpointCallFits(endpointCalls[d]) /\ endpointCalls'[d] = endpointCalls[d]
      BY <1>1, <1>2, <1>3, <2>2 DEF EndpointsInv
    <3> QED BY <1>1, <1>2, <1>3, <2>2, <3>1 DEF EndpointCallFits
  <2> QED BY <2>1, <2>2
<1> QED BY <1>1, <1>2, <1>3 DEF EndpointsInv, EndpointNamesUnique

\* A document is replaced by one that has another name only if nobody has it.
LEMMA ReplacedNamesUnique ==
    ASSUME endpoints \in Seq(EndpointDocs), EndpointNamesUnique, NEW id \in DOMAIN endpoints,
           NEW endpoint \in EndpointDocs, ~NameExists(endpoint.name, id)
    PROVE  LET after == [endpoints EXCEPT ![id] = endpoint]
           IN  /\ after \in Seq(EndpointDocs)
               /\ DOMAIN after = DOMAIN endpoints
               /\ \A i, j \in DOMAIN after : after[i].name = after[j].name => i = j
BY DEF EndpointNamesUnique, NameExists

-------------------------------------------------------------------------------
LEMMA ProposeEndpointKeeps ==
    ASSUME EndpointsInv, NEW c \in EndpointCallers, NEW kind \in EndpointKinds,
           NEW name \in EndpointNames, ProposeEndpoint(c, kind, name)
    PROVE  EndpointsInv'
<1>1. EndpointCallFits([phase |-> "insert", kind |-> kind, name |-> name])
  BY DEF ProposeEndpoint, EndpointCallFits
<1> QED BY <1>1, EndpointStepKeeps DEF ProposeEndpoint

LEMMA InsertEndpointKeeps ==
    ASSUME EndpointsInv, NEW c \in EndpointCallers, NEW status \in EndpointStatuses,
           InsertEndpoint(c, status)
    PROVE  EndpointsInv'
<1> DEFINE q == endpointCalls[c]
           new == [kind |-> q.kind, name |-> q.name, status |-> status, health |-> NoHealth]
<1>1. EndpointsWritten(c, Append(endpoints, new), Append(intended, new))
  BY DEF InsertEndpoint
<1>2. q.phase = "insert"
  BY DEF InsertEndpoint
<1>3. ASSUME ~overlapped
      PROVE  /\ Append(endpoints, new) \in Seq(EndpointDocs)
             /\ Append(endpoints, new) = Append(intended, new)
             /\ DOMAIN endpoints \subseteq DOMAIN Append(endpoints, new)
             /\ \A i, j \in DOMAIN Append(endpoints, new) :
                    Append(endpoints, new)[i].name = Append(endpoints, new)[j].name => i = j
  <2>1. /\ endpoints \in Seq(EndpointDocs) /\ endpoints = intended /\ EndpointNamesUnique
        /\ q.kind \in EndpointKinds /\ q.name \in EndpointNames /\ ~NameExists(q.name, 0)
    BY <1>2, <1>3 DEF EndpointsInv, EndpointCallFits
  <2>2. new \in EndpointDocs /\ new.name = q.name
    BY <2>1 DEF EndpointDocs
  <2> HIDE DEF new, q
  <2>3. \A i \in DOMAIN endpoints : endpoints[i].name # new.name
    BY <2>1, <2>2 DEF NameExists
  <2> QED BY <2>1, <2>2, <2>3 DEF EndpointNamesUnique
<1> HIDE DEF new
<1> QED BY <1>1, <1>3, EndpointWriteKeeps

LEMMA ReadEndpointKeeps ==
    ASSUME EndpointsInv, NEW c \in EndpointCallers, NEW id \in DOMAIN endpoints,
           UpdateReadsEndpoint(c, id) \/ TestReadsEndpoint(c, id)
    PROVE  EndpointsInv'
<1>1. CASE UpdateReadsEndpoint(c, id)
  <2>1. EndpointCallFits([phase |-> "unique", id |-> id, current |-> endpoints[id]])
    BY DEF EndpointCallFits
  <2> QED BY <1>1, <2>1, EndpointStepKeeps DEF UpdateReadsEndpoint
<1>2. CASE TestReadsEndpoint(c, id)
  <2>1. ~overlapped => EndpointCallFits([phase |-> "probe", id |-> id, endpoint |-> endpoints[id]])
    BY DEF EndpointCallFits, EndpointsInv
  <2> QED BY <1>2, <2>1, EndpointStepKeeps DEF TestReadsEndpoint
<1> QED BY <1>1, <1>2

LEMMA ReviseEndpointKeeps ==
    ASSUME EndpointsInv, NEW c \in EndpointCallers, NEW endpoint,
           endpointCalls[c].phase = "unique",
           ~overlapped => /\ endpoint \in EndpointDocs
                          /\ endpoint.kind = endpointCalls[c].current.kind
                          /\ endpoint.health \in {NoHealth, endpointCalls[c].current.health},
           ReviseEndpoint(c, endpoint)
    PROVE  EndpointsInv'
<1> DEFINE call == [phase |-> "replace", id |-> endpointCalls[c].id, endpoint |-> endpoint]
<1>1. ~NameExists(endpoint.name, endpointCalls[c].id) /\ EndpointStep(c, call)
  BY DEF ReviseEndpoint
<1>2. ~overlapped => /\ endpointCalls[c].id \in DOMAIN endpoints
                     /\ endpointCalls[c].current = endpoints[endpointCalls[c].id]
  BY DEF EndpointsInv, EndpointCallFits
<1>3. ~overlapped => EndpointCallFits(call)
  BY <1>1, <1>2 DEF EndpointCallFits
<1> HIDE DEF call
<1> QED BY <1>1, <1>3, EndpointStepKeeps

LEMMA UpdateEndpointKeeps ==
    ASSUME EndpointsInv, NEW c \in EndpointCallers, NEW name \in EndpointNames,
           NEW status \in EndpointStatuses,
           UpdateEndpoint(c, name, status) \/ UpdateLogEndpoint(c, name, status)
    PROVE  EndpointsInv'
<1> DEFINE current == endpointCalls[c].current
<1>1. endpointCalls[c].phase = "unique"
  BY DEF UpdateEndpoint, UpdateLogEndpoint
<1>2. ASSUME ~overlapped PROVE current \in EndpointDocs
  <2>1. /\ endpoints \in Seq(EndpointDocs) /\ endpointCalls[c].id \in DOMAIN endpoints
        /\ current = endpoints[endpointCalls[c].id]
    BY <1>1, <1>2 DEF EndpointsInv, EndpointCallFits
  <2> QED BY <2>1
<1>3. PICK endpoint :
         /\ ReviseEndpoint(c, endpoint)
         /\ \/ endpoint = [current EXCEPT !.name = name, !.status = status]
            \/ endpoint = [current EXCEPT !.name = name, !.status = status, !.health = NoHealth]
  BY DEF UpdateEndpoint, UpdateLogEndpoint
<1> HIDE DEF current
<1>4. ~overlapped => /\ endpoint \in EndpointDocs
                     /\ endpoint.kind = current.kind
                     /\ endpoint.health \in {NoHealth, current.health}
  BY <1>2, <1>3 DEF EndpointDocs
<1> QED BY <1>1, <1>3, <1>4, ReviseEndpointKeeps DEF current

LEMMA ReplaceEndpointKeeps ==
    ASSUME EndpointsInv, NEW c \in EndpointCallers, ReplaceEndpoint(c)
    PROVE  EndpointsInv'
<1> DEFINE q == endpointCalls[c]
           after == [endpoints EXCEPT ![q.id] = q.endpoint]
           meant == [endpoints EXCEPT ![q.id].name = q.endpoint.name,
                        ![q.id].status = q.endpoint.status,
                        ![q.id].health = IF q.endpoint.health = NoHealth THEN NoHealth ELSE @]
<1>1. q.phase = "replace" /\ EndpointsWritten(c, after, meant)
  BY DEF ReplaceEndpoint
<1>2. ASSUME ~overlapped
      PROVE  /\ after \in Seq(EndpointDocs)
             /\ after = meant
             /\ DOMAIN endpoints \subseteq DOMAIN after
             /\ \A i, j \in DOMAIN after : after[i].name = after[j].name => i = j
  <2>1. /\ endpoints \in Seq(EndpointDocs) /\ EndpointNamesUnique
        /\ q.id \in DOMAIN endpoints /\ q.endpoint \in EndpointDocs
        /\ q.endpoint.kind = endpoints[q.id].kind
        /\ q.endpoint.health \in {NoHealth, endpoints[q.id].health}
        /\ ~NameExists(q.endpoint.name, q.id)
    BY <1>1, <1>2 DEF EndpointsInv, EndpointCallFits
  <2>2. endpoints[q.id] \in EndpointDocs
    BY <2>1
  <2> HIDE DEF q
  <2>3. PICK old \in EndpointDocs : old = endpoints[q.id]
    BY <2>2
  <2>4. q.endpoint = [old EXCEPT !.name = q.endpoint.name, !.status = q.endpoint.status,
                          !.health = IF q.endpoint.health = NoHealth THEN NoHealth ELSE @]
    BY <2>1, <2>3 DEF EndpointDocs
  <2>5. meant = [endpoints EXCEPT ![q.id] =
                    [old EXCEPT !.name = q.endpoint.name, !.status = q.endpoint.status,
                          !.health = IF q.endpoint.health = NoHealth THEN NoHealth ELSE @]]
    BY <2>1, <2>3
  <2>6. after = meant
    BY <2>4, <2>5
  <2> HIDE DEF meant
  <2>7. /\ after \in Seq(EndpointDocs)
        /\ DOMAIN after = DOMAIN endpoints
        /\ \A i, j \in DOMAIN after : after[i].name = after[j].name => i = j
    BY <2>1, ReplacedNamesUnique
  <2> QED BY <2>6, <2>7
<1> HIDE DEF after, meant
<1> QED BY <1>1, <1>2, EndpointWriteKeeps

LEMMA persistHealthKeeps ==
    ASSUME EndpointsInv, NEW c \in EndpointCallers, persistHealth(c)
    PROVE  EndpointsInv'
<1> DEFINE q == endpointCalls[c]
<1>1. PICK health \in testEndpoint(q.endpoint) :
         EndpointStep(c, [phase |-> "record", id |-> q.id,
                          endpoint |-> [endpoints[q.id] EXCEPT !.health = health]])
  BY DEF persistHealth
<1>2. health \in {"healthy", "failed", "pending"}
  BY DEF testEndpoint, testVictoriaMetrics
<1>3. ~overlapped => q.id \in DOMAIN endpoints
  BY DEF persistHealth, EndpointsInv, EndpointCallFits
<1> DEFINE call == [phase |-> "record", id |-> q.id,
                    endpoint |-> [endpoints[q.id] EXCEPT !.health = health]]
<1>4. ~overlapped => EndpointCallFits(call)
  BY <1>2, <1>3 DEF EndpointCallFits
<1> HIDE DEF call
<1> QED BY <1>1, <1>4, EndpointStepKeeps DEF call

LEMMA RecordHealthKeeps ==
    ASSUME EndpointsInv, NEW c \in EndpointCallers, RecordHealth(c)
    PROVE  EndpointsInv'
<1> DEFINE q == endpointCalls[c]
           after == [endpoints EXCEPT ![q.id] = q.endpoint]
           meant == [endpoints EXCEPT ![q.id].health = q.endpoint.health]
<1>1. q.phase = "record" /\ EndpointsWritten(c, after, meant)
  BY DEF RecordHealth
<1>2. ASSUME ~overlapped
      PROVE  /\ after \in Seq(EndpointDocs)
             /\ after = meant
             /\ DOMAIN endpoints \subseteq DOMAIN after
             /\ \A i, j \in DOMAIN after : after[i].name = after[j].name => i = j
  <2>1. /\ endpoints \in Seq(EndpointDocs) /\ EndpointNamesUnique
        /\ q.id \in DOMAIN endpoints
        /\ \E health \in {"healthy", "failed", "pending"} :
               q.endpoint = [endpoints[q.id] EXCEPT !.health = health]
    BY <1>1, <1>2 DEF EndpointsInv, EndpointCallFits
  <2> HIDE DEF q
  <2>6. PICK old \in EndpointDocs : old = endpoints[q.id]
    BY <2>1
  <2>2. PICK health \in {"healthy", "failed", "pending"} :
           old = endpoints[q.id] /\ q.endpoint = [old EXCEPT !.health = health]
    BY <2>1, <2>6
  <2>3. /\ q.endpoint \in EndpointDocs /\ q.endpoint.name = old.name
        /\ q.endpoint.health = health
    BY <2>2 DEF EndpointDocs
  <2>4. ~NameExists(q.endpoint.name, q.id)
    BY <2>1, <2>2, <2>3 DEF NameExists, EndpointNamesUnique
  <2>5. after = meant
    BY <2>1, <2>2, <2>3
  <2> QED BY <2>1, <2>3, <2>4, <2>5, ReplacedNamesUnique
<1> HIDE DEF after, meant
<1> QED BY <1>1, <1>2, EndpointWriteKeeps

LEMMA EndpointFailKeeps ==
    ASSUME EndpointsInv, NEW c \in EndpointCallers, EndpointCallFails(c)
    PROVE  EndpointsInv'
<1>1. EndpointCallFits(NoEndpointCall)
  BY DEF EndpointCallFits, NoEndpointCall
<1> QED BY <1>1, EndpointStepKeeps DEF EndpointCallFails

LEMMA EndpointsInvNext == EndpointsInv /\ [EndpointsNext]_endpointVars => EndpointsInv'
<1> SUFFICES ASSUME EndpointsInv, [EndpointsNext]_endpointVars PROVE EndpointsInv'
  OBVIOUS
<1>1. CASE UNCHANGED endpointVars
  BY <1>1 DEF endpointVars, EndpointsInv, EndpointCallFits, NameExists, EndpointNamesUnique
<1>2. CASE EndpointsNext
  <2>1. PICK c \in EndpointCallers :
           \/ \E name \in EndpointNames :
                  \/ \E kind \in EndpointKinds : ProposeEndpoint(c, kind, name)
                  \/ \E status \in EndpointStatuses :
                         UpdateEndpoint(c, name, status) \/ UpdateLogEndpoint(c, name, status)
           \/ \E status \in EndpointStatuses : InsertEndpoint(c, status)
           \/ \E id \in DOMAIN endpoints : UpdateReadsEndpoint(c, id) \/ TestReadsEndpoint(c, id)
           \/ ReplaceEndpoint(c) \/ persistHealth(c) \/ RecordHealth(c)
           \/ EndpointCallFails(c)
    BY <1>2 DEF EndpointsNext, CreateEndpoint, CreateLogEndpoint, EndpointKinds
  <2> QED BY <2>1, ProposeEndpointKeeps, UpdateEndpointKeeps, InsertEndpointKeeps,
             ReadEndpointKeeps, ReplaceEndpointKeeps, persistHealthKeeps, RecordHealthKeeps,
             EndpointFailKeeps
<1> QED BY <1>1, <1>2

\* However long the tests of endpoints take, and whatever is edited meanwhile, the endpoints
\* are what edits and tests were meant to leave and their names are unique, unless something
\* was written between a read and its write (observability/endpoint and logs).
THEOREM TestsKeepEdits == EndpointsSpec => []EditsSurviveTests
<1>1. EndpointsInv => EditsSurviveTests
  BY DEF EndpointsInv, EndpointNamesUnique, EditsSurviveTests
<1> QED BY EndpointsInvInit, EndpointsInvNext, <1>1, PTL DEF EndpointsSpec

-------------------------------------------------------------------------------
(********************************************************************************)
(* The runtime view.  The graph does not change once it is listed.  The groups  *)
(* that are built are closed, disjoint and each connected; the component under  *)
(* way is connected with its queue, and closed but for the queue, which is how  *)
(* the search never meets a node of another group.  Totals are cardinalities:   *)
(* of the pods gone through, then of the pods of the workloads summed up.       *)
(********************************************************************************)

\* Induction over a finite set, without an operator: a family of subsets that holds the empty
\* one, and with one also that with an element more, holds the set.
LEMMA FiniteInduction ==
    ASSUME NEW S, IsFiniteSet(S), NEW Q \in SUBSET SUBSET S, {} \in Q,
           \A T \in Q : \A x \in S : T \cup {x} \in Q
    PROVE  S \in Q
<1> DEFINE Others == (SUBSET S) \ Q
<1>1. SUFFICES ASSUME S \notin Q PROVE FALSE
  OBVIOUS
<1>2. Others \subseteq FiniteSubsetsOf(S) /\ Others # {}
  BY <1>1, FS_Subset DEF FiniteSubsetsOf
<1>3. IsWellFoundedOn(StrictSubsetOrdering(S), FiniteSubsetsOf(S))
  BY FS_StrictSubsetOrderingWellFounded
<1>4. PICK T \in Others : \A U \in Others : <<U, T>> \notin StrictSubsetOrdering(S)
  <2> HIDE DEF Others
  <2> QED BY <1>2, <1>3, WFMin
<1>5. PICK x : x \in T
  BY <1>4
<1>6. T \ {x} \in Q
  <2>1. <<T \ {x}, T>> \in (SUBSET S) \X (SUBSET S) /\ T \ {x} # T
    BY <1>5
  <2>2. <<T \ {x}, T>> \in StrictSubsetOrdering(S)
    BY <2>1 DEF StrictSubsetOrdering
  <2>3. T \ {x} \notin Others
    BY <1>4, <2>2
  <2> QED BY <2>3
<1>7. (T \ {x}) \cup {x} = T
  BY <1>5
<1> QED BY <1>4, <1>5, <1>6, <1>7

\* Among finitely many numbers the first of the largest.
LEMMA FirstOfLargest ==
    ASSUME NEW S \in SUBSET Nat, IsFiniteSet(S), S # {}, NEW f \in [S -> Nat]
    PROVE  \E w \in S : \A v \in S : f[v] < f[w] \/ (f[v] = f[w] /\ w <= v)
<1> DEFINE First(w, T) == \A v \in T : f[v] < f[w] \/ (f[v] = f[w] /\ w <= v)
           Q == {T \in SUBSET S : T = {} \/ \E w \in T : First(w, T)}
<1>1. Q \in SUBSET SUBSET S /\ {} \in Q
  OBVIOUS
<1>2. ASSUME NEW T \in Q, NEW x \in S PROVE T \cup {x} \in Q
  <2>1. CASE T = {}
    <3>1. First(x, {x})
      OBVIOUS
    <3> QED BY <2>1, <3>1
  <2>2. CASE T # {}
    <3>1. PICK w \in T : First(w, T)
      BY <2>2
    <3>2. w \in S /\ w \in Nat /\ x \in Nat /\ f[w] \in Nat /\ f[x] \in Nat /\ T \subseteq S
      OBVIOUS
    <3>3. CASE f[x] < f[w] \/ (f[x] = f[w] /\ w <= x)
      <4>1. First(w, T \cup {x})
        BY <3>1, <3>3
      <4> QED BY <4>1
    <3>4. CASE ~(f[x] < f[w] \/ (f[x] = f[w] /\ w <= x))
      <4>1. f[w] < f[x] \/ (f[w] = f[x] /\ x < w)
        BY <3>2, <3>4
      <4>2. ASSUME NEW v \in T PROVE f[v] < f[x] \/ (f[v] = f[x] /\ x <= v)
        <5>1. v \in Nat /\ f[v] \in Nat
          BY <3>2
        <5>2. f[v] < f[w] \/ (f[v] = f[w] /\ w <= v)
          BY <3>1
        <5> QED BY <5>1, <5>2, <4>1, <3>2
      <4>3. First(x, T \cup {x})
        BY <4>2, <3>2
      <4> QED BY <4>3
    <3> QED BY <3>3, <3>4
  <2> QED BY <2>1, <2>2
<1>3. S \in Q
  <2> HIDE DEF Q
  <2> QED BY <1>1, <1>2, FiniteInduction
<1> QED BY <1>3

-------------------------------------------------------------------------------
\* The graph

\* All that links lead to from a node.
Reached(n) == Connected(n, ClosedSets)

LEMMA NodeKinds ==
    \A n \in Nodes : n[1] \in {"service", "workload"}
BY DEF Nodes, ServiceNode, WorkloadNode

LEMMA LinksAreMutual ==
    /\ \A n : Linked(n) \subseteq Nodes
    /\ \A n, m \in Nodes : m \in Linked(n) <=> n \in Linked(m)
BY DEF Linked

LEMMA Closed ==
    ASSUME NEW C
    PROVE  C \in ClosedSets <=>
               C \subseteq FreeNodes /\ \A n \in C : Linked(n) \cap FreeNodes \subseteq C
<1> DEFINE near == [n \in FreeNodes |-> Linked(n) \cap FreeNodes]
<1>1. C \in ClosedSets <=> C \in SUBSET FreeNodes /\ \A n \in C : near[n] \subseteq C
  BY DEF ClosedSets
<1>2. ASSUME NEW n \in FreeNodes PROVE near[n] = Linked(n) \cap FreeNodes
  OBVIOUS
<1> HIDE DEF near
<1> QED BY <1>1, <1>2

\* Links lead from a node to itself and to its neighbours, on from where they lead, and back.
LEMMA ReachedFacts ==
    /\ \A a \in FreeNodes : a \in Reached(a) /\ Reached(a) \subseteq FreeNodes
    /\ \A a \in FreeNodes : Linked(a) \cap FreeNodes \subseteq Reached(a)
    /\ \A a, b \in FreeNodes : b \in Reached(a) => a \in Reached(b)
    /\ \A a, b, c \in FreeNodes : b \in Reached(a) /\ c \in Reached(b) => c \in Reached(a)
<1>1. \A a, b : b \in Reached(a) <=> b \in FreeNodes /\ \A C \in ClosedSets : a \in C => b \in C
  BY DEF Reached, Connected
<1>2. FreeNodes \subseteq Nodes
  BY DEF FreeNodes
<1>3. ASSUME NEW a \in FreeNodes, NEW b \in FreeNodes, b \in Reached(a), a \notin Reached(b) PROVE FALSE
  <2>1. PICK C \in ClosedSets : b \in C /\ a \notin C
    BY <1>1, <1>3
  <2>2. C \subseteq FreeNodes /\ \A n \in C : Linked(n) \cap FreeNodes \subseteq C
    BY <2>1, Closed
  <2>3. ASSUME NEW n \in FreeNodes \ C, NEW m \in Linked(n) \cap FreeNodes PROVE m \in FreeNodes \ C
    <3>1. n \in Linked(m)
      BY <1>2, LinksAreMutual
    <3> QED BY <2>2, <3>1
  <2>4. FreeNodes \ C \in ClosedSets
    BY <2>3, Closed
  <2> QED BY <1>1, <1>3, <2>1, <2>4
<1>4. ASSUME NEW a \in FreeNodes PROVE Linked(a) \cap FreeNodes \subseteq Reached(a)
  BY <1>1, Closed
<1> QED BY <1>1, <1>3, <1>4

LEMMA SameGraph ==
    ASSUME UNCHANGED <<services, workloads>>
    PROVE  /\ Nodes' = Nodes /\ FreeNodes' = FreeNodes /\ ClosedSets' = ClosedSets
           /\ \A n : App(n)' = App(n) /\ Linked(n)' = Linked(n) /\ Reached(n)' = Reached(n)
<1>1. Nodes' = Nodes
  BY DEF Nodes
<1>2. \A n : App(n)' = App(n)
  BY DEF App
<1>3. FreeNodes' = FreeNodes
  BY <1>1, <1>2 DEF FreeNodes
<1>4. \A n : Linked(n)' = Linked(n)
  BY <1>1 DEF Linked, runtimeServiceWorkloadLinks
<1>5. ClosedSets' = ClosedSets
  BY <1>3, <1>4 DEF ClosedSets
<1> QED BY <1>1, <1>2, <1>3, <1>4, <1>5 DEF Reached, Connected

\* A node names one application or none.
LEMMA OneApp ==
    ASSUME NEW n, NEW a \in App(n), NEW b \in App(n)
    PROVE  a = b
<1> DEFINE labels == IF n[1] = "service" THEN services[n[2]] ELSE workloads[n[2]].labels
           First(i) == AppKeys[i] \in DOMAIN labels /\ \A j \in 1..(i - 1) : AppKeys[j] \notin DOMAIN labels
<1>1. DOMAIN AppKeys \subseteq Nat \ {0}
  BY TopologyAssumption
<1>2. PICK i \in DOMAIN AppKeys : First(i) /\ a = labels[AppKeys[i]]
  BY DEF App, AppNames
<1>3. PICK j \in DOMAIN AppKeys : First(j) /\ b = labels[AppKeys[j]]
  BY DEF App, AppNames
<1> HIDE DEF labels
<1>4. ~(i < j) /\ ~(j < i)
  BY <1>1, <1>2, <1>3
<1>5. i = j
  BY <1>1, <1>4
<1> QED BY <1>2, <1>3, <1>5

-------------------------------------------------------------------------------
\* The groups

Grouped == {"groups", "sums", "answered"}

\* A group of nodes that name an application holds all that name it; a group of others is
\* closed, and links lead from each of its nodes to all of it.
LabelsTogether ==
    \A g \in groups : \A n \in g : \A m \in Nodes :
        App(n) # {} => (m \in g <=> App(m) = App(n))
FreeTogether ==
    \A g \in groups : \A n \in g \cap FreeNodes : Linked(n) \cap FreeNodes \subseteq g /\ g \subseteq Reached(n)

\* The component under way: what links lead to from it is in the queue, or in it.
ComponentInv ==
    /\ component \subseteq FreeNodes /\ queue \subseteq FreeNodes \ visited
    /\ \A n \in component : Linked(n) \cap FreeNodes \subseteq component \cup queue
    /\ \A n, m \in component \cup queue : m \in Reached(n)
    /\ \A g \in groups : g \cap component = {}

GroupsDisjoint ==
    /\ \A g \in groups : g \subseteq Nodes /\ g # {}
    /\ \A g, h \in groups : g \cap h # {} => g = h

VisitedInv ==
    /\ visited = (UNION groups) \cup component
    /\ Nodes \ FreeNodes \subseteq UNION groups

GroupsInv ==
    /\ viewPhase \notin Grouped => queue = {} /\ component = {}
    /\ viewPhase \in Grouped =>
           VisitedInv /\ GroupsDisjoint /\ LabelsTogether /\ FreeTogether /\ ComponentInv
    /\ viewPhase \in {"sums", "answered"} => component = {} /\ queue = {} /\ visited = Nodes

LEMMA GroupsByApp ==
    ASSUME queue = {}, component = {}, runtimeGroupsByAppLabels
    PROVE  GroupsInv'
<1>1. UNCHANGED <<services, workloads>> /\ UNCHANGED <<queue, component>>
  BY DEF runtimeGroupsByAppLabels, listVars
<1>2. /\ viewPhase' = "groups"
      /\ groups' = {{n \in Nodes : app \in App(n)} : app \in UNION {App(n) : n \in Nodes}}
      /\ visited' = {n \in Nodes : App(n) # {}}
  BY DEF runtimeGroupsByAppLabels, Continues
<1>3. ASSUME NEW g \in groups', NEW n \in g, NEW m \in Nodes
      PROVE  n \in Nodes /\ App(n) # {} /\ (m \in g <=> App(m) = App(n))
  <2>1. PICK app : g = {x \in Nodes : app \in App(x)}
    BY <1>2
  <2>2. n \in Nodes /\ app \in App(n)
    BY <2>1
  <2>3. app \in App(m) <=> App(m) = App(n)
    BY <2>2, OneApp
  <2> QED BY <2>1, <2>2, <2>3
<1>4. ASSUME NEW n \in Nodes, App(n) # {} PROVE \E g \in groups' : n \in g
  <2>1. PICK app : app \in App(n)
    BY <1>4
  <2>2. {x \in Nodes : app \in App(x)} \in groups'
    BY <1>2, <2>1
  <2> QED BY <2>1, <2>2
<1>5. ASSUME NEW g \in groups' PROVE g \subseteq Nodes /\ g # {} /\ g \cap FreeNodes = {}
  <2>1. PICK app \in UNION {App(n) : n \in Nodes} : g = {n \in Nodes : app \in App(n)}
    BY <1>2
  <2>2. PICK x \in Nodes : app \in App(x)
    BY <2>1
  <2> QED BY <2>1, <2>2 DEF FreeNodes
<1>6. VisitedInv'
  <2>1. visited' = UNION groups'
    BY <1>2, <1>3, <1>4, <1>5
  <2>2. Nodes \ FreeNodes \subseteq UNION groups'
    BY <1>4 DEF FreeNodes
  <2> QED BY <1>1, <2>1, <2>2, SameGraph DEF VisitedInv
<1>7. GroupsDisjoint'
  <2>1. ASSUME NEW g \in groups', NEW h \in groups', g \cap h # {} PROVE g = h
    <3>1. PICK n : n \in g /\ n \in h
      BY <2>1
    <3>2. g \subseteq Nodes /\ h \subseteq Nodes
      BY <1>5
    <3> QED BY <1>3, <3>1, <3>2
  <2> QED BY <1>1, <1>5, <2>1, SameGraph DEF GroupsDisjoint
<1>8. LabelsTogether'
  BY <1>1, <1>3, SameGraph DEF LabelsTogether
<1>9. FreeTogether'
  BY <1>1, <1>5, SameGraph DEF FreeTogether
<1>10. ComponentInv'
  BY <1>1 DEF ComponentInv
<1> QED BY <1>1, <1>2, <1>6, <1>7, <1>8, <1>9, <1>10 DEF GroupsInv, Grouped

LEMMA GroupsStart ==
    ASSUME GroupsInv, NEW n \in Nodes, StartComponent(n)
    PROVE  GroupsInv'
<1>1. /\ UNCHANGED <<services, workloads>> /\ UNCHANGED <<viewPhase, visited, component, groups>>
      /\ viewPhase = "groups" /\ component = {} /\ queue' = {n} /\ n \notin visited
  BY DEF StartComponent, listVars, Starts
<1>2. VisitedInv /\ GroupsDisjoint /\ LabelsTogether /\ FreeTogether
  BY <1>1 DEF GroupsInv, Grouped
<1>3. n \in FreeNodes
  BY <1>1, <1>2 DEF VisitedInv
<1>4. ComponentInv'
  BY <1>1, <1>3, SameGraph, ReachedFacts DEF ComponentInv
<1>5. VisitedInv' /\ GroupsDisjoint'
  BY <1>1, <1>2, SameGraph DEF VisitedInv, GroupsDisjoint
<1>6. LabelsTogether' /\ FreeTogether'
  BY <1>1, <1>2, SameGraph DEF LabelsTogether, FreeTogether
<1> QED BY <1>1, <1>4, <1>5, <1>6 DEF GroupsInv, Grouped

LEMMA GroupsCollect ==
    ASSUME GroupsInv, NEW n \in Nodes, collectRuntimeComponent(n)
    PROVE  GroupsInv'
<1>1. /\ UNCHANGED <<services, workloads>> /\ UNCHANGED <<viewPhase, groups>>
      /\ viewPhase = "groups" /\ n \in queue
      /\ visited' = visited \cup {n} /\ component' = component \cup {n}
      /\ queue' = (queue \cup Linked(n)) \ (visited \cup {n})
  BY DEF collectRuntimeComponent, listVars
<1>2. VisitedInv /\ GroupsDisjoint /\ LabelsTogether /\ FreeTogether /\ ComponentInv
  BY <1>1 DEF GroupsInv, Grouped
<1>3. n \in FreeNodes /\ n \notin visited
  BY <1>1, <1>2 DEF ComponentInv
<1>4. queue' \subseteq FreeNodes \ visited'
  <2>1. Linked(n) \subseteq Nodes /\ Nodes \ FreeNodes \subseteq visited
    BY <1>2, LinksAreMutual DEF VisitedInv
  <2>2. queue \subseteq FreeNodes
    BY <1>2 DEF ComponentInv
  <2> QED BY <1>1, <2>1, <2>2
<1>5. ASSUME NEW m \in Linked(n) \cap FreeNodes PROVE m \in component' \cup queue'
  <2>1. ASSUME m \in visited, m \notin component PROVE FALSE
    <3>1. PICK g \in groups : m \in g
      BY <1>2, <2>1 DEF VisitedInv
    <3>2. n \in Linked(m)
      BY LinksAreMutual DEF FreeNodes
    <3>3. n \in g
      BY <1>2, <1>3, <3>1, <3>2 DEF FreeTogether
    <3> QED BY <1>2, <1>3, <3>3 DEF VisitedInv
  <2> QED BY <1>1, <2>1
<1>6. ASSUME NEW x \in component' PROVE Linked(x) \cap FreeNodes \subseteq component' \cup queue'
  <2>1. CASE x = n
    BY <1>5, <2>1
  <2>2. CASE x \in component
    <3>1. Linked(x) \cap FreeNodes \subseteq component \cup queue
      BY <1>2, <2>2 DEF ComponentInv
    <3>2. queue \subseteq queue' \cup {n}
      BY <1>1, <1>2 DEF ComponentInv
    <3> QED BY <1>1, <3>1, <3>2
  <2> QED BY <1>1, <2>1, <2>2
<1>7. ASSUME NEW x \in component' \cup queue' PROVE x \in FreeNodes /\ x \in Reached(n) /\ n \in Reached(x)
  <2>1. x \in FreeNodes
    BY <1>1, <1>2, <1>3, <1>4 DEF ComponentInv
  <2>2. CASE x \in component \cup queue
    BY <1>1, <1>2, <2>1, <2>2 DEF ComponentInv
  <2>3. CASE x \in Linked(n)
    BY <1>3, <2>1, <2>3, ReachedFacts
  <2> QED BY <1>1, <2>1, <2>2, <2>3
<1>8. \A x, y \in component' \cup queue' : y \in Reached(x)
  BY <1>3, <1>7, ReachedFacts
<1>9. \A g \in groups : g \cap component' = {}
  BY <1>1, <1>2, <1>3 DEF ComponentInv, VisitedInv
<1>10. component' \subseteq FreeNodes
  BY <1>1, <1>2, <1>3 DEF ComponentInv
<1>11. ComponentInv'
  BY <1>1, <1>4, <1>6, <1>8, <1>9, <1>10, SameGraph DEF ComponentInv
<1>12. VisitedInv' /\ GroupsDisjoint'
  BY <1>1, <1>2, SameGraph DEF VisitedInv, GroupsDisjoint
<1>13. LabelsTogether' /\ FreeTogether'
  BY <1>1, <1>2, SameGraph DEF LabelsTogether, FreeTogether
<1> QED BY <1>1, <1>11, <1>12, <1>13 DEF GroupsInv, Grouped

LEMMA GroupsBuild ==
    ASSUME GroupsInv, buildRuntimeGroup
    PROVE  GroupsInv'
<1>1. /\ UNCHANGED <<services, workloads>> /\ UNCHANGED <<viewPhase, visited, queue>>
      /\ viewPhase = "groups" /\ queue = {} /\ component # {}
      /\ groups' = groups \cup {component} /\ component' = {}
  BY DEF buildRuntimeGroup, listVars
<1>2. VisitedInv /\ GroupsDisjoint /\ LabelsTogether /\ FreeTogether /\ ComponentInv
  BY <1>1 DEF GroupsInv, Grouped
<1>3. /\ component \subseteq FreeNodes /\ \A g \in groups : g \cap component = {}
      /\ \A n \in component : Linked(n) \cap FreeNodes \subseteq component /\ component \subseteq Reached(n)
  BY <1>1, <1>2 DEF ComponentInv
<1>4. VisitedInv'
  <2>1. UNION groups' = (UNION groups) \cup component
    BY <1>1
  <2> QED BY <1>1, <1>2, <2>1, SameGraph DEF VisitedInv
<1>5. GroupsDisjoint'
  BY <1>1, <1>2, <1>3, SameGraph DEF GroupsDisjoint, FreeNodes
<1>6. LabelsTogether'
  BY <1>1, <1>2, <1>3, SameGraph DEF LabelsTogether, FreeNodes
<1>7. FreeTogether'
  BY <1>1, <1>2, <1>3, SameGraph DEF FreeTogether
<1>8. ComponentInv'
  BY <1>1 DEF ComponentInv
<1> QED BY <1>1, <1>4, <1>5, <1>6, <1>7, <1>8 DEF GroupsInv, Grouped

\* Steps that leave the graph and the groups alone.
LEMMA GroupsStay ==
    ASSUME GroupsInv, UNCHANGED <<services, workloads, groupVars>>,
           \/ viewPhase' = viewPhase
           \/ viewPhase' \in Grouped \ {"groups"} /\ viewPhase \in Grouped
              /\ component = {} /\ queue = {} /\ visited = Nodes
    PROVE  GroupsInv'
<1>1. UNCHANGED <<services, workloads>> /\ UNCHANGED <<visited, queue, component, groups>>
  BY DEF groupVars
<1>2. VisitedInv' = VisitedInv /\ GroupsDisjoint' = GroupsDisjoint /\ LabelsTogether' = LabelsTogether
      /\ FreeTogether' = FreeTogether /\ ComponentInv' = ComponentInv
  BY <1>1, SameGraph DEF VisitedInv, GroupsDisjoint, LabelsTogether, FreeTogether, ComponentInv
<1> QED BY <1>1, <1>2, SameGraph DEF GroupsInv, Grouped

-------------------------------------------------------------------------------
\* The totals

TopologyTypes ==
    /\ DOMAIN services \subseteq ServiceNames /\ DOMAIN workloads \subseteq WorkloadKeys
    /\ DOMAIN pods \subseteq Pods
    /\ \A w \in DOMAIN workloads : workloads[w] \in WorkloadSpecs

\* A pod that a workload selects counts for one, another for none.
LEMMA OneMatch ==
    ASSUME TopologyTypes, NEW labels
    PROVE  /\ bestRuntimeWorkloadMatch(labels) \subseteq DOMAIN workloads
           /\ \A v, w \in bestRuntimeWorkloadMatch(labels) : v = w
           /\ bestRuntimeWorkloadMatch(labels) # {} <=>
                  \E w \in DOMAIN workloads : runtimeSelectorMatches(workloads[w].selector, labels)
<1> DEFINE M == {w \in DOMAIN workloads : runtimeSelectorMatches(workloads[w].selector, labels)}
           f == [w \in M |-> Cardinality(DOMAIN workloads[w].selector)]
<1>1. bestRuntimeWorkloadMatch(labels) =
          {w \in M : \A v \in M : f[v] < f[w] \/ (f[v] = f[w] /\ w <= v)}
  BY DEF bestRuntimeWorkloadMatch
<1>2. M \in SUBSET Nat /\ IsFiniteSet(M)
  <2>1. M \in SUBSET WorkloadKeys
    BY DEF TopologyTypes
  <2> HIDE DEF M
  <2> QED BY <2>1, FS_Subset, TopologyAssumption
<1>3. ASSUME NEW w \in M PROVE Cardinality(DOMAIN workloads[w].selector) \in Nat
  <2>1. IsFiniteSet(DOMAIN workloads[w].selector)
    BY TopologyAssumption DEF TopologyTypes
  <2> QED BY <2>1, FS_CardinalityType
<1>4. f \in [M -> Nat]
  BY <1>3
<1>5. M \subseteq DOMAIN workloads
  OBVIOUS
<1>6. M # {} <=> \E w \in DOMAIN workloads : runtimeSelectorMatches(workloads[w].selector, labels)
  OBVIOUS
<1> HIDE DEF M, f
<1>7. M # {} => bestRuntimeWorkloadMatch(labels) # {}
  BY <1>1, <1>2, <1>4, FirstOfLargest
<1>8. ASSUME NEW v \in bestRuntimeWorkloadMatch(labels), NEW w \in bestRuntimeWorkloadMatch(labels)
      PROVE  v = w
  <2>1. v \in M /\ w \in M /\ v \in Nat /\ w \in Nat /\ f[v] \in Nat /\ f[w] \in Nat
    BY <1>1, <1>2, <1>4, <1>8
  <2>2. f[v] < f[w] \/ (f[v] = f[w] /\ w <= v)
    BY <1>1, <1>8, <2>1
  <2>3. f[w] < f[v] \/ (f[w] = f[v] /\ v <= w)
    BY <1>1, <1>8, <2>1
  <2> QED BY <2>1, <2>2, <2>3
<1> QED BY <1>1, <1>5, <1>6, <1>7, <1>8

\* The pods that count for a workload, of those in a set; and for one of several.
PodsOf(w, some) == {p \in some : w \in bestRuntimeWorkloadMatch(pods[p])}
PodsOfAny(keys) == {p \in DOMAIN pods : bestRuntimeWorkloadMatch(pods[p]) \cap keys # {}}

SummedOf(g) == {w \in DOMAIN workloads : <<g, w>> \in summed}
Summed == {w \in DOMAIN workloads : \E g \in groups : <<g, w>> \in summed}

CountInv ==
    /\ viewPhase \in {"services", "workloads", "pods"} => counted = {}
    /\ viewPhase \notin {"services", "workloads", "pods"} =>
           /\ counted \subseteq DOMAIN pods
           /\ podSummaries = [w \in DOMAIN workloads |-> Cardinality(PodsOf(w, counted))]
    /\ viewPhase \notin {"services", "workloads", "pods", "count"} => counted = DOMAIN pods

SumInv ==
    /\ viewPhase \notin {"sums", "answered"} => summed = {} /\ podCount = 0
    /\ viewPhase \in {"sums", "answered"} =>
           /\ summed \subseteq GroupWorkloads
           /\ podsTotal = [g \in groups |-> Cardinality(PodsOfAny(SummedOf(g)))]
           /\ podCount = Cardinality(PodsOfAny(Summed))
    /\ viewPhase = "answered" => summed = GroupWorkloads

\* Another workload adds its pods, which none of those before has.
LEMMA PodsAdd ==
    ASSUME TopologyTypes, NEW keys, NEW w, w \notin keys
    PROVE  Cardinality(PodsOfAny(keys \cup {w})) =
               Cardinality(PodsOfAny(keys)) + Cardinality(PodsOf(w, DOMAIN pods))
<1>1. IsFiniteSet(DOMAIN pods)
  BY FS_Subset, TopologyAssumption DEF TopologyTypes
<1>2. PodsOfAny(keys) \in SUBSET DOMAIN pods /\ PodsOf(w, DOMAIN pods) \in SUBSET DOMAIN pods
  BY DEF PodsOfAny, PodsOf
<1>3. PodsOfAny(keys \cup {w}) = PodsOfAny(keys) \cup PodsOf(w, DOMAIN pods)
  BY DEF PodsOfAny, PodsOf
<1>4. PodsOfAny(keys) \cap PodsOf(w, DOMAIN pods) = {}
  BY OneMatch DEF PodsOfAny, PodsOf
<1>5. IsFiniteSet(PodsOfAny(keys)) /\ IsFiniteSet(PodsOf(w, DOMAIN pods))
  BY <1>1, <1>2, FS_Subset
<1>6. Cardinality(PodsOfAny(keys)) \in Nat /\ Cardinality(PodsOf(w, DOMAIN pods)) \in Nat
  BY <1>5, FS_CardinalityType
<1>7. Cardinality(PodsOfAny(keys) \cup PodsOf(w, DOMAIN pods)) =
          Cardinality(PodsOfAny(keys)) + Cardinality(PodsOf(w, DOMAIN pods)) - Cardinality({})
  BY <1>4, <1>5, FS_Union
<1>8. Cardinality(PodsOfAny(keys \cup {w})) = Cardinality(PodsOfAny(keys) \cup PodsOf(w, DOMAIN pods))
  BY <1>3, Zenon
<1>9. Cardinality({}) = 0
  BY FS_EmptySet
<1> QED BY <1>6, <1>7, <1>8, <1>9

LEMMA SamePods ==
    ASSUME UNCHANGED <<workloads, pods>>
    PROVE  /\ \A labels : bestRuntimeWorkloadMatch(labels)' = bestRuntimeWorkloadMatch(labels)
           /\ \A w, some : PodsOf(w, some)' = PodsOf(w, some)
           /\ \A keys : PodsOfAny(keys)' = PodsOfAny(keys)
<1>1. \A labels : bestRuntimeWorkloadMatch(labels)' = bestRuntimeWorkloadMatch(labels)
  BY DEF bestRuntimeWorkloadMatch
<1> QED BY <1>1 DEF PodsOf, PodsOfAny

LEMMA CountStep ==
    ASSUME TopologyTypes, CountInv, NEW p, CountPod(p)
    PROVE  CountInv'
<1>1. /\ UNCHANGED <<workloads, pods>> /\ viewPhase = "count" /\ viewPhase' = viewPhase
      /\ p \in DOMAIN pods /\ p \notin counted /\ counted' = counted \cup {p}
      /\ podSummaries' = [w \in DOMAIN workloads |->
             IF w \in bestRuntimeWorkloadMatch(pods[p]) THEN podSummaries[w] + 1 ELSE podSummaries[w]]
  BY DEF CountPod, listVars
<1>2. counted \subseteq DOMAIN pods /\ \A w \in DOMAIN workloads : podSummaries[w] = Cardinality(PodsOf(w, counted))
  BY <1>1 DEF CountInv
<1>3. ASSUME NEW w \in DOMAIN workloads PROVE podSummaries'[w] = Cardinality(PodsOf(w, counted \cup {p}))
  <2>1. PodsOf(w, counted) \in SUBSET DOMAIN pods /\ DOMAIN pods \in SUBSET Pods
    BY <1>2 DEF PodsOf, TopologyTypes
  <2>2. IsFiniteSet(PodsOf(w, counted))
    BY <2>1, FS_Subset, TopologyAssumption
  <2>3. CASE w \in bestRuntimeWorkloadMatch(pods[p])
    <3>1. PodsOf(w, counted \cup {p}) = PodsOf(w, counted) \cup {p} /\ p \notin PodsOf(w, counted)
      BY <1>1, <2>3 DEF PodsOf
    <3>2. Cardinality(PodsOf(w, counted \cup {p})) = Cardinality(PodsOf(w, counted)) + 1
      BY <2>2, <3>1, FS_AddElement
    <3> QED BY <1>1, <1>2, <2>3, <3>2
  <2>4. CASE w \notin bestRuntimeWorkloadMatch(pods[p])
    <3>1. PodsOf(w, counted \cup {p}) = PodsOf(w, counted)
      BY <2>4 DEF PodsOf
    <3> QED BY <1>1, <1>2, <2>4, <3>1
  <2> QED BY <2>3, <2>4
<1>4. podSummaries' = [w \in DOMAIN workloads |-> Cardinality(PodsOf(w, counted'))]
  BY <1>1, <1>3
<1>5. (DOMAIN workloads)' = DOMAIN workloads /\ \A w : PodsOf(w, counted)' = PodsOf(w, counted')
  BY <1>1, SamePods DEF PodsOf
<1> QED BY <1>1, <1>2, <1>4, <1>5 DEF CountInv

LEMMA SumStep ==
    ASSUME TopologyTypes, GroupsInv, CountInv, SumInv,
           NEW g \in groups, NEW w \in DOMAIN workloads, runtimeGroupsSummary(g, w)
    PROVE  SumInv'
<1>1. /\ UNCHANGED <<workloads, pods>> /\ UNCHANGED <<viewPhase, groups>>
      /\ viewPhase = "sums" /\ <<g, w>> \in GroupWorkloads /\ <<g, w>> \notin summed
      /\ summed' = summed \cup {<<g, w>>}
      /\ podsTotal' = [podsTotal EXCEPT ![g] = @ + podSummaries[w]]
      /\ podCount' = podCount + podSummaries[w]
  BY DEF runtimeGroupsSummary, listVars, groupVars
<1>2. /\ summed \subseteq GroupWorkloads
      /\ podsTotal = [h \in groups |-> Cardinality(PodsOfAny(SummedOf(h)))]
      /\ podCount = Cardinality(PodsOfAny(Summed))
  BY <1>1 DEF SumInv
<1>3. podSummaries[w] = Cardinality(PodsOf(w, DOMAIN pods))
  BY <1>1 DEF CountInv
<1>4. SummedOf(g)' = SummedOf(g) \cup {w} /\ w \notin SummedOf(g)
  BY <1>1 DEF SummedOf
<1>5. \A h \in groups \ {g} : SummedOf(h)' = SummedOf(h)
  BY <1>1 DEF SummedOf
<1>6. w \notin Summed
  <2>1. SUFFICES ASSUME NEW h \in groups, <<h, w>> \in summed PROVE FALSE
    BY DEF Summed
  <2>2. WorkloadNode(w) \in h /\ WorkloadNode(w) \in g
    BY <1>1, <1>2, <2>1 DEF GroupWorkloads
  <2>3. g = h
    BY <1>1, <2>2 DEF GroupsInv, Grouped, GroupsDisjoint
  <2> QED BY <1>1, <2>1, <2>3
<1>7. Summed' = Summed \cup {w}
  BY <1>1 DEF Summed
<1>8. Cardinality(PodsOfAny(SummedOf(g)')) = Cardinality(PodsOfAny(SummedOf(g))) + podSummaries[w]
  BY <1>3, <1>4, PodsAdd
<1>9. Cardinality(PodsOfAny(Summed')) = Cardinality(PodsOfAny(Summed)) + podSummaries[w]
  BY <1>3, <1>6, <1>7, PodsAdd
<1>10. podsTotal' = [h \in groups |-> Cardinality(PodsOfAny(SummedOf(h)'))]
  BY <1>1, <1>2, <1>5, <1>8
<1>11. podCount' = Cardinality(PodsOfAny(Summed'))
  BY <1>1, <1>2, <1>9
<1>12. summed' \subseteq GroupWorkloads /\ GroupWorkloads' = GroupWorkloads
  BY <1>1, <1>2 DEF GroupWorkloads
<1>13. /\ \A h : PodsOfAny(SummedOf(h))' = PodsOfAny(SummedOf(h)')
       /\ PodsOfAny(Summed)' = PodsOfAny(Summed')
  BY <1>1, SamePods DEF PodsOfAny
<1> QED BY <1>1, <1>10, <1>11, <1>12, <1>13 DEF SumInv

-------------------------------------------------------------------------------
\* The steps

TopologyInv ==
    /\ viewPhase \in {"services", "workloads", "pods", "count", "apps", "groups", "sums", "answered"}
    /\ TopologyTypes /\ GroupsInv /\ CountInv /\ SumInv

LEMMA TopologyStarts ==
    TopologyInit => TopologyInv
<1> SUFFICES ASSUME TopologyInit PROVE TopologyInv
  OBVIOUS
<1>1. DOMAIN None = {}
  BY DEF None
<1> QED BY <1>1 DEF TopologyInit, TopologyInv, TopologyTypes, GroupsInv, CountInv, SumInv, Grouped

\* The lists.
LEMMA ListsKeepTopology ==
    ASSUME TopologyInv, ListServices \/ ListWorkloads \/ ListPods \/ ListExposures
    PROVE  TopologyInv'
<1>1. /\ viewPhase \in {"services", "workloads", "pods", "count"}
      /\ viewPhase' \in {"workloads", "pods", "count", "apps"}
      /\ UNCHANGED <<counted, groupVars, sumVars>>
  BY DEF ListServices, ListWorkloads, ListPods, ListExposures, Continues, countVars
<1>2. GroupsInv' /\ SumInv'
  BY <1>1 DEF TopologyInv, GroupsInv, SumInv, Grouped, groupVars, sumVars
<1>3. TopologyTypes'
  <2>1. CASE ListServices
    BY <2>1 DEF ListServices, TopologyInv, TopologyTypes
  <2>2. CASE ListWorkloads
    BY <2>2 DEF ListWorkloads, TopologyInv, TopologyTypes
  <2>3. CASE ListPods
    BY <2>3 DEF ListPods, TopologyInv, TopologyTypes
  <2>4. CASE ListExposures
    BY <2>4 DEF ListExposures, TopologyInv, TopologyTypes
  <2> QED BY <2>1, <2>2, <2>3, <2>4
<1>4. CountInv'
  <2>1. CASE ListServices \/ ListWorkloads
    BY <1>1, <2>1 DEF ListServices, ListWorkloads, Continues, TopologyInv, CountInv
  <2>2. CASE ListPods
    <3>1. /\ viewPhase' = "count" /\ counted = {} /\ counted' = {}
          /\ podSummaries' = [w \in DOMAIN workloads |-> 0] /\ workloads' = workloads
      BY <1>1, <2>2 DEF ListPods, Continues, TopologyInv, CountInv
    <3>2. \A w : PodsOf(w, counted)' = {}
      BY <3>1 DEF PodsOf
    <3>3. podSummaries' = [w \in DOMAIN workloads' |-> Cardinality(PodsOf(w, counted)')]
      BY <3>1, <3>2, FS_EmptySet
    <3> QED BY <3>1, <3>3 DEF CountInv
  <2>3. CASE ListExposures
    <3>1. /\ UNCHANGED <<workloads, pods>> /\ UNCHANGED <<counted, podSummaries>>
          /\ viewPhase = "count" /\ viewPhase' = "apps" /\ counted = DOMAIN pods
      BY <2>3 DEF ListExposures, Continues, countVars
    <3>2. podSummaries = [w \in DOMAIN workloads |-> Cardinality(PodsOf(w, counted))]
      BY <3>1 DEF TopologyInv, CountInv
    <3>3. \A w : PodsOf(w, counted)' = PodsOf(w, counted)
      BY <3>1, SamePods
    <3> QED BY <3>1, <3>2, <3>3 DEF CountInv
  <2> QED BY <2>1, <2>2, <2>3
<1> QED BY <1>1, <1>2, <1>3, <1>4 DEF TopologyInv

\* A step after the lists leaves the counts alone.
LEMMA CountsStay ==
    ASSUME TopologyInv, UNCHANGED <<listVars, countVars>>,
           viewPhase \notin {"services", "workloads", "pods", "count"},
           viewPhase' \notin {"services", "workloads", "pods", "count"}
    PROVE  TopologyTypes' /\ CountInv'
<1>1. UNCHANGED <<services, workloads, pods, counted, podSummaries>> /\ UNCHANGED <<workloads, pods>>
  BY DEF listVars, countVars
<1>2. TopologyTypes'
  BY <1>1 DEF TopologyInv, TopologyTypes
<1>3. \A w : PodsOf(w, counted)' = PodsOf(w, counted)
  BY <1>1, SamePods
<1>4. podSummaries = [w \in DOMAIN workloads |-> Cardinality(PodsOf(w, counted))] /\ counted = DOMAIN pods
  BY DEF TopologyInv, CountInv
<1> QED BY <1>1, <1>2, <1>3, <1>4 DEF CountInv

\* A step among the groups, before the totals.
LEMMA GroupingKeepsTopology ==
    ASSUME TopologyInv, UNCHANGED <<listVars, countVars, sumVars>>,
           viewPhase \in {"apps", "groups"}, viewPhase' = "groups", GroupsInv'
    PROVE  TopologyInv'
<1>1. TopologyTypes' /\ CountInv'
  BY CountsStay
<1>2. SumInv'
  BY DEF TopologyInv, SumInv, sumVars
<1> QED BY <1>1, <1>2 DEF TopologyInv

LEMMA GroupsKeepTopology ==
    ASSUME TopologyInv,
           \/ runtimeGroupsByAppLabels \/ buildRuntimeGroup
           \/ \E n \in Nodes : StartComponent(n) \/ collectRuntimeComponent(n)
    PROVE  TopologyInv'
<1>1. CASE runtimeGroupsByAppLabels
  <2>1. viewPhase = "apps" /\ viewPhase' = "groups" /\ UNCHANGED <<listVars, countVars, sumVars>>
    BY <1>1 DEF runtimeGroupsByAppLabels, Continues
  <2>2. queue = {} /\ component = {}
    BY <2>1 DEF TopologyInv, GroupsInv, Grouped
  <2> QED BY <1>1, <2>1, <2>2, GroupsByApp, GroupingKeepsTopology
<1>2. CASE buildRuntimeGroup
  <2>1. viewPhase = "groups" /\ viewPhase' = "groups" /\ UNCHANGED <<listVars, countVars, sumVars>>
    BY <1>2 DEF buildRuntimeGroup
  <2>2. GroupsInv'
    BY <1>2, GroupsBuild DEF TopologyInv
  <2> QED BY <2>1, <2>2, GroupingKeepsTopology
<1>3. ASSUME NEW n \in Nodes, StartComponent(n) \/ collectRuntimeComponent(n) PROVE TopologyInv'
  <2>1. viewPhase = "groups" /\ viewPhase' = "groups" /\ UNCHANGED <<listVars, countVars, sumVars>>
    BY <1>3 DEF StartComponent, collectRuntimeComponent
  <2>2. GroupsInv'
    BY <1>3, GroupsStart, GroupsCollect DEF TopologyInv
  <2> QED BY <2>1, <2>2, GroupingKeepsTopology
<1> QED BY <1>1, <1>2, <1>3

LEMMA BuiltKeepsTopology ==
    ASSUME TopologyInv, GroupsAreBuilt
    PROVE  TopologyInv'
<1>1. /\ viewPhase = "groups" /\ viewPhase' = "sums" /\ component = {} /\ queue = {} /\ Starts = {}
      /\ podsTotal' = [g \in groups |-> 0] /\ UNCHANGED <<summed, podCount>>
      /\ UNCHANGED <<listVars, countVars>> /\ UNCHANGED <<services, workloads, groupVars>>
      /\ UNCHANGED <<workloads, pods>> /\ groups' = groups
  BY DEF GroupsAreBuilt, Continues, listVars, groupVars
<1>2. TopologyTypes' /\ CountInv'
  BY <1>1, CountsStay
<1>3. visited = Nodes
  <2>1. visited \subseteq Nodes
    BY <1>1 DEF TopologyInv, GroupsInv, Grouped, VisitedInv, GroupsDisjoint
  <2>2. ASSUME NEW n \in Nodes \ visited PROVE FALSE
    <3>1. \A m \in Nodes \ visited : m[1] = "workload"
      BY <1>1, NodeKinds DEF Starts
    <3> QED BY <1>1, <3>1 DEF Starts
  <2> QED BY <2>1, <2>2
<1>4. GroupsInv'
  BY <1>1, <1>3, GroupsStay DEF TopologyInv, Grouped
<1>5. summed' = {} /\ podCount' = 0
  BY <1>1 DEF TopologyInv, SumInv
<1>6. (\A g : SummedOf(g)' = {}) /\ Summed' = {}
  BY <1>5 DEF SummedOf, Summed
<1>7. (\A g : PodsOfAny(SummedOf(g))' = {}) /\ PodsOfAny(Summed)' = {}
  BY <1>6 DEF PodsOfAny
<1>8. podsTotal' = [g \in groups' |-> Cardinality(PodsOfAny(SummedOf(g))')]
      /\ podCount' = Cardinality(PodsOfAny(Summed)')
  BY <1>1, <1>5, <1>7, FS_EmptySet
<1>9. SumInv'
  BY <1>1, <1>5, <1>8 DEF SumInv
<1> QED BY <1>1, <1>2, <1>4, <1>9 DEF TopologyInv

LEMMA TotalsKeepTopology ==
    ASSUME TopologyInv,
           Answer \/ \E g \in groups, w \in DOMAIN workloads : runtimeGroupsSummary(g, w)
    PROVE  TopologyInv'
<1>1. CASE Answer
  <2>1. /\ viewPhase = "sums" /\ viewPhase' = "answered" /\ summed = GroupWorkloads
        /\ UNCHANGED <<listVars, countVars>> /\ UNCHANGED <<services, workloads, groupVars>>
        /\ UNCHANGED <<workloads, pods>> /\ UNCHANGED <<groups, summed, podsTotal, podCount>>
    BY <1>1 DEF Answer, Continues, listVars, groupVars, sumVars
  <2>2. TopologyTypes' /\ CountInv'
    BY <2>1, CountsStay
  <2>3. component = {} /\ queue = {} /\ visited = Nodes
    BY <2>1 DEF TopologyInv, GroupsInv
  <2>4. GroupsInv'
    BY <2>1, <2>3, GroupsStay DEF TopologyInv, Grouped
  <2>5. /\ GroupWorkloads' = GroupWorkloads
        /\ (\A g : SummedOf(g)' = SummedOf(g)) /\ Summed' = Summed
    BY <2>1 DEF GroupWorkloads, SummedOf, Summed
  <2>6. /\ \A g : PodsOfAny(SummedOf(g))' = PodsOfAny(SummedOf(g))
        /\ PodsOfAny(Summed)' = PodsOfAny(Summed)
    BY <2>1, <2>5, SamePods DEF PodsOfAny
  <2>7. SumInv'
    BY <2>1, <2>5, <2>6 DEF TopologyInv, SumInv
  <2> QED BY <2>1, <2>2, <2>4, <2>7 DEF TopologyInv
<1>2. ASSUME NEW g \in groups, NEW w \in DOMAIN workloads, runtimeGroupsSummary(g, w)
      PROVE  TopologyInv'
  <2>1. /\ viewPhase = "sums" /\ viewPhase' = viewPhase
        /\ UNCHANGED <<listVars, countVars>> /\ UNCHANGED <<services, workloads, groupVars>>
    BY <1>2 DEF runtimeGroupsSummary, listVars
  <2>2. TopologyTypes' /\ CountInv'
    BY <2>1, CountsStay
  <2>3. GroupsInv'
    BY <2>1, GroupsStay DEF TopologyInv
  <2>4. SumInv'
    BY <1>2, SumStep DEF TopologyInv
  <2> QED BY <2>1, <2>2, <2>3, <2>4 DEF TopologyInv
<1> QED BY <1>1, <1>2

LEMMA CountKeepsTopology ==
    ASSUME TopologyInv, NEW p, CountPod(p)
    PROVE  TopologyInv'
<1>1. viewPhase = "count" /\ viewPhase' = viewPhase /\ UNCHANGED <<listVars, groupVars, sumVars>>
  BY DEF CountPod
<1>2. CountInv'
  BY CountStep DEF TopologyInv
<1>3. TopologyTypes'
  BY <1>1 DEF TopologyInv, TopologyTypes, listVars
<1>4. GroupsInv' /\ SumInv'
  BY <1>1 DEF TopologyInv, GroupsInv, SumInv, Grouped, groupVars, sumVars
<1> QED BY <1>1, <1>2, <1>3, <1>4 DEF TopologyInv

LEMMA TopologyStep ==
    TopologyInv /\ [TopologyNext]_topologyVars => TopologyInv'
<1> SUFFICES ASSUME TopologyInv, [TopologyNext]_topologyVars PROVE TopologyInv'
  OBVIOUS
<1>1. CASE UNCHANGED topologyVars
  <2>1. /\ UNCHANGED <<services, workloads>> /\ UNCHANGED <<workloads, pods>>
        /\ UNCHANGED <<services, workloads, groupVars>> /\ viewPhase' = viewPhase
        /\ UNCHANGED <<counted, podSummaries, groups, summed, podsTotal, podCount>>
    BY <1>1 DEF topologyVars, listVars, countVars, groupVars, sumVars
  <2>2. GroupsInv'
    BY <2>1, GroupsStay DEF TopologyInv
  <2>3. TopologyTypes'
    BY <2>1 DEF TopologyInv, TopologyTypes
  <2>4. \A w : PodsOf(w, counted)' = PodsOf(w, counted)
    BY <2>1, SamePods
  <2>5. CountInv'
    BY <2>1, <2>4 DEF TopologyInv, CountInv
  <2>6. /\ GroupWorkloads' = GroupWorkloads
        /\ (\A g : SummedOf(g)' = SummedOf(g)) /\ Summed' = Summed
    BY <2>1 DEF GroupWorkloads, SummedOf, Summed
  <2>7. /\ \A g : PodsOfAny(SummedOf(g))' = PodsOfAny(SummedOf(g))
        /\ PodsOfAny(Summed)' = PodsOfAny(Summed)
    BY <2>1, <2>6, SamePods DEF PodsOfAny
  <2>8. SumInv'
    BY <2>1, <2>6, <2>7 DEF TopologyInv, SumInv
  <2> QED BY <2>1, <2>2, <2>3, <2>5, <2>8 DEF TopologyInv
<1>2. CASE ListServices \/ ListWorkloads \/ ListPods \/ ListExposures
  BY <1>2, ListsKeepTopology
<1>3. CASE \E p \in DOMAIN pods : CountPod(p)
  BY <1>3, CountKeepsTopology
<1>4. CASE \/ runtimeGroupsByAppLabels \/ buildRuntimeGroup
           \/ \E n \in Nodes : StartComponent(n) \/ collectRuntimeComponent(n)
  BY <1>4, GroupsKeepTopology
<1>5. CASE GroupsAreBuilt
  BY <1>5, BuiltKeepsTopology
<1>6. CASE Answer \/ \E g \in groups, w \in DOMAIN workloads : runtimeGroupsSummary(g, w)
  BY <1>6, TotalsKeepTopology
<1> QED BY <1>1, <1>2, <1>3, <1>4, <1>5, <1>6 DEF TopologyNext

-------------------------------------------------------------------------------
\* What is answered

\* Every set of nodes has a first one.
LEMMA FirstNode ==
    ASSUME TopologyTypes, NEW g, g \subseteq Nodes, g # {}
    PROVE  \E n \in g : IsGroupKey(n, g)
<1> DEFINE OfKind(k) == {n \in g : n[1] = k}
           Numbers(k) == {n[2] : n \in OfKind(k)}
<1>1. ASSUME NEW k \in {"service", "workload"}, OfKind(k) # {}
      PROVE  \E n \in OfKind(k) : \A m \in OfKind(k) : n[2] <= m[2]
  <2>1. Numbers(k) \subseteq IF k = "service" THEN ServiceNames ELSE WorkloadKeys
    BY <1>1 DEF Nodes, ServiceNode, WorkloadNode, TopologyTypes
  <2>2. Numbers(k) \in SUBSET Nat /\ IsFiniteSet(Numbers(k)) /\ Numbers(k) # {}
    <3>1. Numbers(k) # {}
      BY <1>1
    <3>2. PICK some \in {ServiceNames, WorkloadKeys} : Numbers(k) \in SUBSET some
      BY <2>1
    <3>3. some \subseteq Nat /\ IsFiniteSet(some)
      BY TopologyAssumption
    <3> HIDE DEF Numbers
    <3> QED BY <3>1, <3>2, <3>3, FS_Subset
  <2>3. PICK i \in Numbers(k) : \A j \in Numbers(k) : i <= j
    <3> DEFINE f == [j \in Numbers(k) |-> 0]
    <3>1. f \in [Numbers(k) -> Nat] /\ \A j \in Numbers(k) : f[j] = 0
      OBVIOUS
    <3> HIDE DEF f, Numbers
    <3>2. PICK i \in Numbers(k) : \A j \in Numbers(k) : f[j] < f[i] \/ (f[j] = f[i] /\ i <= j)
      BY <2>2, <3>1, FirstOfLargest
    <3> QED BY <3>1, <3>2
  <2> QED BY <2>3
<1>2. \A n \in g : n[1] \in {"service", "workload"}
  BY NodeKinds
<1>3. CASE OfKind("service") # {}
  <2>1. PICK n \in OfKind("service") : \A m \in OfKind("service") : n[2] <= m[2]
    BY <1>1, <1>3
  <2>2. IsGroupKey(n, g)
    BY <2>1 DEF IsGroupKey
  <2> QED BY <2>1, <2>2
<1>4. CASE OfKind("service") = {}
  <2>1. OfKind("workload") = g
    BY <1>2, <1>4
  <2>2. PICK n \in OfKind("workload") : \A m \in OfKind("workload") : n[2] <= m[2]
    BY <1>1, <2>1
  <2>3. \A m \in g : m[1] = "workload"
    BY <2>1
  <2>4. IsGroupKey(n, g)
    BY <2>1, <2>2, <2>3 DEF IsGroupKey
  <2> QED BY <2>1, <2>4
<1> QED BY <1>3, <1>4

LEMMA ComponentsFollow ==
    TopologyInv => GroupsAreComponents
<1> SUFFICES ASSUME TopologyInv, viewPhase = "answered" PROVE GroupsAreComponents
  BY DEF GroupsAreComponents
<1>1. /\ VisitedInv /\ GroupsDisjoint /\ LabelsTogether /\ FreeTogether
      /\ component = {} /\ visited = Nodes /\ TopologyTypes
  BY DEF TopologyInv, GroupsInv, Grouped
<1>2. \A n \in Nodes : \E g \in groups : n \in g
  BY <1>1 DEF VisitedInv
<1>3. \A n \in Nodes : \E g \in groups : \A h \in groups : n \in h <=> h = g
  BY <1>1, <1>2 DEF GroupsDisjoint
<1>4. ASSUME NEW g \in groups PROVE \E n \in g : \A h \in groups : IsGroupKey(n, h) <=> h = g
  <2>1. PICK n \in g : IsGroupKey(n, g)
    BY <1>1, FirstNode DEF GroupsDisjoint
  <2>2. ASSUME NEW h \in groups, IsGroupKey(n, h) PROVE h = g
    BY <1>1, <2>1, <2>2 DEF GroupsDisjoint, IsGroupKey
  <2> QED BY <2>1, <2>2
<1>5. ASSUME NEW a \in Nodes, NEW b \in Nodes
      PROVE  (\E g \in groups : a \in g /\ b \in g) <=>
                 IF App(a) = {} THEN b \in Reached(a) ELSE App(b) = App(a)
  <2>1. PICK g \in groups : a \in g
    BY <1>2
  <2>2. (\E h \in groups : a \in h /\ b \in h) <=> b \in g
    BY <1>1, <2>1 DEF GroupsDisjoint
  <2>3. CASE App(a) # {}
    BY <1>1, <2>1, <2>2, <2>3 DEF LabelsTogether
  <2>4. CASE App(a) = {}
    <3>1. a \in FreeNodes
      BY <2>4 DEF FreeNodes
    <3>2. b \in g => b \in Reached(a)
      BY <1>1, <2>1, <3>1 DEF FreeTogether
    <3>3. ASSUME NEW n \in g PROVE n \in FreeNodes
      BY <1>1, <2>1, <2>4 DEF LabelsTogether, GroupsDisjoint, FreeNodes
    <3>4. g \in ClosedSets
      BY <1>1, <2>1, <3>3, Closed DEF FreeTogether
    <3>5. b \in Reached(a) => b \in g
      BY <2>1, <3>4 DEF Reached, Connected
    <3> QED BY <2>2, <2>4, <3>2, <3>5
  <2> QED BY <2>3, <2>4
<1> QED BY <1>3, <1>4, <1>5 DEF GroupsAreComponents, Reached

\* A listed gateway is at a group through the virtual services that name it.
LEMMA GatewaysFollow ==
    ASSUME NEW g, NEW gateway \in gateways
    PROVE  [kind |-> "Gateway", name |-> gateway] \in GroupExposures(g) <=>
               \E v \in virtual : gateway \in v.gateways /\ \E s \in v.services : ServiceNode(s) \in g
<1> DEFINE GateAt(s, x) == [service |-> s, kind |-> "Gateway", name |-> x]
           Route(s, v) == [service |-> s, kind |-> "VirtualService", name |-> v.name]
           Named == gateways \cap UNION {v.gateways : v \in virtual}
<1>1. [kind |-> "Gateway", name |-> gateway] \in GroupExposures(g) <=>
          \E e \in enrichRuntimeDynamicResources :
              ServiceNode(e.service) \in g /\ e.kind = "Gateway" /\ e.name = gateway
  BY DEF GroupExposures
<1>2. ASSUME NEW e \in enrichRuntimeDynamicResources, e.kind = "Gateway"
      PROVE  \E x \in Named : \E s \in collectRuntimeServicesForGateway(x) : e = GateAt(s, x)
  <2>1. ASSUME NEW v \in virtual, e \in {Route(s, v) : s \in v.services} PROVE FALSE
    BY <1>2, <2>1
  <2>2. e \in UNION {{GateAt(s, x) : s \in collectRuntimeServicesForGateway(x)} : x \in Named}
    BY <2>1 DEF enrichRuntimeDynamicResources
  <2>3. PICK x \in Named : e \in {GateAt(s, x) : s \in collectRuntimeServicesForGateway(x)}
    BY <2>2
  <2> QED BY <2>3
<1>3. ASSUME NEW x \in Named, NEW s \in collectRuntimeServicesForGateway(x)
      PROVE  GateAt(s, x) \in enrichRuntimeDynamicResources
  <2>1. GateAt(s, x) \in UNION {{GateAt(t, y) : t \in collectRuntimeServicesForGateway(y)} : y \in Named}
    OBVIOUS
  <2> QED BY <2>1 DEF enrichRuntimeDynamicResources
<1>4. \A s : s \in collectRuntimeServicesForGateway(gateway) <=>
          \E v \in virtual : gateway \in v.gateways /\ s \in v.services
  BY DEF collectRuntimeServicesForGateway
<1>5. ASSUME NEW e \in enrichRuntimeDynamicResources,
             ServiceNode(e.service) \in g, e.kind = "Gateway", e.name = gateway
      PROVE  \E v \in virtual : gateway \in v.gateways /\ \E s \in v.services : ServiceNode(s) \in g
  <2>1. PICK x : \E t \in collectRuntimeServicesForGateway(x) : e = GateAt(t, x)
    BY <1>2, <1>5
  <2>2. PICK s \in collectRuntimeServicesForGateway(x) : e = GateAt(s, x)
    BY <2>1
  <2>3. x = gateway /\ e.service = s
    BY <1>5, <2>2
  <2> QED BY <1>4, <1>5, <2>2, <2>3
<1>6. ASSUME NEW v \in virtual, gateway \in v.gateways, NEW s \in v.services, ServiceNode(s) \in g
      PROVE  \E e \in enrichRuntimeDynamicResources :
                 ServiceNode(e.service) \in g /\ e.kind = "Gateway" /\ e.name = gateway
  <2>1. GateAt(s, gateway) \in enrichRuntimeDynamicResources
    BY <1>3, <1>4, <1>6
  <2> QED BY <1>6, <2>1
<1> QED BY <1>1, <1>5, <1>6

LEMMA TotalsFollow ==
    TopologyInv => TotalsAreRight
<1> SUFFICES ASSUME TopologyInv, viewPhase = "answered" PROVE TotalsAreRight
  BY DEF TotalsAreRight
<1>1. /\ VisitedInv /\ component = {} /\ visited = Nodes /\ TopologyTypes
      /\ summed = GroupWorkloads /\ podCount = Cardinality(PodsOfAny(Summed))
      /\ podsTotal = [g \in groups |-> Cardinality(PodsOfAny(SummedOf(g)))]
  BY DEF TopologyInv, GroupsInv, SumInv, Grouped
<1>2. \A g \in groups : SummedOf(g) = {w \in DOMAIN workloads : WorkloadNode(w) \in g}
  BY <1>1 DEF SummedOf, GroupWorkloads
<1>3. Summed = DOMAIN workloads
  <2>1. ASSUME NEW w \in DOMAIN workloads PROVE w \in Summed
    <3>1. PICK g \in groups : WorkloadNode(w) \in g
      BY <1>1 DEF VisitedInv, Nodes
    <3>2. <<g, w>> \in summed
      BY <1>1, <3>1 DEF GroupWorkloads
    <3> QED BY <3>2 DEF Summed
  <2> QED BY <2>1 DEF Summed
<1>4. PodsOfAny(Summed) = {p \in DOMAIN pods : \E w \in DOMAIN workloads :
          runtimeSelectorMatches(workloads[w].selector, pods[p])}
  <2>1. \A p \in DOMAIN pods : bestRuntimeWorkloadMatch(pods[p]) \cap DOMAIN workloads # {} <=>
            \E w \in DOMAIN workloads : runtimeSelectorMatches(workloads[w].selector, pods[p])
    BY <1>1, OneMatch
  <2> QED BY <1>3, <2>1 DEF PodsOfAny
<1>5. ASSUME NEW g \in groups
      PROVE  PodsOfAny(SummedOf(g)) = {p \in DOMAIN pods :
                 \E w \in bestRuntimeWorkloadMatch(pods[p]) : WorkloadNode(w) \in g}
  <2>1. \A p \in DOMAIN pods : bestRuntimeWorkloadMatch(pods[p]) \subseteq DOMAIN workloads
    BY <1>1, OneMatch
  <2> QED BY <1>2, <2>1 DEF PodsOfAny
<1> QED BY <1>1, <1>4, <1>5, GatewaysFollow DEF TotalsAreRight

\* The runtime view of a namespace: every service and workload is in exactly one group, by
\* application or by the links of selectors, and every pod counts once, whatever the lists
\* say that were read one after the other.
THEOREM ViewIsRight == TopologySpec => []ViewIsSound
<1>1. TopologyInv => ViewIsSound
  BY ComponentsFollow, TotalsFollow DEF ViewIsSound
<1> QED BY <1>1, TopologyStarts, TopologyStep, PTL DEF TopologySpec
===============================================================================
