------------------------- MODULE AlertRulesProofs -------------------------
(***************************************************************************)
(* The rule store keeps a linear, authorised history for every choice of   *)
(* operators, rules and specifications, and implements RuleHistory.        *)
(*                                                                         *)
(* The argument.  DocumentIsHead is not inductive: SaveChange writes a     *)
(* document that was read earlier.  RequestsAreSound says that what was    *)
(* read is the update record of its version; records never change, so when *)
(* the version is still current, the document read is the current one.     *)
(***************************************************************************)
EXTENDS AlertRules, TLAPS

IInv ==
    /\ TypeOK
    /\ DocumentIsHead
    /\ LinearHistory
    /\ ChangesAreAuthorised
    /\ AppliedMarker
    /\ RequestsAreSound

-----------------------------------------------------------------------------
(* Steps that only change one operator's request.                          *)

\* A step that leaves the collections alone keeps everything but the soundness
\* of the request it changes, which is to be shown.
LEMMA RequestStep ==
    ASSUME IInv, NEW o \in Operators, NEW q \in {Idle} \cup Requests,
           op' = [op EXCEPT ![o] = q], UNCHANGED <<rules, updates>>,
           q # Idle => RequestIsSound(o, q)
    PROVE  IInv'
<1>1. TypeOK'
  BY DEF IInv, TypeOK
<1>2. DocumentIsHead' /\ LinearHistory' /\ ChangesAreAuthorised' /\ AppliedMarker'
  BY DEF IInv, DocumentIsHead, LinearHistory, ChangesAreAuthorised, AppliedMarker,
         History!IsHead, Exists
<1>3. RequestsAreSound'
  <2> SUFFICES ASSUME NEW p \in Operators, op'[p] # Idle
               PROVE  RequestIsSound(p, op[p])'
    BY DEF RequestsAreSound
  <2>1. RequestIsSound(p, op'[p])
    <3>1. CASE p = o
      BY <3>1 DEF IInv, TypeOK
    <3>2. CASE p # o
      BY <3>2 DEF IInv, TypeOK, RequestsAreSound
    <3> QED BY <3>1, <3>2
  <2> QED BY <2>1 DEF RequestIsSound
<1> QED BY <1>1, <1>2, <1>3 DEF IInv

LEMMA EnableKeeps ==
    ASSUME IInv, NEW o \in Operators, NEW r \in Rules, NEW s \in Specs, Enable(o, r, s)
    PROVE  IInv'
<1> DEFINE q == Request("save", "create", r, NoDoc, s, "enabled", NoUpdate)
<1>1. q \in Requests /\ q # Idle
  BY DEF Request, Requests, NoDoc, Docs, NoUpdate, States, Actions, Idle
<1>2. RequestIsSound(o, q)
  <2>1. Len(updates) \in Nat
    BY DEF IInv, TypeOK
  <2> QED BY <2>1 DEF Enable, Request, RequestIsSound, NoDoc, NoUpdate, States
<1> QED BY <1>1, <1>2, RequestStep DEF Enable

\* What holds of a document read from the store and of a request built on it.
LEMMA ReadFacts ==
    ASSUME IInv, NEW r \in Rules, Exists(r)
    PROVE  /\ rules[r] \in Docs
           /\ rules[r].current \in DOMAIN updates
           /\ rules[r].current # NoUpdate
           /\ updates[rules[r].current].rule = r
           /\ updates[rules[r].current].spec = rules[r].spec
           /\ updates[rules[r].current].state = rules[r].state
           /\ rules[r].spec \in Specs
           /\ rules[r].state \in States
           /\ rules[r].applied <= rules[r].current
           /\ rules[r].applied # NoUpdate => updates[rules[r].applied].rule = r
<1>1. rules[r] \in Docs /\ rules[r].current \in Nat
  BY DEF IInv, TypeOK, Docs
<1>2. rules[r].current \in DOMAIN updates /\ updates[rules[r].current].rule = r
  BY <1>1 DEF IInv, TypeOK, DocumentIsHead, History!IsHead, Exists, NoUpdate, History!NoUpdate
<1>3. updates[rules[r].current] \in UpdateRecords
  BY <1>2 DEF IInv, TypeOK
<1>4. /\ updates[rules[r].current].spec = rules[r].spec
      /\ updates[rules[r].current].state = rules[r].state
  BY DEF IInv, DocumentIsHead
<1> QED BY <1>1, <1>2, <1>3, <1>4 DEF IInv, AppliedMarker, Exists, UpdateRecords

LEMMA UpdateKeeps ==
    ASSUME IInv, NEW o \in Operators, NEW r \in Rules, NEW s \in Specs, Update(o, r, s)
    PROVE  IInv'
<1> DEFINE q == Request("save", "update", r, rules[r], s, "enabled", NoUpdate)
<1>0. Exists(r) /\ Len(updates) \in Nat
  BY DEF Update, IInv, TypeOK
<1>1. q \in Requests /\ q # Idle
  BY <1>0, ReadFacts DEF Request, Requests, NoUpdate, States, Actions, Idle
<1>2. RequestIsSound(o, q)
  BY <1>0, ReadFacts DEF Update, Request, RequestIsSound, NoUpdate, States
<1> QED BY <1>1, <1>2, RequestStep DEF Update

LEMMA DisableKeeps ==
    ASSUME IInv, NEW o \in Operators, NEW r \in Rules, Disable(o, r)
    PROVE  IInv'
<1> DEFINE q == Request("save", "disable", r, rules[r], rules[r].spec, "disabled", NoUpdate)
<1>0. Exists(r) /\ Len(updates) \in Nat
  BY DEF Disable, IInv, TypeOK
<1>1. q \in Requests /\ q # Idle
  BY <1>0, ReadFacts DEF Request, Requests, NoUpdate, States, Actions, Idle
<1>2. RequestIsSound(o, q)
  BY <1>0, ReadFacts DEF Disable, Request, RequestIsSound, NoUpdate, States
<1> QED BY <1>1, <1>2, RequestStep DEF Disable

LEMMA RollbackKeeps ==
    ASSUME IInv, NEW o \in Operators, NEW r \in Rules, Rollback(o, r)
    PROVE  IInv'
<1> DEFINE q == Request("source", "rollback", r, rules[r], NoSpec, "none", NoUpdate)
<1>0. Exists(r) /\ Len(updates) \in Nat
  BY DEF Rollback, IInv, TypeOK
<1>1. q \in Requests /\ q # Idle
  BY <1>0, ReadFacts DEF Request, Requests, NoUpdate, States, Actions, Idle
<1>2. RequestIsSound(o, q)
  BY <1>0, ReadFacts DEF Rollback, Request, RequestIsSound, NoUpdate, States
<1> QED BY <1>1, <1>2, RequestStep DEF Rollback

LEMMA ReadSourceKeeps ==
    ASSUME IInv, NEW o \in Operators, NEW src \in DOMAIN updates, ReadSource(o, src)
    PROVE  IInv'
<1> DEFINE q == [op[o] EXCEPT !.phase = "save", !.spec = updates[src].spec,
                              !.state = updates[src].state, !.source = src]
<1>1. op[o] \in Requests /\ RequestIsSound(o, op[o])
  BY DEF ReadSource, IInv, TypeOK, RequestsAreSound
<1>2. updates[src] \in UpdateRecords /\ src \in Nat
  BY DEF IInv, TypeOK
<1>3. q \in Requests /\ q # Idle
  BY <1>1, <1>2 DEF Requests, UpdateRecords, Idle
<1>4. RequestIsSound(o, q)
  BY <1>1, <1>2 DEF ReadSource, RequestIsSound, Requests, UpdateRecords
<1>5. op' = [op EXCEPT ![o] = q]
  BY DEF ReadSource
<1> QED BY <1>3, <1>4, <1>5, RequestStep DEF ReadSource


LEMMA ForgetKeeps ==
    ASSUME IInv, NEW o \in Operators, Abandon(o) \/ SaveConflicts(o)
    PROVE  IInv'
<1>1. op' = [op EXCEPT ![o] = Idle] /\ UNCHANGED <<rules, updates>>
  BY DEF Abandon, SaveConflicts
<1> QED BY <1>1, RequestStep

-----------------------------------------------------------------------------
(* The two steps that write documents.                                     *)

LEMMA MarkKeeps ==
    ASSUME IInv, NEW e \in Endpoints, NEW x \in Rules, MarkRuntimeRulesApplied(e, x)
    PROVE  IInv'
<1>1. TypeOK'
  BY DEF IInv, TypeOK, MarkRuntimeRulesApplied, Docs
<1>2. \A r \in Rules : /\ rules'[r].current = rules[r].current
                       /\ rules'[r].spec = rules[r].spec
                       /\ rules'[r].state = rules[r].state
  BY DEF IInv, TypeOK, MarkRuntimeRulesApplied, Docs
<1>3. UNCHANGED <<updates, op>>
  BY DEF MarkRuntimeRulesApplied
<1>5. DocumentIsHead'
  BY <1>2, <1>3 DEF IInv, DocumentIsHead, History!IsHead, Exists
<1>4. AppliedMarker'
  <2> SUFFICES ASSUME NEW r \in Rules
               PROVE  /\ rules'[r].status = "applied" <=>
                             Exists(r)' /\ rules'[r].applied = rules'[r].current
                      /\ rules'[r].applied <= rules'[r].current
                      /\ rules'[r].applied # NoUpdate =>
                             updates'[rules'[r].applied].rule = r
    BY DEF AppliedMarker
  <2>1. CASE r = x /\ Exists(r) /\ rules[r].spec.endpoint = e
    <3>1. rules'[r] = [rules[r] EXCEPT !.status = "applied", !.applied = rules[r].current]
      BY <2>1 DEF MarkRuntimeRulesApplied, IInv, TypeOK
    <3>2. /\ rules'[r].status = "applied" /\ rules'[r].applied = rules[r].current
          /\ rules'[r].current = rules[r].current /\ rules[r].current \in Nat
      BY <2>1, <3>1, ReadFacts DEF Docs
    <3> QED BY <1>3, <2>1, <3>2, ReadFacts DEF Exists
  <2>2. CASE ~(r = x /\ Exists(r) /\ rules[r].spec.endpoint = e)
    <3>1. rules'[r] = rules[r]
      BY <2>2 DEF MarkRuntimeRulesApplied, IInv, TypeOK
    <3> QED BY <1>3, <3>1 DEF IInv, AppliedMarker, Exists
  <2> QED BY <2>1, <2>2
<1>6. LinearHistory' /\ ChangesAreAuthorised' /\ RequestsAreSound'
  BY <1>3 DEF IInv, LinearHistory, ChangesAreAuthorised, RequestsAreSound, RequestIsSound
<1> QED BY <1>1, <1>4, <1>5, <1>6 DEF IInv

\* What SaveChange relies on: a request whose version is still current read
\* the newest record of its rule.
LEMMA CommitFacts ==
    ASSUME IInv, NEW o \in Operators, SaveCommits(o)
    PROVE  /\ op[o] \in Requests
           /\ RequestIsSound(o, op[o])
           /\ History!IsHead(op[o].rule, op[o].read.current)
           /\ RecordOf(o, op[o]) \in UpdateRecords
           /\ Written(op[o], Len(updates) + 1) \in Docs
           /\ Len(updates) \in Nat
<1>1. op[o] \in Requests /\ RequestIsSound(o, op[o]) /\ Len(updates) \in Nat
  BY DEF SaveCommits, IInv, TypeOK, RequestsAreSound
<1>2. History!IsHead(op[o].rule, op[o].read.current)
  BY <1>1 DEF SaveCommits, VersionIsCurrent, IInv, DocumentIsHead, Requests
<1>3. op[o].spec \in Specs /\ op[o].state \in States
  BY <1>1 DEF SaveCommits, RequestIsSound
<1>4. RecordOf(o, op[o]) \in UpdateRecords
  BY <1>1, <1>3 DEF RecordOf, UpdateRecords, Requests, Docs
<1>5. Written(op[o], Len(updates) + 1) \in Docs
  BY <1>1, <1>3 DEF Written, Requests, Docs
<1> QED BY <1>1, <1>2, <1>4, <1>5

LEMMA CommitKeeps ==
    ASSUME IInv, NEW o \in Operators, SaveCommits(o)
    PROVE  IInv'
<1> DEFINE q == op[o]
<1> DEFINE id == Len(updates) + 1
<1> DEFINE u == RecordOf(o, q)
<1>0. /\ q \in Requests /\ RequestIsSound(o, q) /\ History!IsHead(q.rule, q.read.current)
      /\ u \in UpdateRecords /\ Written(q, id) \in Docs /\ Len(updates) \in Nat
      /\ q.phase = "save" /\ q.rule \in Rules
  BY CommitFacts DEF SaveCommits, Requests
<1>1. /\ updates' = Append(updates, u)
      /\ rules' = [rules EXCEPT ![q.rule] = Written(q, id)]
      /\ op' = [op EXCEPT ![o] = Idle]
  BY DEF SaveCommits
<1> HIDE DEF q, u, id
<1>2. TypeOK'
  BY <1>0, <1>1 DEF IInv, TypeOK
<1>3. /\ Len(updates') = id /\ id = Len(updates) + 1 /\ DOMAIN updates' = 1 .. id
      /\ updates'[id] = u
      /\ \A i \in DOMAIN updates : updates'[i] = updates[i]
      /\ DOMAIN updates = 1 .. Len(updates)
  BY <1>0, <1>1 DEF IInv, TypeOK, id
<1>4. /\ u.rule = q.rule /\ u.parent = q.read.current /\ u.spec = q.spec
      /\ u.state = q.state /\ u.actor = o
  BY DEF u, RecordOf
<1>r. \A i \in DOMAIN updates : updates[i].parent \in Nat
  <2>1. \A i \in DOMAIN updates : updates[i] \in UpdateRecords
    BY DEF IInv, TypeOK
  <2> QED BY <2>1 DEF UpdateRecords
<1>5. DocumentIsHead'
  <2> SUFFICES ASSUME NEW r \in Rules
               PROVE  /\ History!IsHead(r, rules[r].current)'
                      /\ Exists(r)' => /\ rules'[r].spec = updates'[rules'[r].current].spec
                                       /\ rules'[r].state = updates'[rules'[r].current].state
    BY DEF DocumentIsHead
  <2>1. CASE r = q.rule
    <3>1. rules'[r] = Written(q, id)
      BY <1>0, <1>1, <2>1 DEF IInv, TypeOK
    <3>2. rules'[r].current = id /\ rules'[r].spec = q.spec /\ rules'[r].state = q.state
      BY <3>1 DEF Written
    <3> QED BY <1>0, <1>3, <1>4, <2>1, <3>2 DEF History!IsHead
  <2>2. CASE r # q.rule
    <3>1. rules'[r] = rules[r]
      BY <1>1, <2>2 DEF IInv, TypeOK
    <3>2. History!IsHead(r, rules[r].current)
      BY DEF IInv, DocumentIsHead
    <3>3. History!IsHead(r, rules[r].current)'
      <4>1. \A i \in DOMAIN updates' : i > rules[r].current => updates'[i].rule # r
        BY <1>0, <1>3, <1>4, <2>2, <3>2 DEF History!IsHead
      <4> QED BY <1>0, <1>3, <3>1, <3>2, <4>1 DEF History!IsHead, History!NoUpdate
    <3>4. Exists(r)' => rules[r].current \in DOMAIN updates /\ Exists(r)
      BY <1>3, <3>1, ReadFacts DEF Exists
    <3> QED BY <1>3, <3>1, <3>3, <3>4 DEF IInv, DocumentIsHead
  <2> QED BY <2>1, <2>2
<1>6. LinearHistory'
  <2> SUFFICES ASSUME NEW i \in 1 .. id
               PROVE  /\ updates'[i].parent < i
                      /\ updates'[i].parent # NoUpdate =>
                            updates'[updates'[i].parent].rule = updates'[i].rule
                      /\ \A j \in updates'[i].parent + 1 .. i - 1 :
                            updates'[j].rule # updates'[i].rule
    BY <1>3 DEF LinearHistory
  <2>1. CASE i = id
    BY <1>0, <1>3, <1>4, <2>1 DEF History!IsHead, NoUpdate, History!NoUpdate
  <2>2. CASE i # id
    <3>1. i \in DOMAIN updates /\ updates'[i] = updates[i] /\ updates[i].parent \in Nat
      BY <1>r, <1>3, <2>2
    <3>2. \A j \in 1 .. i : updates'[j] = updates[j]
      BY <1>3, <3>1
    <3> QED BY <1>3, <3>1, <3>2 DEF IInv, LinearHistory, NoUpdate
  <2> QED BY <2>1, <2>2
<1>7. ChangesAreAuthorised'
  <2>1. Manages(o, u.spec)
    BY <1>0, <1>4 DEF RequestIsSound
  <2>2. u.parent # NoUpdate => u.parent \in DOMAIN updates /\ Manages(o, updates[u.parent].spec)
    BY <1>0, <1>3, <1>4 DEF RequestIsSound, NoUpdate
  <2>3. ASSUME NEW i \in DOMAIN updates, updates[i].parent # NoUpdate
        PROVE  updates[i].parent \in DOMAIN updates
    BY <1>0, <1>r, <1>3, <2>3 DEF IInv, LinearHistory, NoUpdate
  <2> QED BY <1>0, <1>3, <1>4, <2>1, <2>2, <2>3 DEF IInv, ChangesAreAuthorised
<1>8. AppliedMarker'
  <2> SUFFICES ASSUME NEW r \in Rules
               PROVE  /\ rules'[r].status = "applied" <=>
                             Exists(r)' /\ rules'[r].applied = rules'[r].current
                      /\ rules'[r].applied <= rules'[r].current
                      /\ rules'[r].applied # NoUpdate =>
                             updates'[rules'[r].applied].rule = r
    BY DEF AppliedMarker
  <2>1. CASE r = q.rule
    <3>1. rules'[r] = Written(q, id)
      BY <1>0, <1>1, <2>1 DEF IInv, TypeOK
    <3>2. /\ rules'[r].current = id /\ rules'[r].status = "pending"
          /\ rules'[r].applied = q.read.applied
      BY <3>1 DEF Written
    <3>3. q.read.applied \in Nat /\ q.read.applied <= Len(updates)
      BY <1>0 DEF RequestIsSound, Requests, Docs
    <3> QED BY <1>0, <1>3, <2>1, <3>2, <3>3 DEF RequestIsSound, NoUpdate
  <2>2. CASE r # q.rule
    <3>1. rules'[r] = rules[r]
      BY <1>1, <2>2 DEF IInv, TypeOK
    <3>2. rules[r].applied \in Nat /\ rules[r].current \in 0 .. Len(updates)
      BY DEF IInv, TypeOK, Docs, DocumentIsHead, History!IsHead
    <3> QED BY <1>3, <3>1, <3>2 DEF IInv, AppliedMarker, Exists, NoUpdate
  <2> QED BY <2>1, <2>2
<1>9. RequestsAreSound'
  <2> SUFFICES ASSUME NEW p \in Operators, op'[p] # Idle
               PROVE  RequestIsSound(p, op[p])'
    BY DEF RequestsAreSound
  <2>1. op'[p] = op[p] /\ op[p] # Idle /\ op[p] \in Requests /\ RequestIsSound(p, op[p])
    BY <1>1 DEF IInv, TypeOK, RequestsAreSound
  <2>2. op[p].read.applied \in Nat /\ op[p].read.applied <= Len(updates)
    BY <1>3, <2>1 DEF RequestIsSound, Requests, Docs
  <2> QED BY <1>0, <1>3, <2>1, <2>2 DEF RequestIsSound, NoUpdate
<1> QED BY <1>2, <1>5, <1>6, <1>7, <1>8, <1>9 DEF IInv

-----------------------------------------------------------------------------
(* The theorems.                                                           *)

LEMMA InvInit == Init => IInv
<1> SUFFICES ASSUME Init PROVE IInv
  OBVIOUS
<1>1. \A r \in Rules : rules[r] = NoDoc
  BY DEF Init
<1>2. updates = <<>> /\ Len(updates) = 0 /\ DOMAIN updates = {}
  BY DEF Init
<1>3. TypeOK
  BY DEF Init, TypeOK, NoDoc, Docs, NoUpdate
<1>4. DocumentIsHead /\ AppliedMarker
  BY <1>1, <1>2 DEF DocumentIsHead, AppliedMarker, History!IsHead, History!NoUpdate, Exists,
                    NoDoc, NoUpdate
<1>5. LinearHistory /\ ChangesAreAuthorised /\ RequestsAreSound
  BY <1>2 DEF Init, LinearHistory, ChangesAreAuthorised, RequestsAreSound
<1> QED BY <1>3, <1>4, <1>5 DEF IInv

LEMMA InvNext == IInv /\ [Next]_ruleVars => IInv'
<1> SUFFICES ASSUME IInv, [Next]_ruleVars PROVE IInv'
  OBVIOUS
<1>1. ASSUME NEW o \in Operators, NEW r \in Rules, NEW s \in Specs, Enable(o, r, s) PROVE IInv'
  BY <1>1, EnableKeeps
<1>2. ASSUME NEW o \in Operators, NEW r \in Rules, NEW s \in Specs, Update(o, r, s) PROVE IInv'
  BY <1>2, UpdateKeeps
<1>3. ASSUME NEW o \in Operators, NEW r \in Rules, Disable(o, r) PROVE IInv'
  BY <1>3, DisableKeeps
<1>4. ASSUME NEW o \in Operators, NEW r \in Rules, Rollback(o, r) PROVE IInv'
  BY <1>4, RollbackKeeps
<1>5. ASSUME NEW o \in Operators, NEW src \in DOMAIN updates, ReadSource(o, src) PROVE IInv'
  BY <1>5, ReadSourceKeeps
<1>6. ASSUME NEW o \in Operators, Abandon(o) \/ SaveConflicts(o) PROVE IInv'
  BY <1>6, ForgetKeeps
<1>7. ASSUME NEW o \in Operators, SaveCommits(o) PROVE IInv'
  BY <1>7, CommitKeeps
<1>8. ASSUME NEW e \in Endpoints, NEW r \in Rules, MarkRuntimeRulesApplied(e, r) PROVE IInv'
  BY <1>8, MarkKeeps
<1>9. CASE UNCHANGED ruleVars
  BY <1>9 DEF ruleVars, IInv, TypeOK, DocumentIsHead, LinearHistory, ChangesAreAuthorised,
              AppliedMarker, RequestsAreSound, RequestIsSound, History!IsHead, Exists
<1> QED BY <1>1, <1>2, <1>3, <1>4, <1>5, <1>6, <1>7, <1>8, <1>9 DEF Next, OperatorStep

\* Update records are appended, never changed.
LEMMA HistoryGrows ==
    ASSUME IInv, [Next]_ruleVars
    PROVE  \/ updates' = updates
           \/ \E u \in UpdateRecords : updates' = Append(updates, u)
<1>1. ASSUME NEW o \in Operators, SaveCommits(o)
      PROVE  \E u \in UpdateRecords : updates' = Append(updates, u)
  <2>1. updates' = Append(updates, RecordOf(o, op[o])) /\ updates' \in Seq(UpdateRecords)
    <3>1. IInv'
      BY InvNext
    <3> QED BY <1>1, <3>1 DEF SaveCommits, IInv, TypeOK
  <2>2. updates \in Seq(UpdateRecords)
    BY DEF IInv, TypeOK
  <2>3. updates'[Len(updates) + 1] = RecordOf(o, op[o]) /\ Len(updates') = Len(updates) + 1
    BY <2>1, <2>2
  <2>4. RecordOf(o, op[o]) \in UpdateRecords
    BY <2>1, <2>2, <2>3
  <2> QED BY <2>1, <2>4
<1>2. CASE OperatorStep /\ ~ \E o \in Operators : SaveCommits(o)
  BY <1>2 DEF OperatorStep, Enable, Update, Disable, Rollback, ReadSource, Abandon, SaveConflicts
<1>3. ASSUME NEW e \in Endpoints, NEW r \in Rules, MarkRuntimeRulesApplied(e, r)
      PROVE  updates' = updates
  BY <1>3 DEF MarkRuntimeRulesApplied
<1>4. CASE UNCHANGED ruleVars
  BY <1>4 DEF ruleVars
<1> QED BY <1>1, <1>2, <1>3, <1>4 DEF Next, OperatorStep

\* What appending to a sequence gives.
LEMMA AppendFacts ==
    ASSUME NEW S, NEW s \in Seq(S), NEW x \in S
    PROVE  /\ Append(s, x) \in Seq(S)
           /\ DOMAIN Append(s, x) = 1 .. Len(s) + 1
           /\ Append(s, x)[Len(s) + 1] = x
           /\ \A i \in 1 .. Len(s) : Append(s, x)[i] = s[i]
OBVIOUS

\* Every reachable state satisfies the inductive invariant.
THEOREM Invariance == Spec => []IInv
BY InvInit, InvNext, PTL DEF Spec

\* Documents, records and requests are always well formed.
THEOREM TypeCorrect == Spec => []TypeOK
<1>1. IInv => TypeOK
  BY DEF IInv
<1> QED BY <1>1, Invariance, PTL

\* The rule document always is a copy of the newest record of its rule.
THEOREM DocumentsFollowHistory == Spec => []DocumentIsHead
<1>1. IInv => DocumentIsHead
  BY DEF IInv
<1> QED BY <1>1, Invariance, PTL

\* Two requests that read the same version never both commit.
THEOREM HistoryIsLinear == Spec => []LinearHistory
<1>1. IInv => LinearHistory
  BY DEF IInv
<1> QED BY <1>1, Invariance, PTL

\* Nobody changes a rule of a scope he may not manage, and nobody moves one
\* out of or into such a scope.
THEOREM OnlyAuthorisedChanges == Spec => []ChangesAreAuthorised
<1>1. IInv => ChangesAreAuthorised
  BY DEF IInv
<1> QED BY <1>1, Invariance, PTL

\* The applied marker always names a version of the rule itself, and a rule is
\* shown as applied exactly when that version is the current one.
THEOREM MarkerIsConsistent == Spec => []AppliedMarker
<1>1. IInv => AppliedMarker
  BY DEF IInv
<1> QED BY <1>1, Invariance, PTL

-----------------------------------------------------------------------------
(* The store implements the abstract log.                                  *)

\* A commit is the abstract step its request asks for, taken at the newest
\* record of the rule; everything else is a stutter of the log.
LEMMA CommitIsAbstractStep ==
    ASSUME IInv, NEW o \in Operators, SaveCommits(o)
    PROVE  History!Next
<1> DEFINE q == op[o]
<1> DEFINE p == q.read.current
<1>0. /\ q \in Requests /\ RequestIsSound(o, q) /\ History!IsHead(q.rule, p)
      /\ q.phase = "save" /\ q.rule \in Rules /\ q.action \in Actions
  BY CommitFacts DEF SaveCommits, Requests
<1>1. updates' = Append(updates, History!Entry(o, q.rule, p, q.action, q.spec, q.state, q.source))
  BY DEF SaveCommits, RecordOf, History!Entry
<1>2. q.spec \in Specs /\ <<o, q.spec.scope>> \in MayManage
  BY <1>0 DEF RequestIsSound, Manages
<1>3. CASE q.action = "create"
  <2>1. p = History!NoUpdate /\ q.source = History!NoUpdate /\ q.state = "enabled"
    BY <1>0, <1>3 DEF RequestIsSound, NoUpdate, History!NoUpdate
  <2>2. History!Create(o, q.rule, q.spec)
    BY <1>0, <1>1, <1>2, <1>3, <2>1 DEF History!Create
  <2> QED BY <1>0, <1>2, <2>2 DEF History!Next
<1>4. ASSUME q.action # "create"
      PROVE  /\ p \in DOMAIN updates
             /\ updates[p].spec = q.read.spec /\ updates[p].state = q.read.state
             /\ History!Change(o, q.rule, q.action, q.spec, q.state, q.source)
  <2>1. /\ p \in DOMAIN updates
        /\ updates[p].spec = q.read.spec /\ updates[p].state = q.read.state
        /\ <<o, updates[p].spec.scope>> \in MayManage
    BY <1>0, <1>4 DEF RequestIsSound, NoUpdate, Manages, IInv, TypeOK
  <2> QED BY <1>0, <1>1, <2>1 DEF History!Change
<1>5. CASE q.action = "update"
  <2>1. q.state = "enabled" /\ q.source = History!NoUpdate
    BY <1>0, <1>5 DEF RequestIsSound, NoUpdate, History!NoUpdate
  <2>2. History!Update(o, q.rule, q.spec)
    BY <1>2, <1>4, <1>5, <2>1 DEF History!Update
  <2> QED BY <1>0, <1>2, <2>2 DEF History!Next
<1>6. CASE q.action = "disable"
  <2>1. /\ q.spec = q.read.spec /\ q.read.state = "enabled" /\ q.state = "disabled"
        /\ q.source = History!NoUpdate
    BY <1>0, <1>6 DEF RequestIsSound, NoUpdate, History!NoUpdate
  <2>2. History!Disable(o, q.rule)
    BY <1>0, <1>4, <1>6, <2>1 DEF History!Disable
  <2> QED BY <1>0, <2>2 DEF History!Next
<1>7. CASE q.action = "rollback"
  <2>1. /\ q.source \in DOMAIN updates /\ updates[q.source].rule = q.rule
        /\ updates[q.source].spec = q.spec /\ updates[q.source].state = q.state
    BY <1>0, <1>7 DEF RequestIsSound
  <2>2. History!Rollback(o, q.rule)
    BY <1>2, <1>4, <1>7, <2>1 DEF History!Rollback
  <2> QED BY <1>0, <2>2 DEF History!Next
<1> QED BY <1>0, <1>3, <1>5, <1>6, <1>7 DEF Actions

LEMMA StepRefines == IInv /\ [Next]_ruleVars => [History!Next]_updates
<1> SUFFICES ASSUME IInv, Next PROVE History!Next \/ UNCHANGED updates
  BY DEF ruleVars
<1>1. CASE \E o \in Operators : SaveCommits(o)
  BY <1>1, CommitIsAbstractStep
<1>2. CASE ~ \E o \in Operators : SaveCommits(o)
  BY <1>2 DEF Next, OperatorStep, Enable, Update, Disable, Rollback, ReadSource, Abandon,
              SaveConflicts, MarkRuntimeRulesApplied
<1> QED BY <1>1, <1>2

\* Reading, checking and then saving with compare-and-swap on
\* current_update_id is equivalent to changing the newest version at once.
THEOREM Refinement == Spec => ImplementsHistory
<1>1. Init => History!Init
  BY DEF Init, History!Init
<1> QED BY <1>1, StepRefines, Invariance, PTL DEF Spec, ImplementsHistory, History!Spec
=============================================================================
