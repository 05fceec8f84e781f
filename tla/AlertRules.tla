---------------------------- MODULE AlertRules ----------------------------
(***************************************************************************)
(* The rule lifecycle of the alerting control plane: internal/alerting     *)
(* Service (Enable, Update, Rollback, Disable) over the rule store, with   *)
(* every database read and every database write a step of its own.         *)
(*                                                                         *)
(* An operator's request reads the rule document, checks what it read, and *)
(* hands a whole new document to SaveChange, which commits it only when    *)
(* current_update_id is still the one that was read.  Publishing (module   *)
(* AlertRuntime) writes the same documents through                         *)
(* MarkRuntimeRulesApplied without touching current_update_id.             *)
(***************************************************************************)
EXTENDS Naturals, Sequences

CONSTANTS
    Operators,      \* authenticated subjects
    Rules,          \* rule IDs (fresh ObjectIDs, so a finite supply is a bound)
    Endpoints,      \* runtime IDs: signal type plus endpoint
    Specs,          \* normalized specifications, see SpecsAssumption
    NoSpec,         \* the specification of a document that does not exist
    MayManage,      \* pairs <<operator, scope>> Authorize allows "manage" on
    MaxUpdates      \* bound: committed changes in all

ASSUME SpecsAssumption ==
    /\ NoSpec \notin Specs
    /\ \A s \in Specs : s.endpoint \in Endpoints

ASSUME BoundAssumption == MaxUpdates \in Nat

VARIABLES
    rules,          \* rules[r]: the document of collection alert_rules
    updates,        \* committed UpdateRecords; an update ID is a position
    op              \* op[o]: the request operator o has in flight

ruleVars == <<rules, updates, op>>

NoUpdate == 0
States == {"enabled", "disabled"}
Actions == {"create", "update", "disable", "rollback"}

\* CurrentUpdateID = "" marks a rule that has not been inserted.
NoDoc == [spec |-> NoSpec, state |-> "none", status |-> "none",
          current |-> NoUpdate, applied |-> NoUpdate]

Docs == [spec : Specs \cup {NoSpec}, state : States \cup {"none"},
         status : {"none", "pending", "applied"}, current : Nat, applied : Nat]

UpdateRecords == [rule : Rules, parent : Nat, source : Nat, action : Actions,
                  spec : Specs, state : States, actor : Operators]

Idle == [phase |-> "idle"]

\* phase "source": the rule is read, the update to restore is not yet;
\* phase "save": all checks passed, SaveChange is next.
Requests == [phase : {"source", "save"}, action : Actions, rule : Rules,
             read : Docs, spec : Specs \cup {NoSpec},
             state : States \cup {"none"}, source : Nat]

Exists(r) == rules[r].current # NoUpdate
Manages(o, s) == <<o, s.scope>> \in MayManage

Request(phase, action, r, doc, spec, state, source) ==
    [phase |-> phase, action |-> action, rule |-> r, read |-> doc,
     spec |-> spec, state |-> state, source |-> source]

Init ==
    /\ rules = [r \in Rules |-> NoDoc]
    /\ updates = <<>>
    /\ op = [o \in Operators |-> Idle]

-----------------------------------------------------------------------------
(* Requests up to SaveChange.                                              *)

\* Enable takes a new ObjectID, which no other request can hold.
Enable(o, r, s) ==
    /\ op[o] = Idle
    /\ ~Exists(r)
    /\ \A p \in Operators : op[p] # Idle => op[p].rule # r
    /\ Manages(o, s)
    /\ op' = [op EXCEPT ![o] =
                Request("save", "create", r, NoDoc, s, "enabled", NoUpdate)]
    /\ UNCHANGED <<rules, updates>>

Update(o, r, s) ==
    /\ op[o] = Idle
    /\ Exists(r)
    /\ Manages(o, rules[r].spec)
    /\ Manages(o, s)
    /\ op' = [op EXCEPT ![o] =
                Request("save", "update", r, rules[r], s, "enabled", NoUpdate)]
    /\ UNCHANGED <<rules, updates>>

Disable(o, r) ==
    /\ op[o] = Idle
    /\ Exists(r)
    /\ Manages(o, rules[r].spec)
    /\ rules[r].state = "enabled"
    /\ op' = [op EXCEPT ![o] =
                Request("save", "disable", r, rules[r], rules[r].spec,
                        "disabled", NoUpdate)]
    /\ UNCHANGED <<rules, updates>>

Rollback(o, r) ==
    /\ op[o] = Idle
    /\ Exists(r)
    /\ Manages(o, rules[r].spec)
    /\ op' = [op EXCEPT ![o] =
                Request("source", "rollback", r, rules[r], NoSpec, "none", NoUpdate)]
    /\ UNCHANGED <<rules, updates>>

\* MUTANT: the source's scope is not checked.
ReadSourceUnchecked(o, src) ==
    /\ op[o] # Idle
    /\ op[o].phase = "source"
    /\ src \in DOMAIN updates
    /\ updates[src].rule = op[o].rule
    /\ op' = [op EXCEPT ![o].phase = "save", ![o].spec = updates[src].spec,
                        ![o].state = updates[src].state, ![o].source = src]
    /\ UNCHANGED <<rules, updates>>

\* GetUpdate, a second read: other requests may have committed since the first.
ReadSource(o, src) ==
    /\ op[o] # Idle
    /\ op[o].phase = "source"
    /\ src \in DOMAIN updates
    /\ updates[src].rule = op[o].rule
    /\ Manages(o, updates[src].spec)
    /\ op' = [op EXCEPT ![o].phase = "save", ![o].spec = updates[src].spec,
                        ![o].state = updates[src].state, ![o].source = src]
    /\ UNCHANGED <<rules, updates>>

\* Any other check refuses the request, the database fails, or the server
\* stops: nothing has been written yet.
Abandon(o) ==
    /\ op[o] # Idle
    /\ op' = [op EXCEPT ![o] = Idle]
    /\ UNCHANGED <<rules, updates>>

-----------------------------------------------------------------------------
(* SaveChange: one transaction over rule, update record and audit event.   *)

\* The unique index, whatever else of the scopes differs.
NameFree(r, s) ==
    \A x \in Rules \ {r} :
        Exists(x) => <<rules[x].spec.service, rules[x].spec.name>> # <<s.service, s.name>>

\* MUTANT: SaveChange replaces by ID only.
VersionUnchecked(q) == TRUE

VersionIsCurrent(q) == rules[q.rule].current = q.read.current

\* MUTANT: a change leaves the apply status alone.
WrittenKeepsStatus(q, id) ==
    [spec |-> q.spec, state |-> q.state, status |-> q.read.status,
     current |-> id, applied |-> q.read.applied]

\* MUTANT: a rollback restores the specification but not the state.
WrittenKeepsState(q, id) ==
    [spec |-> q.spec, state |-> IF q.action = "rollback" THEN q.read.state ELSE q.state,
     status |-> "pending", current |-> id, applied |-> q.read.applied]

\* The document READ with some fields replaced: its applied marker is written
\* back as it was read.
Written(q, id) ==
    [spec |-> q.spec, state |-> q.state, status |-> "pending",
     current |-> id, applied |-> q.read.applied]

\* MUTANT: ParentUpdateID is not set.
RecordWithoutParent(o, q) ==
    [rule |-> q.rule, parent |-> NoUpdate, source |-> q.source,
     action |-> q.action, spec |-> q.spec, state |-> q.state, actor |-> o]

RecordOf(o, q) ==
    [rule |-> q.rule, parent |-> q.read.current, source |-> q.source,
     action |-> q.action, spec |-> q.spec, state |-> q.state, actor |-> o]

SaveCommits(o) ==
    /\ op[o] # Idle
    /\ op[o].phase = "save"
    /\ Len(updates) < MaxUpdates
    /\ VersionIsCurrent(op[o])
    /\ NameFree(op[o].rule, op[o].spec)
    /\ rules' = [rules EXCEPT ![op[o].rule] = Written(op[o], Len(updates) + 1)]
    /\ updates' = Append(updates, RecordOf(o, op[o]))
    /\ op' = [op EXCEPT ![o] = Idle]

SaveConflicts(o) ==
    /\ op[o] # Idle
    /\ op[o].phase = "save"
    /\ ~(VersionIsCurrent(op[o]) /\ NameFree(op[o].rule, op[o].spec))
    /\ op' = [op EXCEPT ![o] = Idle]
    /\ UNCHANGED <<rules, updates>>

\* What UpdateMany does when it comes to a rule, one document after the other: a rule bound
\* to the endpoint NOW is marked, enabled or not, whatever was compiled.
MarkRuntimeRulesApplied(e, r) ==
    /\ rules' = IF Exists(r) /\ rules[r].spec.endpoint = e
                THEN [rules EXCEPT ![r].status = "applied", ![r].applied = rules[r].current]
                ELSE rules
    /\ UNCHANGED <<updates, op>>

OperatorStep ==
    \E o \in Operators :
        \/ \E r \in Rules, s \in Specs : Enable(o, r, s) \/ Update(o, r, s)
        \/ \E r \in Rules : Disable(o, r) \/ Rollback(o, r)
        \/ \E src \in DOMAIN updates : ReadSource(o, src)
        \/ Abandon(o)
        \/ SaveCommits(o)
        \/ SaveConflicts(o)

Next == OperatorStep \/ \E e \in Endpoints, r \in Rules : MarkRuntimeRulesApplied(e, r)

Spec == Init /\ [][Next]_ruleVars

-----------------------------------------------------------------------------
(* Properties.                                                             *)

\* The three collections hold well-formed documents and requests.
TypeOK ==
    /\ rules \in [Rules -> Docs]
    /\ updates \in Seq(UpdateRecords)
    /\ op \in [Operators -> {Idle} \cup Requests]

History == INSTANCE RuleHistory WITH log <- updates

\* A rule document always agrees with the newest update record of its rule:
\* no interleaving of requests leaves a document that history cannot explain.
DocumentIsHead ==
    \A r \in Rules :
        /\ History!IsHead(r, rules[r].current)
        /\ Exists(r) =>
              /\ rules[r].spec = updates[rules[r].current].spec
              /\ rules[r].state = updates[rules[r].current].state

\* The records of one rule form one line: each record's parent is the record
\* of that rule committed just before it.  Two requests that read the same
\* version never both commit.
LinearHistory ==
    \A i \in DOMAIN updates :
        /\ updates[i].parent < i
        /\ updates[i].parent # NoUpdate => updates[updates[i].parent].rule = updates[i].rule
        /\ \A j \in updates[i].parent + 1 .. i - 1 : updates[j].rule # updates[i].rule

\* Whoever committed a change may manage both the scope the rule had then and
\* the scope it got, although permission was checked on documents read earlier.
ChangesAreAuthorised ==
    \A i \in DOMAIN updates :
        LET u == updates[i] IN
        /\ Manages(u.actor, u.spec)
        /\ u.parent # NoUpdate => Manages(u.actor, updates[u.parent].spec)

\* The applied marker: a rule shown as applied carries its current version as
\* the applied one, a pending rule does not, and an applied version is always
\* a version this rule had.
AppliedMarker ==
    \A r \in Rules :
        /\ rules[r].status = "applied" <=> Exists(r) /\ rules[r].applied = rules[r].current
        /\ rules[r].applied <= rules[r].current
        /\ rules[r].applied # NoUpdate => updates[rules[r].applied].rule = r

\* What a request in flight holds: the document it read is a version the rule
\* really had, and what it is about to write follows from that document (and,
\* for a rollback, from an older record of the same rule).
RequestIsSound(o, q) ==
    /\ q.read.current \in 0 .. Len(updates)
    /\ q.read.current = NoUpdate <=> q.action = "create"
    /\ q.action = "create" => q.read = NoDoc /\ q.phase = "save"
    /\ q.action # "create" =>
          /\ updates[q.read.current].rule = q.rule
          /\ updates[q.read.current].spec = q.read.spec
          /\ updates[q.read.current].state = q.read.state
          /\ Manages(o, q.read.spec)
    /\ q.read.applied <= q.read.current
    /\ q.read.applied # NoUpdate => updates[q.read.applied].rule = q.rule
    /\ q.phase = "source" => q.action = "rollback"
    /\ q.phase = "save" =>
          /\ q.spec \in Specs
          /\ q.state \in States
          /\ Manages(o, q.spec)
          /\ q.action \in {"create", "update"} => q.state = "enabled"
          /\ q.action = "disable" => q.spec = q.read.spec /\ q.read.state = "enabled"
                                        /\ q.state = "disabled"
          /\ q.action # "rollback" => q.source = NoUpdate
          /\ q.action = "rollback" =>
                /\ q.source \in DOMAIN updates
                /\ updates[q.source].rule = q.rule
                /\ updates[q.source].spec = q.spec
                /\ updates[q.source].state = q.state

RequestsAreSound == \A o \in Operators : op[o] # Idle => RequestIsSound(o, op[o])

\* The store implements the abstract log: every commit is a change made to the
\* newest version of the rule, as if it had been read and written at once.
ImplementsHistory == History!Spec
=============================================================================
