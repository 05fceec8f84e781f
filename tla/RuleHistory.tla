---------------------------- MODULE RuleHistory ----------------------------
(***************************************************************************)
(* What the alert rule store promises, without saying how: one append-only *)
(* log of changes.  Every change is made to the newest entry of its rule   *)
(* in one indivisible step; the rule document is only a copy of that       *)
(* newest entry and does not appear here.                                  *)
(***************************************************************************)
EXTENDS Naturals, Sequences

CONSTANTS
    Operators,      \* authenticated subjects
    Rules,          \* rule IDs
    Specs,          \* rule specifications, [name, scope, endpoint, ...]
    MayManage       \* pairs <<operator, scope>> the authorizer allows

VARIABLE log        \* the committed UpdateRecords; an ID is a position

NoUpdate == 0

\* Entry p is the newest one of rule r (NoUpdate: r has none).
IsHead(r, p) ==
    /\ p \in 0 .. Len(log)
    /\ p # NoUpdate => log[p].rule = r
    /\ \A i \in DOMAIN log : i > p => log[i].rule # r

Entry(o, r, p, action, spec, state, source) ==
    [rule |-> r, parent |-> p, source |-> source, action |-> action,
     spec |-> spec, state |-> state, actor |-> o]

Create(o, r, s) ==
    /\ IsHead(r, NoUpdate)
    /\ <<o, s.scope>> \in MayManage
    /\ log' = Append(log, Entry(o, r, NoUpdate, "create", s, "enabled", NoUpdate))

\* A change of an existing rule needs permission on the scope it had.
Change(o, r, action, spec, state, source) ==
    \E p \in DOMAIN log :
        /\ IsHead(r, p)
        /\ <<o, log[p].spec.scope>> \in MayManage
        /\ log' = Append(log, Entry(o, r, p, action, spec, state, source))

Update(o, r, s) ==
    /\ <<o, s.scope>> \in MayManage
    /\ Change(o, r, "update", s, "enabled", NoUpdate)

\* Disabling keeps the specification the rule has at that very moment.
Disable(o, r) ==
    \E p \in DOMAIN log :
        /\ IsHead(r, p)
        /\ log[p].state = "enabled"
        /\ Change(o, r, "disable", log[p].spec, "disabled", NoUpdate)

\* Rolling back restores an earlier entry of the same rule.
Rollback(o, r) ==
    \E src \in DOMAIN log :
        /\ log[src].rule = r
        /\ <<o, log[src].spec.scope>> \in MayManage
        /\ Change(o, r, "rollback", log[src].spec, log[src].state, src)

Init == log = <<>>

Next ==
    \E o \in Operators, r \in Rules :
        \/ \E s \in Specs : Create(o, r, s) \/ Update(o, r, s)
        \/ Disable(o, r)
        \/ Rollback(o, r)

Spec == Init /\ [][Next]_log
=============================================================================
