------------------------- MODULE NotificationPolicies -------------------------
(***************************************************************************)
(* Notification policies and the tests that rules need (internal/alerting).   *)
(* Reads, clock readings, checks and writes of calls interleave.  The version    *)
(* of a policy is the time of its last change, which the store keeps in           *)
(* milliseconds, the ticks of the clock here.  Module AlertRules has what            *)
(* happens to a rule that is saved; here a rule is what a caller enabled, and         *)
(* rules that are updated or rolled back are left out.                                 *)
(***************************************************************************)
EXTENDS Naturals, Sequences, FiniteSets

CONSTANTS
    PolicyCallers,
    PolicyScopes,      \* services, and what stands for all of them
    EveryService,
    MayManagePolicies, \* pairs of a caller and a scope
    RuleServices,      \* services that rules are for
    ReceiptTTL,
    Second,            \* ticks: receipts say when they expire in whole seconds
    MaxClock,          \* bound: ticks
    PolicyRequests,    \* [scope, receiver, enabled]
    MaxPolicies,       \* bound
    MaxChanges,        \* bound: changes of one policy
    MaxReceipts,       \* bound
    MaxEnabled         \* bound: rules that are saved

ASSUME PolicyScopesAssumption ==
    EveryService \in PolicyScopes /\ RuleServices \subseteq PolicyScopes \ {EveryService}

ASSUME ReceiptAssumption == ReceiptTTL \in Nat /\ Second \in Nat \ {0}

VARIABLES
    policyClock,
    policies,          \* [scope, receiver, enabled, at]; IDs are positions
    policyHistory,     \* history: of each policy [changes, stamps, repeated, linear]
    receipts,          \* the tokens that tests gave: [by, rule, tested], and the receiver then
    enabledRules,      \* the rules that were saved, with the receipts they were saved for
    policyCalls

policyVars == <<policyClock, policies, policyHistory, receipts, enabledRules, policyCalls>>

-------------------------------------------------------------------------------
NoPolicyCall == [phase |-> "ended"]

PoliciesInit ==
    /\ policyClock = 0
    /\ policies = <<>>
    /\ policyHistory = <<>>
    /\ receipts = {}
    /\ enabledRules = {}
    /\ policyCalls = [c \in PolicyCallers |-> NoPolicyCall]

PolicyBegins(c) == policyCalls[c].phase = "ended"

PolicyStep(c, call) == policyCalls' = [policyCalls EXCEPT ![c] = call]

PolicyTick ==
    /\ policyClock < MaxClock
    /\ policyClock' = policyClock + 1
    /\ UNCHANGED <<policies, policyHistory, receipts, enabledRules, policyCalls>>

mayManagePolicy(c, scope) == <<c, scope>> \in MayManagePolicies

Stamped(request) ==
    [scope |-> request.scope, receiver |-> request.receiver, enabled |-> request.enabled,
     at |-> policyClock]

\* How many changes there are, when, whether two have one time, and whether each was made by
\* who had read the one before.
FirstChange(at) == [changes |-> 1, stamps |-> {at}, repeated |-> FALSE, linear |-> TRUE]

NextChange(history, at, parent) ==
    [changes |-> history.changes + 1, stamps |-> history.stamps \cup {at},
     repeated |-> history.repeated \/ at \in history.stamps,
     linear |-> history.linear /\ parent = history.changes]

-------------------------------------------------------------------------------
\* Policies

CreatePolicy(c, request) ==
    /\ PolicyBegins(c)
    /\ mayManagePolicy(c, request.scope)
    /\ PolicyStep(c, [phase |-> "insert", policy |-> Stamped(request)])
    /\ UNCHANGED <<policyClock, policies, policyHistory, receipts, enabledRules>>

InsertPolicy(c) ==
    /\ policyCalls[c].phase = "insert"
    /\ Len(policies) < MaxPolicies
    /\ policies' = Append(policies, policyCalls[c].policy)
    /\ policyHistory' = Append(policyHistory, FirstChange(policyCalls[c].policy.at))
    /\ PolicyStep(c, NoPolicyCall)
    /\ UNCHANGED <<policyClock, receipts, enabledRules>>

UpdateReadsPolicy(c, id) ==
    /\ PolicyBegins(c)
    /\ PolicyStep(c, [phase |-> "read", id |-> id, current |-> policies[id],
                      parent |-> policyHistory[id].changes])
    /\ UNCHANGED <<policyClock, policies, policyHistory, receipts, enabledRules>>

\* MUTANT: the receiver may change.
AcceptsReceivers(c, current, request) ==
    mayManagePolicy(c, current.scope) /\ mayManagePolicy(c, request.scope)

\* The receiver stays; the caller manages the scope before and after.
AcceptsUpdate(c, current, request) ==
    /\ request.receiver = current.receiver
    /\ mayManagePolicy(c, current.scope) /\ mayManagePolicy(c, request.scope)

\* The clock is read before the checks.
UpdatePolicy(c, request) ==
    /\ policyCalls[c].phase = "read"
    /\ AcceptsUpdate(c, policyCalls[c].current, request)
    /\ LET call == policyCalls[c]
       IN  PolicyStep(c, [phase |-> "replace", id |-> call.id, expected |-> call.current.at,
                          policy |-> Stamped(request), parent |-> call.parent])
    /\ UNCHANGED <<policyClock, policies, policyHistory, receipts, enabledRules>>

\* MUTANT: a policy is found by its ID alone.
FoundByID(c) == policyCalls[c].id \in DOMAIN policies

\* By its ID and the time it was read with.
IsExpected(c) == policies[policyCalls[c].id].at = policyCalls[c].expected

SaveNotificationPolicy(c) ==
    /\ policyCalls[c].phase = "replace"
    /\ IsExpected(c)
    /\ LET call == policyCalls[c]
       IN  /\ policyHistory[call.id].changes < MaxChanges
           /\ policies' = [policies EXCEPT ![call.id] = call.policy]
           /\ policyHistory' = [policyHistory EXCEPT ![call.id] =
                                   NextChange(@, call.policy.at, call.parent)]
    /\ PolicyStep(c, NoPolicyCall)
    /\ UNCHANGED <<policyClock, receipts, enabledRules>>

-------------------------------------------------------------------------------
\* Rules: [policy, service].  The hash of a specification is the specification.

RulesFor == [policy : DOMAIN policies, service : RuleServices]

ValidatePolicy(rule) ==
    /\ policies[rule.policy].enabled
    /\ policies[rule.policy].scope \in {EveryService, rule.service}

\* What a publication writes into the rule: the policy that is stored then, enabled or not.
ReceiverOf(rule) == policies[rule.policy].receiver

\* The policy is read, then the query runs, then the clock is read.
TestReadsPolicy(c, rule) ==
    /\ PolicyBegins(c)
    /\ ValidatePolicy(rule)
    /\ PolicyStep(c, [phase |-> "test", rule |-> rule, receiver |-> ReceiverOf(rule)])
    /\ UNCHANGED <<policyClock, policies, policyHistory, receipts, enabledRules>>

IssueTestReceipt(c) ==
    /\ policyCalls[c].phase = "test"
    /\ Cardinality(receipts) < MaxReceipts
    /\ receipts' = receipts \cup {[by |-> c, rule |-> policyCalls[c].rule, tested |-> policyClock,
                                   receiver |-> policyCalls[c].receiver]}
    /\ PolicyStep(c, NoPolicyCall)
    /\ UNCHANGED <<policyClock, policies, policyHistory, enabledRules>>

EnableRule(c, rule) ==
    /\ PolicyBegins(c)
    /\ ValidatePolicy(rule)
    /\ PolicyStep(c, [phase |-> "verify", rule |-> rule])
    /\ UNCHANGED <<policyClock, policies, policyHistory, receipts, enabledRules>>

Verify(c, receipt) ==
    /\ receipt.by = c
    /\ receipt.rule = policyCalls[c].rule
    /\ (policyClock \div Second) <= ((receipt.tested + ReceiptTTL) \div Second)

VerifyTestReceipt(c, receipt) ==
    /\ policyCalls[c].phase = "verify"
    /\ Verify(c, receipt)
    /\ PolicyStep(c, [phase |-> "rule", rule |-> policyCalls[c].rule, at |-> policyClock])
    /\ UNCHANGED <<policyClock, policies, policyHistory, receipts, enabledRules>>

SaveRule(c) ==
    /\ policyCalls[c].phase = "rule"
    /\ Cardinality(enabledRules) < MaxEnabled
    /\ enabledRules' = enabledRules \cup
            {[by |-> c, rule |-> policyCalls[c].rule, verified |-> policyCalls[c].at]}
    /\ PolicyStep(c, NoPolicyCall)
    /\ UNCHANGED <<policyClock, policies, policyHistory, receipts>>

\* A check refuses, the store conflicts or fails, the query fails, or the process stops.
PolicyCallFails(c) ==
    /\ policyCalls[c].phase # "ended"
    /\ PolicyStep(c, NoPolicyCall)
    /\ UNCHANGED <<policyClock, policies, policyHistory, receipts, enabledRules>>

PoliciesNext ==
    \/ PolicyTick
    \/ \E c \in PolicyCallers :
           \/ \E request \in PolicyRequests : CreatePolicy(c, request) \/ UpdatePolicy(c, request)
           \/ \E id \in DOMAIN policies : UpdateReadsPolicy(c, id)
           \/ InsertPolicy(c) \/ SaveNotificationPolicy(c)
           \/ \E rule \in RulesFor : TestReadsPolicy(c, rule) \/ EnableRule(c, rule)
           \/ IssueTestReceipt(c)
           \/ \E receipt \in receipts : VerifyTestReceipt(c, receipt)
           \/ SaveRule(c) \/ PolicyCallFails(c)

PoliciesSpec == PoliciesInit /\ [][PoliciesNext]_policyVars

-------------------------------------------------------------------------------
\* No change of a policy is lost, nor made over one that its caller has not seen, as long as
\* no two changes of the policy were stamped with the same millisecond.
PolicyChangesAreLinear ==
    \A p \in DOMAIN policies : policyHistory[p].repeated \/ policyHistory[p].linear

\* A rule that is enabled was tested as it is by who enabled it, less than a second longer ago
\* than a receipt is good for when it was verified, and its alerts go to the receiver its policy had then,
\* whatever has been done to the policy since.
AlertsGoWhereTested ==
    \A saved \in enabledRules : \E receipt \in receipts :
        /\ receipt.by = saved.by /\ receipt.rule = saved.rule
        /\ receipt.tested <= saved.verified
        /\ saved.verified < receipt.tested + ReceiptTTL + Second
        /\ receipt.receiver = ReceiverOf(saved.rule)

\* Changes of policies are made on what their callers have seen, and never behind the back of an
\* enabled rule.
PoliciesAreSound == PolicyChangesAreLinear /\ AlertsGoWhereTested
===============================================================================
