---------------------------- MODULE PlatformProofs ----------------------------
(*******************************************************************************)
(* What holds of the platform's services for every number of callers, users,   *)
(* environments, resources, services, documents and keys: notification         *)
(* policies, onboarding, access control, metrics sources, the service          *)
(* catalogue, the two stores, grants.  The parts share no state; each has its  *)
(* invariant, the steps that keep it, and its theorems.                        *)
(*******************************************************************************)
EXTENDS NotificationPolicies, Onboarding, AccessControl, MetricsSources, ServiceCatalog,
        Stores, AccessGrants, FiniteSetTheorems, TLAPS

(******************************************************************************)
(* A policy is never changed by somebody who has not seen its last change,    *)
(* unless two changes have one time; and what a rule sends goes where its     *)
(* test went.                                                                 *)
(*                                                                            *)
(* The argument.  Every time a policy ever had is among its stamps: a change  *)
(* whose time is new therefore invalidates whatever was read before           *)
(* (UpdateIsSound), and one whose time is not new is a repetition.  Receivers *)
(* never change, so what a test met is what a publication will use.           *)
(******************************************************************************)

PolicyDocs == [scope : {r.scope : r \in PolicyRequests},
               receiver : {r.receiver : r \in PolicyRequests},
               enabled : {r.enabled : r \in PolicyRequests}, at : Nat]

Histories == [changes : Nat, stamps : SUBSET Nat, repeated : BOOLEAN, linear : BOOLEAN]

\* The policy a call has read, or is about to replace.
UpdateIsSound(id, at, parent, receiver) ==
    /\ id \in DOMAIN policies
    /\ at \in policyHistory[id].stamps
    /\ receiver = policies[id].receiver
    /\ ~policyHistory[id].repeated /\ policies[id].at = at =>
           parent = policyHistory[id].changes

\* A test or a rule names a policy that is there.
RuleIsSound(rule) == rule.policy \in DOMAIN policies

WasTested(c, rule, at) ==
    \E receipt \in receipts :
        /\ receipt.by = c /\ receipt.rule = rule
        /\ receipt.tested <= at /\ at < receipt.tested + ReceiptTTL + Second
        /\ receipt.receiver = ReceiverOf(rule)

\* What is not later in whole seconds is later by less than a second.
LEMMA LessThanASecondMore ==
    ASSUME NEW a \in Nat, NEW b \in Nat, (a \div Second) <= (b \div Second)
    PROVE  a < b + Second
<1> DEFINE q == a \div Second
           p == b \div Second
<1>1. Second \in Nat /\ Second > 0
  BY ReceiptAssumption
<1>2. /\ q \in Nat /\ a = Second * q + (a % Second) /\ a % Second \in 0..(Second - 1)
      /\ p \in Nat /\ b = Second * p + (b % Second) /\ b % Second \in 0..(Second - 1)
  BY <1>1
<1>3. Second * q <= Second * p
  BY <1>1, <1>2
<1> QED BY <1>1, <1>2, <1>3

PolicyCallIsSound(c, call) ==
    /\ call.phase = "insert" => call.policy \in PolicyDocs
    /\ call.phase = "read" =>
           UpdateIsSound(call.id, call.current.at, call.parent, call.current.receiver)
    /\ call.phase = "replace" =>
           /\ UpdateIsSound(call.id, call.expected, call.parent, call.policy.receiver)
           /\ call.policy \in PolicyDocs
    /\ call.phase = "test" => RuleIsSound(call.rule) /\ call.receiver = ReceiverOf(call.rule)
    /\ call.phase = "verify" => RuleIsSound(call.rule)
    /\ call.phase = "rule" => RuleIsSound(call.rule) /\ WasTested(c, call.rule, call.at)

ReceiptIsSound(receipt) ==
    /\ RuleIsSound(receipt.rule)
    /\ receipt.tested \in Nat /\ receipt.tested <= policyClock
    /\ receipt.receiver = ReceiverOf(receipt.rule)

PInv ==
    /\ policyClock \in Nat
    /\ policies \in Seq(PolicyDocs)
    /\ policyHistory \in Seq(Histories) /\ Len(policyHistory) = Len(policies)
    /\ DOMAIN policyCalls = PolicyCallers
    /\ \A p \in DOMAIN policies : policies[p].at \in policyHistory[p].stamps
    /\ PolicyChangesAreLinear
    /\ \A c \in PolicyCallers : PolicyCallIsSound(c, policyCalls[c])
    /\ \A receipt \in receipts : ReceiptIsSound(receipt)
    /\ \A saved \in enabledRules :
           RuleIsSound(saved.rule) /\ WasTested(saved.by, saved.rule, saved.verified)

LEMMA PInvInit == PoliciesInit => PInv
BY DEF PoliciesInit, PInv, NoPolicyCall, PolicyChangesAreLinear, PolicyCallIsSound

\* Only the call of c changes, or what it has tested or saved.
LEMMA CallIsReplaced ==
    ASSUME PInv, NEW c \in PolicyCallers, NEW call,
           policyCalls' = [policyCalls EXCEPT ![c] = call],
           UNCHANGED <<policyClock, policies, policyHistory>>,
           receipts \subseteq receipts',
           PolicyCallIsSound(c, call),
           \A receipt \in receipts' \ receipts : ReceiptIsSound(receipt),
           \A saved \in enabledRules' \ enabledRules :
               RuleIsSound(saved.rule) /\ WasTested(saved.by, saved.rule, saved.verified)
    PROVE  PInv'
<1>1. \A d, rule, at : WasTested(d, rule, at) => WasTested(d, rule, at)'
  BY DEF WasTested, ReceiverOf
<1>2. \A d, q : PolicyCallIsSound(d, q) => PolicyCallIsSound(d, q)'
  BY <1>1 DEF PolicyCallIsSound, UpdateIsSound, RuleIsSound, ReceiverOf
<1>3. \A d \in PolicyCallers : PolicyCallIsSound(d, policyCalls[d])'
  <2> SUFFICES ASSUME NEW d \in PolicyCallers PROVE PolicyCallIsSound(d, policyCalls[d])'
    OBVIOUS
  <2>1. PICK q : q = policyCalls'[d] /\ PolicyCallIsSound(d, q)
    BY DEF PInv
  <2>2. PolicyCallIsSound(d, q)'
    BY <1>2, <2>1
  <2> QED BY <2>1, <2>2 DEF PolicyCallIsSound
<1>4. \A receipt \in receipts' : ReceiptIsSound(receipt)'
  BY DEF PInv, ReceiptIsSound, RuleIsSound, ReceiverOf
<1>5. \A saved \in enabledRules' :
         RuleIsSound(saved.rule)' /\ WasTested(saved.by, saved.rule, saved.verified)'
  BY <1>1 DEF PInv, RuleIsSound
<1>6. PolicyChangesAreLinear'
  BY DEF PInv, PolicyChangesAreLinear
<1> QED BY <1>3, <1>4, <1>5, <1>6 DEF PInv

LEMMA TickKeeps ==
    ASSUME PInv, PolicyTick
    PROVE  PInv'
<1>1. \A c, rule, at : WasTested(c, rule, at) => WasTested(c, rule, at)'
  BY DEF PolicyTick, WasTested, ReceiverOf
<1>2. \A c \in PolicyCallers : PolicyCallIsSound(c, policyCalls[c])'
  BY <1>1 DEF PolicyTick, PInv, PolicyCallIsSound, UpdateIsSound, RuleIsSound, ReceiverOf
<1>3. \A receipt \in receipts' : ReceiptIsSound(receipt)'
  BY DEF PolicyTick, PInv, ReceiptIsSound, RuleIsSound, ReceiverOf
<1>4. \A saved \in enabledRules' :
         RuleIsSound(saved.rule)' /\ WasTested(saved.by, saved.rule, saved.verified)'
  BY <1>1 DEF PolicyTick, PInv, RuleIsSound
<1> QED BY <1>2, <1>3, <1>4 DEF PolicyTick, PInv, PolicyChangesAreLinear

\* A write to the policies that keeps receivers keeps tests and rules.
LEMMA ReceiversStay ==
    ASSUME PInv, UNCHANGED <<policyClock, receipts, enabledRules>>,
           DOMAIN policies \subseteq DOMAIN policies',
           \A p \in DOMAIN policies : policies'[p].receiver = policies[p].receiver
    PROVE  /\ \A c, rule, at : RuleIsSound(rule) /\ WasTested(c, rule, at)
                               => RuleIsSound(rule)' /\ WasTested(c, rule, at)'
           /\ \A rule : RuleIsSound(rule) => /\ RuleIsSound(rule)'
                                            /\ ReceiverOf(rule)' = ReceiverOf(rule)
           /\ \A receipt \in receipts' : ReceiptIsSound(receipt)'
           /\ \A saved \in enabledRules' :
                 RuleIsSound(saved.rule)' /\ WasTested(saved.by, saved.rule, saved.verified)'
<1>1. \A rule : RuleIsSound(rule) => /\ RuleIsSound(rule)'
                                     /\ ReceiverOf(rule)' = ReceiverOf(rule)
  BY DEF RuleIsSound, ReceiverOf
<1>2. \A c, rule, at : RuleIsSound(rule) /\ WasTested(c, rule, at)
                      => RuleIsSound(rule)' /\ WasTested(c, rule, at)'
  BY <1>1 DEF WasTested
<1>3. \A receipt \in receipts' : ReceiptIsSound(receipt)'
  BY <1>1 DEF PInv, ReceiptIsSound
<1> QED BY <1>1, <1>2, <1>3 DEF PInv

LEMMA InsertKeeps ==
    ASSUME PInv, NEW c \in PolicyCallers, InsertPolicy(c)
    PROVE  PInv'
<1> DEFINE policy == policyCalls[c].policy
           history == FirstChange(policy.at)
           n == Len(policies)
<1>0. /\ policies \in Seq(PolicyDocs) /\ policyHistory \in Seq(Histories)
      /\ Len(policyHistory) = n /\ n \in Nat
  BY DEF PInv
<1>1. policy \in PolicyDocs
  BY DEF InsertPolicy, PInv, PolicyCallIsSound
<1>2. /\ history \in Histories /\ policy.at \in history.stamps
      /\ history.linear
  BY <1>1 DEF FirstChange, Histories, PolicyDocs
<1>3. /\ policies' = Append(policies, policy) /\ policyHistory' = Append(policyHistory, history)
      /\ policyCalls' = [policyCalls EXCEPT ![c] = NoPolicyCall]
      /\ UNCHANGED <<policyClock, receipts, enabledRules>>
  BY DEF InsertPolicy, PolicyStep
<1> HIDE DEF policy, history
<1>4. /\ policies' \in Seq(PolicyDocs) /\ policyHistory' \in Seq(Histories)
      /\ Len(policyHistory') = Len(policies')
      /\ DOMAIN policies' = DOMAIN policies \cup {n + 1}
      /\ policies'[n + 1] = policy /\ policyHistory'[n + 1] = history
      /\ \A p \in DOMAIN policies : policies'[p] = policies[p] /\ policyHistory'[p] = policyHistory[p]
  BY <1>0, <1>1, <1>2, <1>3
<1>5. /\ \A d, rule, at : RuleIsSound(rule) /\ WasTested(d, rule, at)
                         => RuleIsSound(rule)' /\ WasTested(d, rule, at)'
      /\ \A rule : RuleIsSound(rule) => RuleIsSound(rule)' /\ ReceiverOf(rule)' = ReceiverOf(rule)
      /\ \A receipt \in receipts' : ReceiptIsSound(receipt)'
      /\ \A saved \in enabledRules' :
            RuleIsSound(saved.rule)' /\ WasTested(saved.by, saved.rule, saved.verified)'
  BY <1>3, <1>4, ReceiversStay
<1>6. \A d \in PolicyCallers : PolicyCallIsSound(d, policyCalls[d])'
  <2> SUFFICES ASSUME NEW d \in PolicyCallers PROVE PolicyCallIsSound(d, policyCalls[d])'
    OBVIOUS
  <2>1. CASE d = c
    BY <1>3, <2>1 DEF PInv, NoPolicyCall, PolicyCallIsSound
  <2>2. CASE d # c
    <3>1. policyCalls'[d] = policyCalls[d] /\ PolicyCallIsSound(d, policyCalls[d])
      BY <1>3, <2>2 DEF PInv
    <3>2. \A id, at, parent, receiver :
             UpdateIsSound(id, at, parent, receiver) => UpdateIsSound(id, at, parent, receiver)'
      BY <1>4 DEF UpdateIsSound
    <3> QED BY <1>5, <3>1, <3>2 DEF PolicyCallIsSound
  <2> QED BY <2>1, <2>2
<1>7. PolicyChangesAreLinear'
  BY <1>2, <1>4 DEF PInv, PolicyChangesAreLinear
<1>8. \A p \in DOMAIN policies' : policies'[p].at \in policyHistory'[p].stamps
  BY <1>2, <1>4 DEF PInv
<1> QED BY <1>3, <1>4, <1>5, <1>6, <1>7, <1>8 DEF PInv

LEMMA SaveKeeps ==
    ASSUME PInv, NEW c \in PolicyCallers, SaveNotificationPolicy(c)
    PROVE  PInv'
<1> DEFINE call == policyCalls[c]
           id == call.id
           old == policyHistory[id]
           new == NextChange(old, call.policy.at, call.parent)
<1>1. /\ UpdateIsSound(id, call.expected, call.parent, call.policy.receiver)
      /\ call.policy \in PolicyDocs
      /\ policies[id].at = call.expected
  BY DEF SaveNotificationPolicy, IsExpected, PInv, PolicyCallIsSound
<1>2. /\ id \in DOMAIN policies /\ call.policy.receiver = policies[id].receiver
      /\ old.repeated \/ call.parent = old.changes
      /\ policies \in Seq(PolicyDocs) /\ policyHistory \in Seq(Histories)
      /\ id \in DOMAIN policyHistory /\ old \in Histories
  BY <1>1 DEF UpdateIsSound, PInv
<1>3. call.policy.at \in Nat
  BY <1>1 DEF PolicyDocs
<1>4. /\ new \in Histories
      /\ new.stamps = old.stamps \cup {call.policy.at}
      /\ new.repeated <=> old.repeated \/ call.policy.at \in old.stamps
      /\ new.linear <=> old.linear /\ call.parent = old.changes
  <2>1. /\ old.changes \in Nat /\ old.stamps \in SUBSET Nat
        /\ old.repeated \in BOOLEAN /\ old.linear \in BOOLEAN
    BY <1>2 DEF Histories
  <2>2. (old.stamps \cup {call.policy.at}) \in SUBSET Nat
    BY <1>3, <2>1
  <2> DEFINE repeated == old.repeated \/ call.policy.at \in old.stamps
             linear == old.linear /\ call.parent = old.changes
             stamps == old.stamps \cup {call.policy.at}
             changes == old.changes + 1
  <2>3. repeated \in BOOLEAN /\ linear \in BOOLEAN /\ changes \in Nat
    BY <2>1
  <2>4. new = [changes |-> changes, stamps |-> stamps, repeated |-> repeated, linear |-> linear]
    BY DEF NextChange
  <2> HIDE DEF old, call, repeated, linear, stamps, changes, new
  <2>5. new \in Histories
    BY <2>2, <2>3, <2>4 DEF Histories, stamps
  <2>6. new.stamps = stamps /\ new.repeated = repeated /\ new.linear = linear
    BY <2>4
  <2> QED BY <2>5, <2>6 DEF stamps, repeated, linear
<1>5. /\ policies' = [policies EXCEPT ![id] = call.policy]
      /\ policyHistory' = [policyHistory EXCEPT ![id] = new]
      /\ policyCalls' = [policyCalls EXCEPT ![c] = NoPolicyCall]
      /\ UNCHANGED <<policyClock, receipts, enabledRules>>
  BY DEF SaveNotificationPolicy, PolicyStep
<1> HIDE DEF new
<1>6. /\ policies' \in Seq(PolicyDocs) /\ policyHistory' \in Seq(Histories)
      /\ Len(policyHistory') = Len(policies')
      /\ DOMAIN policies' = DOMAIN policies
      /\ policies'[id] = call.policy /\ policyHistory'[id] = new
      /\ \A p \in DOMAIN policies \ {id} :
            policies'[p] = policies[p] /\ policyHistory'[p] = policyHistory[p]
  BY <1>1, <1>2, <1>4, <1>5 DEF PInv
<1>7. /\ \A d, rule, at : RuleIsSound(rule) /\ WasTested(d, rule, at)
                         => RuleIsSound(rule)' /\ WasTested(d, rule, at)'
      /\ \A rule : RuleIsSound(rule) => RuleIsSound(rule)' /\ ReceiverOf(rule)' = ReceiverOf(rule)
      /\ \A receipt \in receipts' : ReceiptIsSound(receipt)'
      /\ \A saved \in enabledRules' :
            RuleIsSound(saved.rule)' /\ WasTested(saved.by, saved.rule, saved.verified)'
  BY <1>2, <1>5, <1>6, ReceiversStay
<1>8. \A p, at, parent, receiver :
         UpdateIsSound(p, at, parent, receiver) => UpdateIsSound(p, at, parent, receiver)'
  BY <1>2, <1>4, <1>6 DEF UpdateIsSound
<1>9. \A d \in PolicyCallers : PolicyCallIsSound(d, policyCalls[d])'
  <2> SUFFICES ASSUME NEW d \in PolicyCallers PROVE PolicyCallIsSound(d, policyCalls[d])'
    OBVIOUS
  <2>1. CASE d = c
    BY <1>5, <2>1 DEF PInv, NoPolicyCall, PolicyCallIsSound
  <2>2. CASE d # c
    <3>1. policyCalls'[d] = policyCalls[d] /\ PolicyCallIsSound(d, policyCalls[d])
      BY <1>5, <2>2 DEF PInv
    <3> QED BY <1>7, <1>8, <3>1 DEF PolicyCallIsSound
  <2> QED BY <2>1, <2>2
<1>10. PolicyChangesAreLinear'
  BY <1>2, <1>4, <1>6 DEF PInv, PolicyChangesAreLinear
<1>11. \A p \in DOMAIN policies' : policies'[p].at \in policyHistory'[p].stamps
  BY <1>4, <1>6 DEF PInv
<1> QED BY <1>5, <1>6, <1>7, <1>9, <1>10, <1>11 DEF PInv

LEMMA UpdateCallsKeep ==
    ASSUME PInv, NEW c \in PolicyCallers,
           \/ \E wanted \in PolicyRequests : CreatePolicy(c, wanted) \/ UpdatePolicy(c, wanted)
           \/ \E id \in DOMAIN policies : UpdateReadsPolicy(c, id)
    PROVE  PInv'
<1>1. \A wanted \in PolicyRequests :
         Stamped(wanted) \in PolicyDocs /\ Stamped(wanted).receiver = wanted.receiver
  BY DEF PInv, Stamped, PolicyDocs
<1>2. ASSUME NEW wanted \in PolicyRequests, CreatePolicy(c, wanted)
      PROVE  PInv'
  <2>1. PICK call : call = [phase |-> "insert", policy |-> Stamped(wanted)]
    OBVIOUS
  <2>2. PolicyCallIsSound(c, call)
    BY <1>1, <2>1 DEF PolicyCallIsSound
  <2> QED BY <1>2, <2>1, <2>2, CallIsReplaced DEF CreatePolicy, PolicyStep
<1>3. ASSUME NEW id \in DOMAIN policies, UpdateReadsPolicy(c, id)
      PROVE  PInv'
  <2>1. PICK call : call = [phase |-> "read", id |-> id, current |-> policies[id],
                            parent |-> policyHistory[id].changes]
    OBVIOUS
  <2>2. UpdateIsSound(id, policies[id].at, policyHistory[id].changes, policies[id].receiver)
    BY DEF PInv, UpdateIsSound
  <2>3. PolicyCallIsSound(c, call)
    BY <2>1, <2>2 DEF PolicyCallIsSound
  <2> QED BY <1>3, <2>1, <2>3, CallIsReplaced DEF UpdateReadsPolicy, PolicyStep
<1>4. ASSUME NEW wanted \in PolicyRequests, UpdatePolicy(c, wanted)
      PROVE  PInv'
  <2>1. PICK read : read = policyCalls[c]
    OBVIOUS
  <2>2. PICK call : call = [phase |-> "replace", id |-> read.id, expected |-> read.current.at,
                            policy |-> Stamped(wanted), parent |-> read.parent]
    OBVIOUS
  <2>3. /\ UpdateIsSound(read.id, read.current.at, read.parent, read.current.receiver)
        /\ wanted.receiver = read.current.receiver
    BY <1>4, <2>1 DEF UpdatePolicy, AcceptsUpdate, PInv, PolicyCallIsSound
  <2>4. PolicyCallIsSound(c, call)
    BY <1>1, <2>2, <2>3 DEF PolicyCallIsSound
  <2> QED BY <1>4, <2>1, <2>2, <2>4, CallIsReplaced DEF UpdatePolicy, PolicyStep
<1> QED BY <1>2, <1>3, <1>4

LEMMA RuleCallsKeep ==
    ASSUME PInv, NEW c \in PolicyCallers,
           \/ \E rule \in RulesFor : TestReadsPolicy(c, rule) \/ EnableRule(c, rule)
           \/ IssueTestReceipt(c)
           \/ \E receipt \in receipts : VerifyTestReceipt(c, receipt)
           \/ SaveRule(c) \/ PolicyCallFails(c)
    PROVE  PInv'
<1>0. PolicyCallIsSound(c, NoPolicyCall)
  BY DEF NoPolicyCall, PolicyCallIsSound
<1>1. ASSUME NEW rule \in RulesFor, TestReadsPolicy(c, rule)
      PROVE  PInv'
  <2>1. PICK call : call = [phase |-> "test", rule |-> rule, receiver |-> ReceiverOf(rule)]
    OBVIOUS
  <2>2. PolicyCallIsSound(c, call)
    BY <2>1 DEF PolicyCallIsSound, RuleIsSound, RulesFor
  <2> QED BY <1>1, <2>1, <2>2, CallIsReplaced DEF TestReadsPolicy, PolicyStep
<1>2. ASSUME NEW rule \in RulesFor, EnableRule(c, rule)
      PROVE  PInv'
  <2>1. PICK call : call = [phase |-> "verify", rule |-> rule]
    OBVIOUS
  <2>2. PolicyCallIsSound(c, call)
    BY <2>1 DEF PolicyCallIsSound, RuleIsSound, RulesFor
  <2> QED BY <1>2, <2>1, <2>2, CallIsReplaced DEF EnableRule, PolicyStep
<1>3. CASE IssueTestReceipt(c)
  <2>1. PICK receipt : receipt = [by |-> c, rule |-> policyCalls[c].rule, tested |-> policyClock,
                                  receiver |-> policyCalls[c].receiver]
    OBVIOUS
  <2>2. /\ RuleIsSound(policyCalls[c].rule)
        /\ policyCalls[c].receiver = ReceiverOf(policyCalls[c].rule)
        /\ policyClock \in Nat
    BY <1>3 DEF IssueTestReceipt, PInv, PolicyCallIsSound
  <2>3. ReceiptIsSound(receipt)
    BY <2>1, <2>2 DEF ReceiptIsSound
  <2>4. /\ receipts' = receipts \cup {receipt}
        /\ policyCalls' = [policyCalls EXCEPT ![c] = NoPolicyCall]
        /\ UNCHANGED <<policyClock, policies, policyHistory, enabledRules>>
    BY <1>3, <2>1 DEF IssueTestReceipt, PolicyStep
  <2> QED BY <1>0, <2>3, <2>4, CallIsReplaced
<1>4. ASSUME NEW receipt \in receipts, VerifyTestReceipt(c, receipt)
      PROVE  PInv'
  <2>1. PICK rule : rule = policyCalls[c].rule
    OBVIOUS
  <2>2. PICK call : call = [phase |-> "rule", rule |-> rule, at |-> policyClock]
    OBVIOUS
  <2>3. RuleIsSound(rule) /\ ReceiptIsSound(receipt)
    BY <1>4, <2>1 DEF VerifyTestReceipt, PInv, PolicyCallIsSound
  <2>4. policyClock < receipt.tested + ReceiptTTL + Second
    <3>1. policyClock \in Nat
      BY DEF PInv
    <3>2. receipt.tested + ReceiptTTL \in Nat
      BY <2>3, ReceiptAssumption DEF ReceiptIsSound
    <3>3. (policyClock \div Second) <= ((receipt.tested + ReceiptTTL) \div Second)
      BY <1>4 DEF VerifyTestReceipt, Verify
    <3> QED BY <3>1, <3>2, <3>3, LessThanASecondMore
  <2>5. WasTested(c, rule, policyClock)
    BY <1>4, <2>1, <2>3, <2>4 DEF VerifyTestReceipt, Verify, WasTested, ReceiptIsSound
  <2>6. PolicyCallIsSound(c, call)
    BY <2>2, <2>3, <2>5 DEF PolicyCallIsSound
  <2> QED BY <1>4, <2>1, <2>2, <2>6, CallIsReplaced DEF VerifyTestReceipt, PolicyStep
<1>5. CASE SaveRule(c)
  <2>1. PICK saved : saved = [by |-> c, rule |-> policyCalls[c].rule,
                              verified |-> policyCalls[c].at]
    OBVIOUS
  <2>2. RuleIsSound(saved.rule) /\ WasTested(saved.by, saved.rule, saved.verified)
    BY <1>5, <2>1 DEF SaveRule, PInv, PolicyCallIsSound
  <2>3. /\ enabledRules' = enabledRules \cup {saved}
        /\ policyCalls' = [policyCalls EXCEPT ![c] = NoPolicyCall]
        /\ UNCHANGED <<policyClock, policies, policyHistory, receipts>>
    BY <1>5, <2>1 DEF SaveRule, PolicyStep
  <2> QED BY <1>0, <2>2, <2>3, CallIsReplaced
<1>6. CASE PolicyCallFails(c)
  BY <1>0, <1>6, CallIsReplaced DEF PolicyCallFails, PolicyStep
<1> QED BY <1>1, <1>2, <1>3, <1>4, <1>5, <1>6

LEMMA PInvNext == PInv /\ [PoliciesNext]_policyVars => PInv'
<1> SUFFICES ASSUME PInv, [PoliciesNext]_policyVars PROVE PInv'
  OBVIOUS
<1>1. CASE UNCHANGED policyVars
  <2> USE <1>1 DEF policyVars
  <2>1. \A c, rule, at : WasTested(c, rule, at) => WasTested(c, rule, at)'
    BY DEF WasTested, ReceiverOf
  <2>2. \A c \in PolicyCallers : PolicyCallIsSound(c, policyCalls[c])'
    BY <2>1 DEF PInv, PolicyCallIsSound, UpdateIsSound, RuleIsSound, ReceiverOf
  <2>3. \A receipt \in receipts' : ReceiptIsSound(receipt)'
    BY DEF PInv, ReceiptIsSound, RuleIsSound, ReceiverOf
  <2>4. \A saved \in enabledRules' :
           RuleIsSound(saved.rule)' /\ WasTested(saved.by, saved.rule, saved.verified)'
    BY <2>1 DEF PInv, RuleIsSound
  <2> QED BY <2>2, <2>3, <2>4 DEF PInv, PolicyChangesAreLinear
<1>2. CASE PolicyTick
  BY <1>2, TickKeeps
<1>3. ASSUME NEW c \in PolicyCallers, InsertPolicy(c) \/ SaveNotificationPolicy(c)
      PROVE  PInv'
  BY <1>3, InsertKeeps, SaveKeeps
<1> QED BY <1>1, <1>2, <1>3, UpdateCallsKeep, RuleCallsKeep DEF PoliciesNext

LEMMA PoliciesInvariance == PoliciesSpec => []PInv
<1> QED BY PInvInit, PInvNext, PTL DEF PoliciesSpec

\* However calls interleave, no change of a policy is made over one that its caller has not seen,
\* unless two changes of it were stamped with the same millisecond (PolicyChangesAreLinear).
THEOREM PolicyHistoryIsLinear == PoliciesSpec => []PolicyChangesAreLinear
<1>1. PInv => PolicyChangesAreLinear
  BY DEF PInv
<1> QED BY <1>1, PoliciesInvariance, PTL

\* Whatever happens to policies, whoever enabled a rule tested it as it is while the receipt was
\* good, and its alerts go where the test went (AlertsGoWhereTested).
THEOREM AlertsGoToTestedReceiver == PoliciesSpec => []AlertsGoWhereTested
<1>1. PInv => AlertsGoWhereTested
  BY DEF PInv, WasTested, AlertsGoWhereTested
<1> QED BY <1>1, PoliciesInvariance, PTL

\* Both together (PoliciesAreSound).
THEOREM PoliciesAreRight == PoliciesSpec => []PoliciesAreSound
<1>1. PolicyChangesAreLinear /\ AlertsGoWhereTested => PoliciesAreSound
  BY DEF PoliciesAreSound
<1> QED BY <1>1, PolicyHistoryIsLinear, AlertsGoToTestedReceiver, PTL

-------------------------------------------------------------------------------
(***************************************************************************)
(* Onboarding.  Saves and checks write a whole document back, so the       *)
(* document a call holds is judged like the stored one; and it names the   *)
(* identity that is stored, which nothing changes from then on.            *)
(***************************************************************************)
OnboardIDs == OnboardCallers \cup OnboardGroups \cup {Nothing}

OnboardDocs == [id : OnboardCallers, group : OnboardGroups, identity : OnboardIDs,
                status : {"pending_verification", "failed"},
                last : {"pending", "pending_verification", "failed"},
                evaluated : OnboardIDs, details : OnboardIDs]

OnboardDocIsRight(d) ==
    /\ d \in OnboardDocs
    /\ IF d.last = "pending"
       THEN d.evaluated = Nothing /\ d.status = "pending_verification"
       ELSE d.status = d.last /\ d.evaluated = d.group /\ d.details = d.group
    /\ d.identity = identity
    /\ identity # Nothing

OnboardCallIsRight(call) ==
    /\ call.phase \in {"idle", "save identity", "find", "save", "evaluate", "write"}
    /\ call.phase \in {"save identity", "find"} =>
           call \in [phase : {"save identity", "find"}, group : OnboardGroups,
                     identity : OnboardIDs \ {Nothing}]
    /\ call.phase = "find" => call.identity = identity
    /\ call.phase \in {"save", "evaluate", "write"} => OnboardDocIsRight(call.doc)

OnbInv ==
    /\ identity \in OnboardIDs
    /\ onboarding # Nothing => OnboardDocIsRight(onboarding)
    /\ DOMAIN onbCalls = OnboardCallers
    /\ \A c \in OnboardCallers : OnboardCallIsRight(onbCalls[c])

LEMMA OnbInvInit == OnboardingInit => OnbInv
<1>1. OnboardCallIsRight(IdleOnboard)
  BY DEF OnboardCallIsRight, IdleOnboard
<1> QED BY <1>1 DEF OnboardingInit, OnbInv, OnboardIDs

\* A step of one call, whose identity, if there is one, stays.
LEMMA OnboardMoveKeeps ==
    ASSUME OnbInv, NEW c \in OnboardCallers, NEW call, OnboardMoves(c, call),
           OnboardCallIsRight(call)',
           identity' \in OnboardIDs, identity # Nothing => identity' = identity,
           onboarding' = onboarding \/ OnboardDocIsRight(onboarding)'
    PROVE  OnbInv'
<1>1. ASSUME NEW d, OnboardDocIsRight(d), d' = d PROVE OnboardDocIsRight(d)'
  BY <1>1 DEF OnboardDocIsRight
<1>2. ASSUME NEW d \in OnboardCallers PROVE OnboardCallIsRight(onbCalls[d])'
  <2>1. CASE d = c
    BY <2>1 DEF OnbInv, OnboardMoves
  <2>2. CASE d # c
    <3>1. onbCalls'[d] = onbCalls[d] /\ OnboardCallIsRight(onbCalls[d])
      BY <2>2 DEF OnbInv, OnboardMoves
    <3>2. onbCalls[d].phase = "find" => identity # Nothing
      BY <3>1 DEF OnboardCallIsRight
    <3> QED BY <3>1, <3>2 DEF OnboardCallIsRight, OnboardDocIsRight
  <2> QED BY <2>1, <2>2
<1>3. (onboarding # Nothing)' => OnboardDocIsRight(onboarding)'
  <2>1. CASE onboarding' = onboarding
    BY <2>1 DEF OnbInv, OnboardDocIsRight
  <2> QED BY <2>1
<1> QED BY <1>2, <1>3 DEF OnbInv, OnboardMoves

\* Writing a document that is right.
LEMMA OnboardDocumentWritten ==
    ASSUME OnbInv, NEW c \in OnboardCallers, DocumentWritten(c),
           onbCalls[c].phase \in {"save", "write"}
    PROVE  OnbInv'
<1>1. OnboardDocIsRight(onbCalls[c].doc)
  BY DEF OnbInv, OnboardCallIsRight
<1>2. /\ onboarding' = onboarding \/ onboarding' = onbCalls[c].doc
      /\ OnboardMoves(c, IdleOnboard) /\ identity' = identity
  BY DEF DocumentWritten
<1>3. onboarding' = onboarding \/ OnboardDocIsRight(onboarding)'
  BY <1>1, <1>2 DEF OnboardDocIsRight
<1>4. OnboardCallIsRight(IdleOnboard)'
  BY DEF OnboardCallIsRight, IdleOnboard
<1> QED BY <1>2, <1>3, <1>4, OnboardMoveKeeps DEF OnbInv

LEMMA OnbInvNext == OnbInv /\ [OnboardingNext]_onboardVars => OnbInv'
<1> SUFFICES ASSUME OnbInv, [OnboardingNext]_onboardVars PROVE OnbInv'
  OBVIOUS
<1> USE DEF OnboardIDs
<1>1. ASSUME NEW g \in OnboardGroups, NEW to \in GroupStates, GroupChanges(g, to)
      PROVE  OnbInv'
  BY <1>1 DEF GroupChanges, OnbInv, OnboardCallIsRight, OnboardDocIsRight
<1>2. ASSUME NEW c \in OnboardCallers, NEW g \in OnboardGroups, UpsertReadsIdentity(c, g)
      PROVE  OnbInv'
  <2> DEFINE call == [phase |-> "save identity", group |-> g,
                      identity |-> IF identity = Nothing THEN c ELSE identity]
  <2>1. PICK i \in OnboardIDs \ {Nothing} : call = [phase |-> "save identity", group |-> g, identity |-> i]
    BY OnboardAssumption DEF OnbInv
  <2>2. OnboardCallIsRight([phase |-> "save identity", group |-> g, identity |-> i])'
    BY DEF OnboardCallIsRight
  <2> QED BY <1>2, <2>1, <2>2, OnboardMoveKeeps DEF UpsertReadsIdentity, OnbInv
<1>3. ASSUME NEW c \in OnboardCallers, UpsertIdentity(c)
      PROVE  OnbInv'
  <2>1. OnboardCallIsRight(onbCalls[c]) /\ onbCalls[c].phase = "save identity"
    BY <1>3 DEF OnbInv, UpsertIdentity
  <2>2. PICK q : q = onbCalls[c]
    OBVIOUS
  <2>3. q \in [phase : {"save identity", "find"}, group : OnboardGroups,
               identity : OnboardIDs \ {Nothing}]
    BY <2>1, <2>2 DEF OnboardCallIsRight
  <2>4. OnboardCallIsRight(IdleOnboard)'
    BY DEF OnboardCallIsRight, IdleOnboard
  <2>5. CASE Refused(identity, q.identity)
    BY <1>3, <2>2, <2>4, <2>5, OnboardMoveKeeps DEF UpsertIdentity, OnbInv
  <2>6. CASE ~ Refused(identity, q.identity)
    <3>1. /\ identity' = q.identity /\ onboarding' = onboarding
          /\ OnboardMoves(c, [q EXCEPT !.phase = "find"])
      BY <1>3, <2>2, <2>6 DEF UpsertIdentity
    <3>2. PICK call : call = [q EXCEPT !.phase = "find"]
      OBVIOUS
    <3>3. /\ call \in [phase : {"find"}, group : OnboardGroups, identity : OnboardIDs \ {Nothing}]
          /\ call.identity = q.identity
      BY <2>3, <3>2
    <3>4. OnboardCallIsRight(call)'
      BY <3>1, <3>3 DEF OnboardCallIsRight
    <3>5. identity' \in OnboardIDs /\ (identity # Nothing => identity' = identity)
      BY <2>3, <2>6, <3>1 DEF Refused
    <3> QED BY <3>1, <3>2, <3>4, <3>5, OnboardMoveKeeps
  <2> QED BY <2>5, <2>6
<1>4. ASSUME NEW c \in OnboardCallers, UpsertReads(c)
      PROVE  OnbInv'
  <2>1. OnboardCallIsRight(onbCalls[c]) /\ onbCalls[c].phase = "find"
    BY <1>4 DEF OnbInv, UpsertReads
  <2>2. PICK doc : doc = Bound(onbCalls[c], onboarding, c)
    OBVIOUS
  <2>3. /\ onbCalls[c].group \in OnboardGroups /\ onbCalls[c].identity = identity
        /\ identity \in OnboardIDs \ {Nothing}
    BY <2>1 DEF OnboardCallIsRight
  <2>4. onboarding # Nothing => onboarding \in OnboardDocs
    BY DEF OnbInv, OnboardDocIsRight
  <2>5. PICK id \in OnboardCallers, details \in OnboardIDs :
            doc = [id |-> id, group |-> onbCalls[c].group, identity |-> onbCalls[c].identity,
                   status |-> "pending_verification", last |-> "pending",
                   evaluated |-> Nothing, details |-> details]
    BY <2>2, <2>4 DEF Bound, OnboardDocs
  <2>6. OnboardDocIsRight(doc)
    BY <2>3, <2>5 DEF OnboardDocIsRight, OnboardDocs
  <2>7. OnboardMoves(c, [phase |-> "save", doc |-> doc]) /\ UNCHANGED <<identity, onboarding>>
    BY <1>4, <2>2 DEF UpsertReads
  <2>8. OnboardCallIsRight([phase |-> "save", doc |-> doc])'
    BY <2>6, <2>7 DEF OnboardCallIsRight, OnboardDocIsRight
  <2> QED BY <2>7, <2>8, OnboardMoveKeeps DEF OnbInv
<1>5. ASSUME NEW c \in OnboardCallers, CheckReads(c)
      PROVE  OnbInv'
  <2>1. OnboardCallIsRight([phase |-> "evaluate", doc |-> onboarding,
                            bound |-> identity # Nothing])'
    BY <1>5 DEF CheckReads, OnbInv, OnboardCallIsRight, OnboardDocIsRight
  <2> QED BY <1>5, <2>1, OnboardMoveKeeps DEF CheckReads, OnbInv
<1>6. ASSUME NEW c \in OnboardCallers, EvaluateChecklist(c)
      PROVE  OnbInv'
  <2>1. PICK doc, stage : doc = onbCalls[c].doc /\ stage = Result(onbCalls[c])
    OBVIOUS
  <2> DEFINE result == [doc EXCEPT !.status = stage, !.last = stage,
                                   !.evaluated = doc.group, !.details = doc.group]
  <2>2. OnboardDocIsRight(doc)
    BY <1>6, <2>1 DEF EvaluateChecklist, OnbInv, OnboardCallIsRight
  <2>3. stage \in {"pending_verification", "failed"}
    BY <2>1 DEF Result
  <2>4. OnboardMoves(c, [phase |-> "write", doc |-> result])
    BY <1>6, <2>1 DEF EvaluateChecklist
  <2>5. OnboardDocIsRight(result)
    BY <2>2, <2>3, OnboardAssumption DEF OnboardDocIsRight, OnboardDocs
  <2> HIDE DEF result
  <2>6. UNCHANGED <<identity, onboarding>>
    BY <1>6 DEF EvaluateChecklist
  <2>7. OnboardCallIsRight([phase |-> "write", doc |-> result])'
    BY <2>5, <2>6 DEF OnboardCallIsRight, OnboardDocIsRight
  <2> QED BY <2>4, <2>6, <2>7, OnboardMoveKeeps DEF OnbInv
<1>7. ASSUME NEW c \in OnboardCallers, UpsertWrites(c) \/ CheckWrites(c)
      PROVE  OnbInv'
  BY <1>7, OnboardDocumentWritten DEF UpsertWrites, CheckWrites
<1>8. ASSUME NEW c \in OnboardCallers, OnboardFails(c)
      PROVE  OnbInv'
  <2>1. OnboardCallIsRight(IdleOnboard)'
    BY DEF OnboardCallIsRight, IdleOnboard
  <2> QED BY <1>8, <2>1, OnboardMoveKeeps DEF OnbInv, OnboardFails
<1>9. CASE UNCHANGED onboardVars
  BY <1>9 DEF onboardVars, OnbInv, OnboardCallIsRight, OnboardDocIsRight
<1> QED BY <1>1, <1>2, <1>3, <1>4, <1>5, <1>6, <1>7, <1>8, <1>9 DEF OnboardingNext

\* Whatever saves and checks of onboarding.Service overlap, a binding shows the result of a check
\* only of the group it is bound to, item by item too, and names the identity that is stored.
THEOREM ResultsBelongToGroups == OnboardingSpec => []ResultBelongsToGroup
<1>1. OnbInv => ResultBelongsToGroup
  BY DEF OnbInv, OnboardDocIsRight, ResultBelongsToGroup
<1> QED BY OnbInvInit, OnbInvNext, <1>1, PTL DEF OnboardingSpec

-------------------------------------------------------------------------------
(****************************************************************************)
(* Access control.  While a deletion is alone nobody is about to grant what *)
(* it removes anything, and it knows every document that still names it.    *)
(****************************************************************************)
BoundScopes == ScopesByHand \cup UNION {GrantedScopes(req) : req \in GrantRequests}

Named == Subjects \cup RoleIDs

BindingDocs == [subject : Subjects, role : RoleIDs, scope : BoundScopes]

MemberDocs == [group : Groups, member : Users]

DeletionCalls ==
    [does : {"delete", "deleteEmptied"}, what : Named, alone : BOOLEAN,
     members : SUBSET MemberDocs, bindings : SUBSET BindingDocs]

JoinCalls == [does : {"join"}, touches : SUBSET Named, doc : MemberDocs]

BindCalls == [does : {"bind", "grantRole", "grant", "audit"}, touches : SUBSET Named, doc : BindingDocs]

AccessTypes ==
    /\ bindings \subseteq BindingDocs
    /\ members \subseteq MemberDocs
    /\ \A r \in roles : r.id \in RoleIDs
    /\ DOMAIN accessCalls = AccessCalls
    /\ \A c \in AccessCalls : accessCalls[c] \in {Idle} \cup DeletionCalls \cup JoinCalls \cup BindCalls

NamedBy(what, b) == b.subject = what \/ b.role = what

Unnamed(what) ==
    /\ \A b \in bindings : ~NamedBy(what, b)
    /\ \A m \in members : m.member # what /\ m.group # what

\* What a call will grant is for those it says it touches; a role of the access page has
\* its permissions for its ID.
GrantFits(call) ==
    /\ call \in JoinCalls => {call.doc.group, call.doc.member} \subseteq call.touches
    /\ call \in BindCalls => {call.doc.subject, call.doc.role} \subseteq call.touches
    /\ call \in BindCalls /\ call.does = "grantRole" => PageRole(call.doc.role.ids).id = call.doc.role

\* A deletion that is alone will drop whatever names what it removes.
DeletionFits(call) ==
    call \in DeletionCalls /\ call.alone =>
        /\ Alone(call.what)
        /\ \A b \in bindings : NamedBy(call.what, b) => b \in call.bindings
        /\ \A m \in members :
               /\ m.member = call.what => call.does = "delete" /\ m \in call.members
               /\ m.group = call.what /\ call.does = "deleteEmptied" => m \in call.members

AccessInv ==
    /\ AccessTypes
    /\ \A c \in AccessCalls : GrantFits(accessCalls[c]) /\ DeletionFits(accessCalls[c])
    /\ \A what \in removed : Unnamed(what) /\ Alone(what)

\* The kinds of calls exclude one another.
LEMMA CallKinds ==
    /\ \A call \in DeletionCalls : Deletes(call) /\ Touches(call) = {}
    /\ \A call \in JoinCalls : ~Deletes(call) /\ call.does = "join" /\ Touches(call) = call.touches
    /\ \A call \in BindCalls :
           ~Deletes(call) /\ call.does \notin {"join", "nothing"} /\ Touches(call) = call.touches
    /\ ~Deletes(Idle) /\ Touches(Idle) = {} /\ Idle.does = "nothing"
    /\ \A call \in DeletionCalls \cup JoinCalls \cup BindCalls : call.does # "nothing"
<1>1. \A call \in DeletionCalls : call.does \in {"delete", "deleteEmptied"}
  BY DEF DeletionCalls
<1>2. \A call \in JoinCalls : call.does = "join"
  BY DEF JoinCalls
<1>3. \A call \in BindCalls : call.does \in {"bind", "grantRole", "grant", "audit"}
  BY DEF BindCalls
<1>4. Idle.does = "nothing"
  BY DEF Idle
<1> QED BY <1>1, <1>2, <1>3, <1>4 DEF Deletes, Touches, Grants

LEMMA IdleFits == GrantFits(Idle) /\ DeletionFits(Idle)
<1>1. Idle \notin DeletionCalls \cup JoinCalls \cup BindCalls
  BY CallKinds
<1> QED BY <1>1 DEF GrantFits, DeletionFits

LEMMA AccessInvInit == AccessInit => AccessInv
<1> SUFFICES ASSUME AccessInit PROVE AccessInv
  OBVIOUS
<1>1. /\ roles = {} /\ bindings = {} /\ members = {} /\ removed = {}
      /\ accessCalls = [c \in AccessCalls |-> Idle]
  BY DEF AccessInit
<1> QED BY <1>1, IdleFits DEF AccessInv, AccessTypes

-------------------------------------------------------------------------------
\* A step that starts no grant: what is new is for those some call touched.
LEMMA AccessKeeps ==
    ASSUME AccessInv, AccessTypes', removed' = removed,
           \A b \in bindings' \ bindings :
               \E d \in AccessCalls : {b.subject, b.role} \subseteq Touches(accessCalls[d]),
           \A m \in members' \ members :
               \E d \in AccessCalls : {m.group, m.member} \subseteq Touches(accessCalls[d]),
           \A d \in AccessCalls : Touches(accessCalls'[d]) \subseteq Touches(accessCalls[d]),
           \A d \in AccessCalls :
               \/ accessCalls'[d] = accessCalls[d]
               \/ GrantFits(accessCalls'[d]) /\ DeletionFits(accessCalls[d])'
    PROVE  AccessInv'
<1>1. ASSUME NEW what, Alone(what) PROVE Alone(what)'
  BY <1>1 DEF Alone, Touches, Grants
<1>2. ASSUME NEW what, Alone(what)
      PROVE  /\ \A b \in bindings' : NamedBy(what, b) => b \in bindings
             /\ \A m \in members' : m.member = what \/ m.group = what => m \in members
  BY <1>2 DEF Alone, NamedBy
<1>3. ASSUME NEW d \in AccessCalls PROVE GrantFits(accessCalls[d])' /\ DeletionFits(accessCalls[d])'
  <2>1. CASE accessCalls'[d] = accessCalls[d]
    <3>1. GrantFits(accessCalls[d]) /\ DeletionFits(accessCalls[d])
      BY DEF AccessInv
    <3>2. GrantFits(accessCalls[d])'
      BY <2>1, <3>1 DEF GrantFits
    <3>3. DeletionFits(accessCalls[d])'
      <4>2. PICK q : q = accessCalls[d]
        OBVIOUS
      <4> SUFFICES ASSUME q \in DeletionCalls, q.alone
                   PROVE  /\ Alone(q.what)'
                          /\ \A b \in bindings' : NamedBy(q.what, b) => b \in q.bindings
                          /\ \A m \in members' :
                                 /\ m.member = q.what => q.does = "delete" /\ m \in q.members
                                 /\ m.group = q.what /\ q.does = "deleteEmptied" => m \in q.members
        BY <2>1, <4>2 DEF DeletionFits, NamedBy, Alone, Touches, Grants
      <4>1. /\ Alone(q.what)
            /\ \A b \in bindings : NamedBy(q.what, b) => b \in q.bindings
            /\ \A m \in members :
                   /\ m.member = q.what => q.does = "delete" /\ m \in q.members
                   /\ m.group = q.what /\ q.does = "deleteEmptied" => m \in q.members
        BY <3>1, <4>2 DEF DeletionFits
      <4> QED BY <1>1, <1>2, <4>1
    <3> QED BY <3>2, <3>3
  <2>2. CASE GrantFits(accessCalls'[d]) /\ DeletionFits(accessCalls[d])'
    BY <2>2 DEF GrantFits
  <2> QED BY <2>1, <2>2
<1>4. ASSUME NEW what \in removed PROVE Unnamed(what)' /\ Alone(what)'
  <2>1. Unnamed(what) /\ Alone(what)
    BY DEF AccessInv
  <2> QED BY <1>1, <1>2, <2>1 DEF Unnamed, NamedBy
<1> QED BY <1>3, <1>4 DEF AccessInv

\* Documents are removed, and calls stay or end.
LEMMA AccessShrinks ==
    ASSUME AccessInv, removed' = removed, bindings' \subseteq bindings, members' \subseteq members,
           \A r \in roles' : r.id \in RoleIDs, DOMAIN accessCalls' = AccessCalls,
           \A d \in AccessCalls : accessCalls'[d] \in {accessCalls[d], Idle}
    PROVE  AccessInv'
<1>1. AccessTypes'
  BY DEF AccessInv, AccessTypes
<1>2. ASSUME NEW d \in AccessCalls
      PROVE  /\ Touches(accessCalls'[d]) \subseteq Touches(accessCalls[d])
             /\ \/ accessCalls'[d] = accessCalls[d]
                \/ GrantFits(accessCalls'[d]) /\ DeletionFits(accessCalls[d])'
  <2>1. CASE accessCalls'[d] = accessCalls[d]
    BY <2>1
  <2>2. CASE accessCalls'[d] = Idle
    <3>1. Idle \notin DeletionCalls
      BY CallKinds
    <3> QED BY <2>2, <3>1, CallKinds, IdleFits DEF DeletionFits
  <2> QED BY <2>1, <2>2
<1> QED BY <1>1, <1>2, AccessKeeps

\* One call moves on.
LEMMA AccessCallKeeps ==
    ASSUME AccessInv, NEW c \in AccessCalls,
           NEW call \in {Idle} \cup DeletionCalls \cup JoinCalls \cup BindCalls,
           accessCalls' = [accessCalls EXCEPT ![c] = call], removed' = removed,
           \A r \in roles' : r.id \in RoleIDs,
           bindings' \subseteq BindingDocs, members' \subseteq MemberDocs,
           \A b \in bindings' \ bindings : {b.subject, b.role} \subseteq Touches(accessCalls[c]),
           \A m \in members' \ members : {m.group, m.member} \subseteq Touches(accessCalls[c]),
           Touches(call) \subseteq Touches(accessCalls[c]),
           GrantFits(call), DeletionFits(accessCalls[c])'
    PROVE  AccessInv'
<1>1. accessCalls'[c] = call /\ \A d \in AccessCalls \ {c} : accessCalls'[d] = accessCalls[d]
  BY DEF AccessInv, AccessTypes
<1>2. AccessTypes'
  BY <1>1 DEF AccessInv, AccessTypes
<1> QED BY <1>1, <1>2, AccessKeeps

-------------------------------------------------------------------------------
LEMMA AccessWritesKeep ==
    ASSUME AccessInv, NEW a \in Users, AccessWrites(a)
    PROVE  AccessInv'
<1>1. /\ UNCHANGED <<accessCalls, removed>> /\ bindings' \subseteq bindings /\ members' \subseteq members
      /\ roles' \subseteq roles \cup RolesByName
  BY DEF AccessWrites, CreateUser, CreateGroup, CreateRole, DeleteMembership, DeleteBinding,
         RevokeAccess
<1>2. \A r \in roles' : r.id \in RoleIDs
  BY <1>1 DEF AccessInv, AccessTypes, RoleIDs
<1>3. DOMAIN accessCalls' = AccessCalls
  BY <1>1 DEF AccessInv, AccessTypes
<1> QED BY <1>1, <1>2, <1>3, AccessShrinks

LEMMA RestartKeeps == AccessInv /\ Restart => AccessInv'
<1> SUFFICES ASSUME AccessInv, Restart PROVE AccessInv'
  OBVIOUS
<1>1. /\ removed' = removed /\ members' = members /\ bindings' \subseteq bindings
      /\ roles' \subseteq roles /\ accessCalls' = [c \in AccessCalls |-> Idle]
  BY DEF Restart
<1>2. \A r \in roles' : r.id \in RoleIDs
  BY <1>1 DEF AccessInv, AccessTypes
<1> QED BY <1>1, <1>2, AccessShrinks

\* Deletions begin with all that names the subject or the role.
LEMMA BeginDeletionKeeps ==
    ASSUME AccessInv, NEW c \in AccessCalls, NEW call \in DeletionCalls, Start(c, call),
           UNCHANGED <<roles, bindings, members, removed>>,
           call.does = "delete", call.alone = Alone(call.what),
           \A b \in bindings : NamedBy(call.what, b) => b \in call.bindings,
           \A m \in members : m.member = call.what => m \in call.members
    PROVE  AccessInv'
<1>1. accessCalls[c].does = "nothing" /\ accessCalls' = [accessCalls EXCEPT ![c] = call]
  BY DEF Start
<1>2. accessCalls[c] = Idle
  BY <1>1, CallKinds DEF AccessInv, AccessTypes
<1>3. Touches(call) = {} /\ Touches(accessCalls[c]) = {} /\ call \notin JoinCalls \cup BindCalls
  BY <1>2, CallKinds
<1>4. accessCalls'[c] = call /\ \A d \in AccessCalls \ {c} : accessCalls'[d] = accessCalls[d]
  BY <1>1 DEF AccessInv, AccessTypes
<1>5. Alone(call.what) => Alone(call.what)'
  BY <1>3, <1>4 DEF Alone, Touches, Grants
<1>6. DeletionFits(accessCalls[c])'
  BY <1>4, <1>5 DEF DeletionFits, NamedBy, Alone, Touches, Grants
<1>7. GrantFits(call)
  BY <1>3 DEF GrantFits
<1> QED BY <1>1, <1>3, <1>6, <1>7, AccessCallKeeps DEF AccessInv, AccessTypes

LEMMA DeleteSubjectKeeps ==
    ASSUME AccessInv, NEW c \in AccessCalls, NEW s \in Subjects,
           Start(c, deleteSubjectReferences(s)), UNCHANGED <<roles, bindings, members, removed>>
    PROVE  AccessInv'
<1> DEFINE call == deleteSubjectReferences(s)
<1>1. /\ call.does = "delete" /\ call.what = s /\ call.alone = Alone(s)
      /\ call.members = {m \in members : m.member = s}
      /\ call.bindings = {b \in bindings : b.subject = s}
  BY DEF deleteSubjectReferences
<1>2. call \in DeletionCalls
  BY DEF deleteSubjectReferences, DeletionCalls, AccessInv, AccessTypes, Named, Alone
<1>3. s \notin RoleIDs /\ \A b \in bindings : b.role \in RoleIDs
  BY AccessAssumption DEF AccessInv, AccessTypes, BindingDocs
<1> HIDE DEF call
<1> QED BY <1>1, <1>2, <1>3, BeginDeletionKeeps DEF NamedBy, call

LEMMA DeleteRoleKeeps ==
    ASSUME AccessInv, NEW c \in AccessCalls, NEW a, NEW r \in roles, DeleteRole(c, a, r.id)
    PROVE  AccessInv'
<1> DEFINE call == [does |-> "delete", what |-> r.id, alone |-> Alone(r.id),
                    members |-> {}, bindings |-> {b \in bindings : b.role = r.id}]
<1>1. Start(c, call) /\ UNCHANGED <<roles, bindings, members, removed>>
  BY DEF DeleteRole
<1>2. r.id \in RoleIDs /\ r.id \notin Subjects
  BY AccessAssumption DEF AccessInv, AccessTypes
<1>3. call \in DeletionCalls
  BY <1>2 DEF DeletionCalls, AccessInv, AccessTypes, Named, Alone
<1>4. \A b \in bindings : NamedBy(r.id, b) => b \in call.bindings
  BY <1>2 DEF NamedBy, AccessInv, AccessTypes, BindingDocs
<1>5. \A m \in members : m.member # r.id
  BY <1>2 DEF AccessInv, AccessTypes, MemberDocs, Subjects
<1>6. call.does = "delete" /\ call.alone = Alone(r.id) /\ call.what = r.id
  OBVIOUS
<1> HIDE DEF call
<1> QED BY <1>1, <1>3, <1>4, <1>5, <1>6, BeginDeletionKeeps

\* A grant begins: those it touches are not removed any more, and nobody deletes them alone.
LEMMA StartGrantKeeps ==
    ASSUME AccessInv, NEW c \in AccessCalls, NEW call \in JoinCalls \cup BindCalls,
           StartGrant(c, call), GrantFits(call), UNCHANGED <<roles, bindings, members>>
    PROVE  AccessInv'
<1> DEFINE Disturbed(d) == Deletes(accessCalls[d]) /\ accessCalls[d].what \in call.touches
<1>1. /\ accessCalls[c].does = "nothing" /\ removed' = removed \ call.touches
      /\ accessCalls' = [d \in AccessCalls |->
             IF d = c THEN call
             ELSE IF Disturbed(d) THEN [accessCalls[d] EXCEPT !.alone = FALSE]
             ELSE accessCalls[d]]
  BY DEF StartGrant
<1>2. Touches(call) = call.touches /\ ~Deletes(call) /\ call \notin DeletionCalls
  BY CallKinds
<1>3. ASSUME NEW d \in AccessCalls, d # c, Disturbed(d)
      PROVE  /\ accessCalls[d] \in DeletionCalls
             /\ accessCalls'[d] \in DeletionCalls /\ ~accessCalls'[d].alone
             /\ Touches(accessCalls'[d]) = {} /\ accessCalls'[d] \notin JoinCalls \cup BindCalls
  <2>1. accessCalls[d] \in DeletionCalls
    BY <1>3, CallKinds DEF AccessInv, AccessTypes
  <2>2. accessCalls'[d] = [accessCalls[d] EXCEPT !.alone = FALSE]
    BY <1>1, <1>3
  <2>3. accessCalls'[d] \in DeletionCalls /\ ~accessCalls'[d].alone
    BY <2>1, <2>2 DEF DeletionCalls
  <2> QED BY <2>1, <2>3, CallKinds
<1> HIDE DEF Disturbed
<1>4. AccessTypes'
  BY <1>1, <1>3 DEF AccessInv, AccessTypes
<1>5. \A d \in AccessCalls \ {c} :
         accessCalls'[d] = accessCalls[d] \/ (Disturbed(d) /\ Touches(accessCalls'[d]) = {})
  BY <1>1, <1>3
<1>6. accessCalls'[c] = call
  BY <1>1
<1>7. ASSUME NEW what, Alone(what), what \notin call.touches PROVE Alone(what)'
  <2>1. \A d \in AccessCalls : what \notin Touches(accessCalls'[d])
    BY <1>2, <1>5, <1>6, <1>7 DEF Alone
  <2> QED BY <2>1 DEF Alone, Touches, Grants
<1>8. ASSUME NEW d \in AccessCalls PROVE GrantFits(accessCalls[d])' /\ DeletionFits(accessCalls[d])'
  <2>1. CASE d = c
    BY <1>2, <1>6, <2>1 DEF GrantFits, DeletionFits
  <2>2. CASE d # c /\ Disturbed(d)
    BY <1>3, <2>2 DEF GrantFits, DeletionFits
  <2>3. CASE d # c /\ ~Disturbed(d)
    <3>1. /\ accessCalls'[d] = accessCalls[d]
          /\ GrantFits(accessCalls[d]) /\ DeletionFits(accessCalls[d])
      BY <1>1, <2>3 DEF AccessInv
    <3>2. accessCalls[d] \in DeletionCalls => accessCalls[d].what \notin call.touches
      BY <2>3, CallKinds DEF Disturbed
    <3>3. GrantFits(accessCalls[d])'
      BY <3>1 DEF GrantFits
    <3>4. accessCalls[d] \in DeletionCalls /\ Alone(accessCalls[d].what) => Alone(accessCalls[d].what)'
      BY <1>7, <3>1, <3>2 DEF Alone, Touches, Grants
    <3> QED BY <3>1, <3>3, <3>4 DEF DeletionFits, NamedBy, Alone, Touches, Grants
  <2> QED BY <2>1, <2>2, <2>3
<1>9. ASSUME NEW what \in removed' PROVE Unnamed(what)' /\ Alone(what)'
  <2>1. Unnamed(what) /\ Alone(what) /\ what \notin call.touches
    BY <1>1 DEF AccessInv
  <2> QED BY <1>7, <2>1 DEF Unnamed, NamedBy
<1> QED BY <1>4, <1>8, <1>9 DEF AccessInv

LEMMA AccessRequestsKeep ==
    ASSUME AccessInv, NEW c \in AccessCalls, NEW a \in Users, AccessRequests(c, a)
    PROVE  AccessInv'
<1>1. ASSUME NEW u \in Users \ Super, DeleteUser(c, a, u) PROVE AccessInv'
  BY <1>1, DeleteSubjectKeeps DEF DeleteUser, Subjects
<1>2. ASSUME NEW g \in Groups, DeleteGroup(c, a, g) PROVE AccessInv'
  BY <1>2, DeleteSubjectKeeps DEF DeleteGroup, Subjects
<1>3. ASSUME NEW r \in roles, DeleteRole(c, a, r.id) PROVE AccessInv'
  BY <1>3, DeleteRoleKeeps
<1>4. ASSUME NEW g \in Groups, NEW u \in Users \ Super, CreateMembership(c, a, g, u) PROVE AccessInv'
  <2> DEFINE call == [does |-> "join", touches |-> {g, u}, doc |-> [group |-> g, member |-> u]]
  <2>1. call \in JoinCalls /\ call.touches = {g, u} /\ call.doc.group = g /\ call.doc.member = u
    BY DEF JoinCalls, Named, Subjects, MemberDocs
  <2>2. StartGrant(c, call) /\ UNCHANGED <<roles, bindings, members>>
    BY <1>4 DEF CreateMembership
  <2> HIDE DEF call
  <2>3. GrantFits(call)
    BY <2>1, CallKinds DEF GrantFits
  <2> QED BY <2>1, <2>2, <2>3, StartGrantKeeps
<1>5. ASSUME NEW s \in Subjects, NEW id \in RoleIDs, NEW scope \in BoundScopes,
             NEW does \in {"bind", "grantRole"},
             does = "grantRole" => PageRole(id.ids).id = id,
             StartGrant(c, [does |-> does, touches |-> {s, id},
                            doc |-> [subject |-> s, role |-> id, scope |-> scope]]),
             UNCHANGED <<roles, bindings, members>>
      PROVE  AccessInv'
  <2> DEFINE call == [does |-> does, touches |-> {s, id},
                      doc |-> [subject |-> s, role |-> id, scope |-> scope]]
  <2>1. call \in BindCalls /\ call.touches = {s, id} /\ call.doc.subject = s /\ call.doc.role = id
        /\ call.does = does
    BY DEF BindCalls, Named, BindingDocs
  <2> HIDE DEF call
  <2>2. GrantFits(call)
    BY <1>5, <2>1, CallKinds DEF GrantFits
  <2> QED BY <1>5, <2>1, <2>2, StartGrantKeeps DEF call
<1>6. ASSUME NEW s \in Subjects, NEW r \in roles, NEW scope \in ScopesByHand,
             CreateBinding(c, a, s, r.id, scope)
      PROVE  AccessInv'
  <2>1. r.id \in RoleIDs /\ scope \in BoundScopes
    BY DEF AccessInv, AccessTypes, BoundScopes
  <2> QED BY <1>5, <1>6, <2>1 DEF CreateBinding
<1>7. ASSUME NEW s \in Subjects, NEW req \in GrantRequests, GrantAccess(c, a, s, req)
      PROVE  AccessInv'
  <2>1. PICK scope \in GrantedScopes(req) :
           StartGrant(c, [does |-> "grantRole", touches |-> {s, PageRole(req.ids).id},
                          doc |-> [subject |-> s, role |-> PageRole(req.ids).id, scope |-> scope]])
    BY <1>7 DEF GrantAccess
  <2>2. PageRole(req.ids).id \in RoleIDs /\ scope \in BoundScopes
    BY DEF RoleIDs, BoundScopes
  <2>3. PageRole(PageRole(req.ids).id.ids).id = PageRole(req.ids).id
    BY DEF PageRole
  <2> HIDE DEF PageRole
  <2> QED BY <1>5, <1>7, <2>1, <2>2, <2>3 DEF GrantAccess
<1> QED BY <1>1, <1>2, <1>3, <1>4, <1>6, <1>7 DEF AccessRequests

-------------------------------------------------------------------------------
\* The steps of calls

\* What a call drops named what it removes, or does not matter any more.
LEMMA DropsKeep ==
    ASSUME AccessInv, NEW c \in AccessCalls,
           \/ \E m \in Pending(c).members : DropMember(c, m)
           \/ \E b \in Pending(c).bindings : DropBinding(c, b)
    PROVE  AccessInv'
<1>13. PICK q : q = accessCalls[c]
  OBVIOUS
<1>1. q \in DeletionCalls
  <2>1. Deletes(q)
    BY <1>13 DEF Pending
  <2> QED BY <1>13, <2>1, CallKinds DEF AccessInv, AccessTypes
<1>2. DeletionFits(q)
  BY <1>13 DEF AccessInv
<1>3. PICK gone, dropped :
         /\ members' = members \ gone /\ bindings' = bindings \ dropped
         /\ \/ accessCalls' = [accessCalls EXCEPT ![c].members = @ \ gone] /\ dropped = {}
            \/ accessCalls' = [accessCalls EXCEPT ![c].bindings = @ \ dropped] /\ gone = {}
         /\ UNCHANGED <<roles, removed>>
  <2>1. ASSUME NEW m, DropMember(c, m)
        PROVE  /\ members' = members \ {m} /\ bindings' = bindings \ {}
               /\ accessCalls' = [accessCalls EXCEPT ![c].members = @ \ {m}]
               /\ UNCHANGED <<roles, removed>>
    BY <2>1 DEF DropMember
  <2>2. ASSUME NEW b, DropBinding(c, b)
        PROVE  /\ bindings' = bindings \ {b} /\ members' = members \ {}
               /\ accessCalls' = [accessCalls EXCEPT ![c].bindings = @ \ {b}]
               /\ UNCHANGED <<roles, removed>>
    BY <2>2 DEF DropBinding
  <2> QED BY <2>1, <2>2
<1>4. PICK call : /\ accessCalls' = [accessCalls EXCEPT ![c] = call]
                  /\ \/ call = [q EXCEPT !.members = @ \ gone] /\ dropped = {}
                     \/ call = [q EXCEPT !.bindings = @ \ dropped] /\ gone = {}
  BY <1>3, <1>13
<1>5. /\ call \in DeletionCalls /\ call.does = q.does /\ call.what = q.what /\ call.alone = q.alone
      /\ call.members = q.members \ gone /\ call.bindings = q.bindings \ dropped
  BY <1>1, <1>4 DEF DeletionCalls
<1>6. /\ Touches(call) = {} /\ Touches(q) = {} /\ GrantFits(call)
  BY <1>1, <1>5, CallKinds DEF GrantFits
<1>7. accessCalls'[c] = call /\ \A d \in AccessCalls \ {c} : accessCalls'[d] = accessCalls[d]
  BY <1>4 DEF AccessInv, AccessTypes
<1>8. Alone(q.what) => Alone(q.what)'
  BY <1>6, <1>7, <1>13 DEF Alone, Touches, Grants
<1>9. DeletionFits(accessCalls[c])'
  <2> SUFFICES ASSUME call.alone
               PROVE  /\ Alone(call.what)'
                      /\ \A b \in bindings' : NamedBy(call.what, b) => b \in call.bindings
                      /\ \A m \in members' :
                             /\ m.member = call.what => call.does = "delete" /\ m \in call.members
                             /\ m.group = call.what /\ call.does = "deleteEmptied" => m \in call.members
    BY <1>7 DEF DeletionFits, NamedBy, Alone, Touches, Grants
  <2>1. /\ Alone(q.what)
        /\ \A b \in bindings : NamedBy(q.what, b) => b \in q.bindings
        /\ \A m \in members :
               /\ m.member = q.what => q.does = "delete" /\ m \in q.members
               /\ m.group = q.what /\ q.does = "deleteEmptied" => m \in q.members
    BY <1>1, <1>2, <1>5 DEF DeletionFits
  <2> QED BY <1>3, <1>5, <1>8, <2>1
<1>10. /\ \A r \in roles' : r.id \in RoleIDs
       /\ bindings' \subseteq BindingDocs /\ members' \subseteq MemberDocs
  BY <1>3 DEF AccessInv, AccessTypes
<1>11. bindings' \ bindings = {} /\ members' \ members = {}
  BY <1>3
<1>12. Touches(call) \subseteq Touches(accessCalls[c])
  BY <1>6, <1>13
<1> QED BY <1>3, <1>4, <1>5, <1>6, <1>9, <1>10, <1>11, <1>12, AccessCallKeeps

LEMMA ListMembersKeeps ==
    ASSUME AccessInv, NEW c \in AccessCalls, ListMembershipsByGroup(c)
    PROVE  AccessInv'
<1>13. PICK q : q = accessCalls[c]
  OBVIOUS
<1>1. q \in DeletionCalls
  <2>1. Deletes(q)
    BY <1>13 DEF ListMembershipsByGroup, Unreferenced
  <2> QED BY <1>13, <2>1, CallKinds DEF AccessInv, AccessTypes
<1>2. DeletionFits(q)
  BY <1>13 DEF AccessInv
<1>3. /\ q.members = {} /\ q.bindings = {} /\ q.does = "delete"
      /\ UNCHANGED <<roles, bindings, members, removed>>
      /\ accessCalls' = [accessCalls EXCEPT ![c].does = "deleteEmptied",
                             ![c].members = {m \in members : m.group = q.what}]
  BY <1>13 DEF ListMembershipsByGroup, Unreferenced, Pending
<1>4. PICK call : /\ accessCalls' = [accessCalls EXCEPT ![c] = call]
                  /\ call = [q EXCEPT !.does = "deleteEmptied",
                                      !.members = {m \in members : m.group = q.what}]
  BY <1>3, <1>13 DEF AccessInv, AccessTypes
<1>5. /\ call \in DeletionCalls /\ call.does = "deleteEmptied" /\ call.what = q.what
      /\ call.alone = q.alone
      /\ call.members = {m \in members : m.group = q.what} /\ call.bindings = {}
  BY <1>1, <1>3, <1>4 DEF DeletionCalls, AccessInv, AccessTypes
<1>6. /\ Touches(call) = {} /\ Touches(q) = {} /\ GrantFits(call)
  BY <1>1, <1>5, CallKinds DEF GrantFits
<1>7. accessCalls'[c] = call /\ \A d \in AccessCalls \ {c} : accessCalls'[d] = accessCalls[d]
  BY <1>4 DEF AccessInv, AccessTypes
<1>8. Alone(q.what) => Alone(q.what)'
  BY <1>6, <1>7, <1>13 DEF Alone, Touches, Grants
<1>9. DeletionFits(accessCalls[c])'
  <2> SUFFICES ASSUME call.alone
               PROVE  /\ Alone(call.what)'
                      /\ \A b \in bindings' : NamedBy(call.what, b) => b \in call.bindings
                      /\ \A m \in members' :
                             /\ m.member = call.what => call.does = "delete" /\ m \in call.members
                             /\ m.group = call.what /\ call.does = "deleteEmptied" => m \in call.members
    BY <1>7 DEF DeletionFits, NamedBy, Alone, Touches, Grants
  <2>1. /\ Alone(q.what)
        /\ \A b \in bindings : NamedBy(q.what, b) => b \in q.bindings
        /\ \A m \in members : m.member = q.what => m \in q.members
    BY <1>1, <1>2, <1>5 DEF DeletionFits
  <2> QED BY <1>3, <1>5, <1>8, <2>1
<1>10. /\ \A r \in roles' : r.id \in RoleIDs
       /\ bindings' \subseteq BindingDocs /\ members' \subseteq MemberDocs
  BY <1>3 DEF AccessInv, AccessTypes
<1>11. bindings' \ bindings = {} /\ members' \ members = {}
  BY <1>3
<1>12. Touches(call) \subseteq Touches(accessCalls[c])
  BY <1>6, <1>13
<1> QED BY <1>3, <1>4, <1>5, <1>6, <1>9, <1>10, <1>11, <1>12, AccessCallKeeps

\* Nothing names what was removed by a deletion that was alone.
LEMMA DropDocumentKeeps ==
    ASSUME AccessInv, NEW c \in AccessCalls, DropDocument(c)
    PROVE  AccessInv'
<1> DEFINE q == accessCalls[c]
<1>1. q \in DeletionCalls
  <2>1. Deletes(q)
    BY DEF DropDocument, Unreferenced
  <2> QED BY <2>1, CallKinds DEF AccessInv, AccessTypes
<1>2. /\ q.members = {} /\ q.bindings = {} /\ (q.what \in Groups => q.does = "deleteEmptied")
      /\ UNCHANGED <<bindings, members>> /\ roles' \subseteq roles
      /\ removed' = IF q.alone THEN removed \cup {q.what} ELSE removed
      /\ accessCalls' = [accessCalls EXCEPT ![c] = Idle]
  BY DEF DropDocument, Unreferenced, Pending, End
<1>3. q.alone => Unnamed(q.what) /\ Alone(q.what)
  <2> SUFFICES ASSUME q.alone PROVE Unnamed(q.what) /\ Alone(q.what)
    OBVIOUS
  <2>1. /\ Alone(q.what)
        /\ \A b \in bindings : NamedBy(q.what, b) => b \in q.bindings
        /\ \A m \in members :
               /\ m.member = q.what => m \in q.members
               /\ m.group = q.what /\ q.does = "deleteEmptied" => m \in q.members
    BY <1>1 DEF AccessInv, DeletionFits
  <2>2. \A m \in members : m.group \in Groups
    BY DEF AccessInv, AccessTypes, MemberDocs
  <2> HIDE DEF q
  <2> QED BY <1>2, <2>1, <2>2 DEF Unnamed
<1>4. accessCalls'[c] = Idle /\ \A d \in AccessCalls \ {c} : accessCalls'[d] = accessCalls[d]
  BY <1>2 DEF AccessInv, AccessTypes
<1> HIDE DEF q
<1>5. AccessTypes'
  BY <1>2, <1>4 DEF AccessInv, AccessTypes
<1>6. ASSUME NEW what, Alone(what) PROVE Alone(what)'
  BY <1>4, <1>6, CallKinds DEF Alone, Touches, Grants
<1>7. ASSUME NEW d \in AccessCalls PROVE GrantFits(accessCalls[d])' /\ DeletionFits(accessCalls[d])'
  <2>1. CASE d = c
    <3>1. Idle \notin DeletionCalls \cup JoinCalls \cup BindCalls
      BY CallKinds
    <3> QED BY <1>4, <2>1, <3>1 DEF GrantFits, DeletionFits
  <2>2. CASE d # c
    <3>1. /\ accessCalls'[d] = accessCalls[d]
          /\ GrantFits(accessCalls[d]) /\ DeletionFits(accessCalls[d])
      BY <1>4, <2>2 DEF AccessInv
    <3>2. Alone(accessCalls[d].what) => Alone(accessCalls[d].what)'
      BY <1>6, <3>1 DEF Alone, Touches, Grants
    <3> QED BY <1>2, <3>1, <3>2 DEF GrantFits, DeletionFits, NamedBy, Alone, Touches, Grants
  <2> QED BY <2>1, <2>2
<1>8. ASSUME NEW what \in removed' PROVE Unnamed(what)' /\ Alone(what)'
  <2>1. Unnamed(what) /\ Alone(what)
    BY <1>2, <1>3 DEF AccessInv
  <2> QED BY <1>2, <1>6, <2>1 DEF Unnamed, NamedBy
<1> QED BY <1>5, <1>7, <1>8 DEF AccessInv

\* A grant is saved: for those the call touches.
LEMMA SaveGrantKeeps ==
    ASSUME AccessInv, NEW c \in AccessCalls,
           \/ SaveMembership(c) \/ SaveBinding(c) \/ SaveGrantedRole(c)
           \/ \E audited, takenBack \in BOOLEAN : AuditGrant(c, audited, takenBack)
    PROVE  AccessInv'
<1>11. PICK q : q = accessCalls[c]
  OBVIOUS
<1>1. PICK call :
         /\ accessCalls' = [accessCalls EXCEPT ![c] = call]
         /\ \/ call = Idle
            \/ \E does \in {"grant", "audit"} :
                   q.does \in {"grant", "grantRole"} /\ call = [q EXCEPT !.does = does]
  BY <1>11 DEF SaveMembership, SaveBinding, SaveGrantedRole, AuditGrant, End
<1>2. /\ q \in {Idle} \cup DeletionCalls \cup JoinCalls \cup BindCalls /\ GrantFits(q)
      /\ removed' = removed
  BY <1>11 DEF AccessInv, AccessTypes, SaveMembership, SaveBinding, SaveGrantedRole, AuditGrant
<1>3. /\ q.does = "join" => q \in JoinCalls
      /\ q.does \in {"bind", "grantRole", "grant", "audit"} => q \in BindCalls
  <2>1. \A d \in DeletionCalls : d.does \in {"delete", "deleteEmptied"}
    BY DEF DeletionCalls
  <2> QED BY <1>2, <2>1, CallKinds
<1>4. /\ roles' \subseteq roles \cup {PageRole(q.doc.role.ids)}
      /\ q.does # "grantRole" => roles' = roles
      /\ bindings' \subseteq bindings \/ (q \in BindCalls /\ bindings' \subseteq bindings \cup {q.doc})
      /\ members' \subseteq members \/ (q \in JoinCalls /\ members' \subseteq members \cup {q.doc})
      /\ q.does \in {"join", "bind", "grantRole", "grant", "audit"}
  BY <1>3, <1>11 DEF SaveMembership, SaveBinding, SaveGrantedRole, AuditGrant
<1>5. /\ call \in {Idle} \cup BindCalls /\ Touches(call) \subseteq Touches(q)
      /\ GrantFits(call) /\ call \notin DeletionCalls
  <2>1. CASE call = Idle
    BY <2>1, CallKinds, IdleFits
  <2>2. CASE \E does \in {"grant", "audit"} :
                q.does \in {"grant", "grantRole"} /\ call = [q EXCEPT !.does = does]
    <3>1. PICK does \in {"grant", "audit"} : q \in BindCalls /\ call = [q EXCEPT !.does = does]
      BY <1>3, <2>2
    <3>2. /\ call \in BindCalls /\ call.touches = q.touches /\ call.doc = q.doc
          /\ call.does \in {"grant", "audit"}
      BY <3>1 DEF BindCalls
    <3>3. call \notin DeletionCalls \cup JoinCalls /\ Touches(call) = Touches(q)
      BY <3>1, <3>2, CallKinds
    <3> QED BY <1>2, <3>1, <3>2, <3>3 DEF GrantFits
  <2> QED BY <1>1, <2>1, <2>2
<1>6. /\ q \in JoinCalls => /\ q.doc \in MemberDocs
                            /\ {q.doc.group, q.doc.member} \subseteq Touches(q)
      /\ q \in BindCalls => /\ q.doc \in BindingDocs
                            /\ {q.doc.subject, q.doc.role} \subseteq Touches(q)
                            /\ q.does = "grantRole" => PageRole(q.doc.role.ids).id = q.doc.role
  BY <1>2, CallKinds DEF GrantFits, JoinCalls, BindCalls
<1>7. \A r \in roles' : r.id \in RoleIDs
  <2>1. \A r \in roles : r.id \in RoleIDs
    BY DEF AccessInv, AccessTypes
  <2>2. q.does = "grantRole" => PageRole(q.doc.role.ids).id \in RoleIDs
    BY <1>3, <1>6 DEF BindingDocs
  <2> HIDE DEF PageRole
  <2> QED BY <1>4, <2>1, <2>2
<1>8. bindings' \subseteq BindingDocs /\ members' \subseteq MemberDocs
  BY <1>4, <1>6 DEF AccessInv, AccessTypes
<1>9. /\ \A b \in bindings' \ bindings : {b.subject, b.role} \subseteq Touches(q)
      /\ \A m \in members' \ members : {m.group, m.member} \subseteq Touches(q)
  BY <1>4, <1>6
<1>10. DeletionFits(accessCalls[c])'
  <2>1. accessCalls'[c] = call
    BY <1>1 DEF AccessInv, AccessTypes
  <2> QED BY <1>5, <2>1 DEF DeletionFits
<1> QED BY <1>1, <1>2, <1>5, <1>7, <1>8, <1>9, <1>10, <1>11, AccessCallKeeps

LEMMA AccessFailKeeps ==
    ASSUME AccessInv, NEW c \in AccessCalls, Fail(c)
    PROVE  AccessInv'
<1>1. /\ UNCHANGED <<roles, bindings, members, removed>>
      /\ accessCalls' = [accessCalls EXCEPT ![c] = Idle]
  BY DEF Fail, End
<1>2. (\A r \in roles' : r.id \in RoleIDs) /\ DOMAIN accessCalls' = AccessCalls
  BY <1>1 DEF AccessInv, AccessTypes
<1>3. \A d \in AccessCalls : accessCalls'[d] \in {accessCalls[d], Idle}
  BY <1>1 DEF AccessInv, AccessTypes
<1> QED BY <1>1, <1>2, <1>3, AccessShrinks

LEMMA AccessInvNext == AccessInv /\ [AccessNext]_accessVars => AccessInv'
<1> SUFFICES ASSUME AccessInv, [AccessNext]_accessVars PROVE AccessInv'
  OBVIOUS
<1>1. CASE UNCHANGED accessVars
  <2>1. UNCHANGED <<roles, bindings, members, accessCalls, removed>>
    BY <1>1 DEF accessVars
  <2>2. (\A r \in roles' : r.id \in RoleIDs) /\ DOMAIN accessCalls' = AccessCalls
    BY <2>1 DEF AccessInv, AccessTypes
  <2> QED BY <2>1, <2>2, AccessShrinks
<1>2. CASE AccessNext
  <2>1. ASSUME NEW c \in AccessCalls, AccessSteps(c) PROVE AccessInv'
    BY <2>1, DropsKeep, ListMembersKeeps, DropDocumentKeeps, SaveGrantKeeps, AccessFailKeeps
       DEF AccessSteps
  <2> QED BY <1>2, <2>1, AccessWritesKeep, AccessRequestsKeep, RestartKeeps DEF AccessNext
<1> QED BY <1>1, <1>2

\* Whatever deletions, grants, failures and restarts interleave, what is created under the name
\* of a subject or a role that was removed while nobody granted it anything starts without
\* bindings and memberships (platform/iam, k8sops/platformaccess).
THEOREM NamesakesStartFresh == AccessSpec => []NothingIsInherited
<1>1. AccessInv => NothingIsInherited
  BY DEF AccessInv, Unnamed, NamedBy, NothingIsInherited, NamesakeStartsWithNothing, RoleStartsUnbound
<1> QED BY AccessInvInit, AccessInvNext, <1>1, PTL DEF AccessSpec

-------------------------------------------------------------------------------
(***************************************************************************)
(* Metrics sources.  A call that met nobody else knows what is left to do: *)
(* the sources it keeps and those it has still to create are the resources *)
(* that are bound.  The ID of an integration belongs to one environment.   *)
(***************************************************************************)
IntegrationIDs == Nat \ {0}

SourceDocs == [id : Nat, integration : IntegrationIDs, binding : Nat]

IntPhases == {"insert", "list", "sources", "taking back", "drop", "compare", "log"}

IntCallDocs ==
    [phase : IntPhases, does : {"create", "reconcile", "log"}, env : Envs, id : Nat,
     gone : SUBSET Nat, todo : SUBSET Nat, disturbed : BOOLEAN]

MetricsTypes ==
    /\ \A b \in resourceBindings : b.id \in IntegrationIDs
    /\ integrations \in [Envs -> IntegrationIDs \cup {NoIntegration}]
    /\ settled \in [Envs -> Nat]
    /\ sources \subseteq SourceDocs
    /\ DOMAIN intCalls = EnvCallers
    /\ \A c \in Active : intCalls[c] \in IntCallDocs

BoundIDs(e) == {b.id : b \in ListResourceBindings(e)}

Sourced(id, n) == \E s \in sources : s.integration = id /\ s.binding = n

RefersTo(e, id) ==
    \/ integrations[e] = id
    \/ settled[e] = id
    \/ \E c \in Active : intCalls[c].env = e /\ intCalls[c].id = id

SourceIDsUnique == \A s, t \in sources : s.id = t.id => s = t

IntegrationsOwned ==
    \A id \in IntegrationIDs : \A e, f \in Envs : RefersTo(e, id) /\ RefersTo(f, id) => e = f

IntCallFits(call) ==
    /\ IF call.phase = "insert" THEN call.gone = {} ELSE call.id \in IntegrationIDs
    /\ \A s \in sources : s.id \in call.gone => s.integration = call.id
    /\ ~call.disturbed /\ call.phase = "list" =>
           /\ integrations[call.env] = call.id
           /\ \A s \in sources : s.integration # call.id
    /\ ~call.disturbed /\ call.phase = "compare" =>
           integrations[call.env] = call.id /\ call.todo = BoundIDs(call.env)
    /\ ~call.disturbed /\ call.phase = "sources" =>
           /\ integrations[call.env] = call.id
           /\ \A n : n # 0 =>
                  (n \in BoundIDs(call.env) <=>
                       \/ n \in call.todo
                       \/ \E s \in sources : s.integration = call.id /\ s.binding = n /\ s.id \notin call.gone)
    /\ ~call.disturbed /\ call.phase = "drop" =>
           \A s \in sources : s.integration = call.id => s.id \in call.gone

FollowsBindings(e) ==
    settled[e] # 0 =>
        \A n : n # 0 =>
            (Sourced(settled[e], n) <=> integrations[e] = settled[e] /\ n \in BoundIDs(e))

MetricsInv ==
    /\ MetricsTypes
    /\ SourceIDsUnique
    /\ IntegrationsOwned
    /\ \A c \in Active : IntCallFits(intCalls[c])
    /\ \A e \in Envs : FollowsBindings(e)

LEMMA IdleIntCall == IdleCall.phase = "idle"
BY DEF IdleCall

LEMMA MetricsInvInit == MetricsInit => MetricsInv
<1> SUFFICES ASSUME MetricsInit PROVE MetricsInv
  OBVIOUS
<1>1. /\ resourceBindings = {} /\ sources = {}
      /\ integrations = [e \in Envs |-> NoIntegration] /\ settled = [e \in Envs |-> 0]
      /\ intCalls = [c \in EnvCallers |-> IdleCall]
  BY DEF MetricsInit, EnvironmentsInit
<1>2. Active = {}
  BY <1>1, IdleIntCall DEF Active
<1>3. MetricsTypes
  BY <1>1, <1>2 DEF MetricsTypes
<1>4. IntegrationsOwned
  BY <1>1, <1>2, MetricsAssumption DEF IntegrationsOwned, RefersTo, IntegrationIDs
<1> QED BY <1>1, <1>2, <1>3, <1>4 DEF MetricsInv, SourceIDsUnique, FollowsBindings

-------------------------------------------------------------------------------
\* A new ID is one that nobody uses.
LEMMA FreshIsNew ==
    ASSUME NEW used, NEW max \in Nat, NEW n \in Fresh(used, max)
    PROVE  n \in IntegrationIDs /\ n \notin used
BY DEF Fresh, IntegrationIDs

\* A call proceeds and changes no document.
LEMMA ProceedsKeeps ==
    ASSUME MetricsInv, NEW c \in EnvCallers, NEW call, Proceeds(c, call),
           \/ call.phase = "idle"
           \/ /\ call \in IntCallDocs /\ IntCallFits(call)
              /\ call.id # 0 => RefersTo(call.env, call.id)
    PROVE  MetricsInv'
<1>1. /\ intCalls' = [intCalls EXCEPT ![c] = call]
      /\ UNCHANGED <<status, resourceBindings, envCalls, integrations, sources, settled>>
  BY DEF Proceeds, envVars
<1>2. DOMAIN intCalls = EnvCallers
  BY DEF MetricsInv, MetricsTypes
<1>3. /\ intCalls'[c] = call /\ \A d \in EnvCallers \ {c} : intCalls'[d] = intCalls[d]
      /\ Active' \subseteq Active \cup {c} /\ (c \in Active' => call.phase # "idle")
  BY <1>1, <1>2 DEF Active
<1>4. MetricsTypes'
  BY <1>1, <1>2, <1>3 DEF MetricsInv, MetricsTypes
<1>5. \A e : BoundIDs(e)' = BoundIDs(e)
  BY <1>1 DEF BoundIDs, ListResourceBindings
<1>6. \A e \in Envs, id \in IntegrationIDs : RefersTo(e, id)' => RefersTo(e, id)
  BY <1>1, <1>3 DEF RefersTo, IntegrationIDs
<1>7. IntegrationsOwned'
  BY <1>6 DEF MetricsInv, IntegrationsOwned
<1>8. ASSUME NEW d \in Active' PROVE IntCallFits(intCalls[d])'
  <2>2. CASE d = c
    BY <1>1, <1>3, <1>5, <2>2 DEF IntCallFits
  <2>3. CASE d # c
    <3>1. d \in Active /\ intCalls'[d] = intCalls[d]
      BY <1>3, <2>3 DEF Active
    <3>2. IntCallFits(intCalls[d])
      BY <3>1 DEF MetricsInv
    <3> QED BY <1>1, <1>5, <3>1, <3>2 DEF IntCallFits
  <2> QED BY <2>2, <2>3
<1>9. \A e \in Envs : FollowsBindings(e)'
  BY <1>1, <1>5 DEF MetricsInv, FollowsBindings, Sourced
<1> QED BY <1>1, <1>4, <1>7, <1>8, <1>9 DEF MetricsInv, SourceIDsUnique

\* A call changes documents of one integration: the calls that matter to it are disturbed.
LEMMA ChangesKeeps ==
    ASSUME MetricsInv, NEW c \in Active, NEW call, NEW after, NEW before,
           before = intCalls[c], Changes(c, call, after),
           after \subseteq SourceDocs,
           \A s, t \in after : s.id = t.id => s = t,
           \A s \in after \ sources : /\ s.integration = before.id
                                      /\ \A d \in Active : s.id \notin intCalls[d].gone,
           \A s \in sources \ after : s.integration = before.id,
           \/ UNCHANGED integrations /\ before.id \in IntegrationIDs
           \/ /\ after = sources /\ call.id \in IntegrationIDs
              /\ integrations' = [integrations EXCEPT ![before.env] = call.id]
              /\ \A e \in Envs : ~RefersTo(e, call.id),
           \/ call.phase = "idle"
           \/ /\ call \in IntCallDocs /\ call.env = before.env
              /\ UNCHANGED integrations => call.id = before.id
              /\ call.id \in IntegrationIDs
              /\ IntCallFits(call)'
    PROVE  MetricsInv'
<1>1. /\ sources' = after /\ settled' = [settled EXCEPT ![before.env] = 0]
      /\ MovesAmong(c, before.env, call)
      /\ UNCHANGED <<status, resourceBindings, envCalls>>
  BY DEF Changes, envVars
<1>2. before \in IntCallDocs /\ before.env \in Envs /\ MetricsTypes /\ IntCallFits(before)
  BY DEF MetricsInv, MetricsTypes, IntCallDocs
<1>3. /\ DOMAIN intCalls' = EnvCallers /\ c \in EnvCallers /\ intCalls'[c] = call
      /\ \A d \in EnvCallers \ {c} :
             IF d \in Active /\ intCalls[d].env = before.env
             THEN intCalls'[d] = [intCalls[d] EXCEPT !.disturbed = TRUE]
             ELSE intCalls'[d] = intCalls[d]
  BY <1>1 DEF MovesAmong, Active
<1>4. ASSUME NEW d \in Active' \ {c}
      PROVE  /\ d \in Active /\ intCalls'[d] \in IntCallDocs
             /\ intCalls'[d].env = intCalls[d].env /\ intCalls'[d].id = intCalls[d].id
             /\ intCalls'[d].gone = intCalls[d].gone /\ intCalls'[d].phase = intCalls[d].phase
             /\ \/ intCalls'[d].disturbed
                \/ intCalls[d].env # before.env /\ intCalls'[d] = intCalls[d]
  <2>0. d \in EnvCallers
    BY DEF Active
  <2>1. CASE d \in Active /\ intCalls[d].env = before.env
    <3>1. intCalls[d] \in IntCallDocs
      BY <1>2, <2>1 DEF MetricsTypes
    <3>2. intCalls'[d] = [intCalls[d] EXCEPT !.disturbed = TRUE]
      BY <1>3, <2>0, <2>1
    <3> QED BY <2>1, <3>1, <3>2 DEF IntCallDocs
  <2>2. CASE ~(d \in Active /\ intCalls[d].env = before.env)
    <3>1. intCalls'[d] = intCalls[d]
      BY <1>3, <2>0, <2>2
    <3>2. d \in Active
      BY <2>0, <3>1 DEF Active
    <3> QED BY <1>2, <2>2, <3>1, <3>2 DEF MetricsTypes
  <2> QED BY <2>1, <2>2
<1>5. c \in Active' => call.phase # "idle"
  BY <1>3 DEF Active
<1>6. integrations' \in [Envs -> IntegrationIDs \cup {NoIntegration}]
      /\ \A e \in Envs \ {before.env} : integrations'[e] = integrations[e] /\ settled'[e] = settled[e]
  BY <1>1, <1>2 DEF MetricsTypes
<1>7. settled' \in [Envs -> Nat] /\ settled'[before.env] = 0
  BY <1>1, <1>2 DEF MetricsTypes
<1>8. MetricsTypes'
  BY <1>1, <1>2, <1>3, <1>4, <1>5, <1>6, <1>7 DEF MetricsTypes
<1>9. ASSUME NEW e \in Envs, NEW id \in IntegrationIDs, RefersTo(e, id)'
      PROVE  \/ RefersTo(e, id)
             \/ e = before.env /\ \A f \in Envs : ~RefersTo(f, id)
  <2>1. CASE integrations'[e] = id \/ settled'[e] = id
    BY <1>2, <1>6, <1>7, <2>1 DEF RefersTo, IntegrationIDs, MetricsTypes
  <2>2. ASSUME NEW d \in Active', intCalls'[d].env = e, intCalls'[d].id = id
        PROVE  \/ RefersTo(e, id)
               \/ e = before.env /\ \A f \in Envs : ~RefersTo(f, id)
    <3>1. CASE d = c
      BY <1>3, <1>5, <2>2, <3>1 DEF RefersTo
    <3>2. CASE d # c
      BY <1>4, <2>2, <3>2 DEF RefersTo
    <3> QED BY <3>1, <3>2
  <2> QED BY <1>9, <2>1, <2>2 DEF RefersTo
<1>10. IntegrationsOwned'
  <2>1. IntegrationsOwned
    BY DEF MetricsInv
  <2>2. ASSUME NEW id \in IntegrationIDs, NEW e \in Envs, NEW f \in Envs,
               RefersTo(e, id)', RefersTo(f, id)'
        PROVE  e = f
    BY <1>9, <2>1, <2>2 DEF IntegrationsOwned
  <2> QED BY <2>2 DEF IntegrationsOwned
<1>11. \A e : BoundIDs(e)' = BoundIDs(e)
  BY <1>1 DEF BoundIDs, ListResourceBindings
<1>12. ASSUME NEW e \in Envs \ {before.env}, NEW id \in IntegrationIDs, RefersTo(e, id)
       PROVE  id # before.id
  <2>1. before.id = id => RefersTo(before.env, id)
    BY DEF RefersTo
  <2> QED BY <1>2, <1>12, <2>1 DEF MetricsInv, IntegrationsOwned
<1>13. ASSUME NEW d \in Active' PROVE IntCallFits(intCalls[d])'
  <2>1. CASE d = c
    BY <1>3, <1>5, <2>1 DEF IntCallFits, BoundIDs, ListResourceBindings
  <2>2. CASE d # c
    <3>1. PICK q : q = intCalls'[d]
      OBVIOUS
    <3>2. /\ d \in Active /\ q \in IntCallDocs /\ q.env = intCalls[d].env /\ q.id = intCalls[d].id
          /\ q.gone = intCalls[d].gone /\ q.phase = intCalls[d].phase
          /\ (q.disturbed \/ (q.env # before.env /\ q = intCalls[d]))
      BY <1>4, <2>2, <3>1
    <3>3. IntCallFits(intCalls[d])
      BY <3>2 DEF MetricsInv
    <3>4. /\ IF q.phase = "insert" THEN q.gone = {} ELSE q.id \in IntegrationIDs
          /\ \A s \in sources' : s.id \in q.gone => s.integration = q.id
      BY <1>1, <3>2, <3>3 DEF IntCallFits
    <3>5. CASE q.disturbed
      BY <3>1, <3>4, <3>5 DEF IntCallFits
    <3>6. CASE q.env # before.env /\ q = intCalls[d]
      <4>1. q.phase # "insert" => q.id # before.id
        <5>1. q.env \in Envs /\ RefersTo(q.env, q.id)
          BY <3>2 DEF IntCallDocs, RefersTo
        <5> QED BY <1>12, <3>4, <3>6, <5>1
      <4>2. q.phase # "insert" =>
               \A s : s.integration = q.id => (s \in sources' <=> s \in sources)
        BY <1>1, <4>1
      <4>3. integrations'[q.env] = integrations[q.env]
        BY <1>6, <3>2, <3>6 DEF IntCallDocs
      <4>4. /\ ~q.disturbed /\ q.phase = "list" =>
                   /\ integrations'[q.env] = q.id
                   /\ \A s \in sources' : s.integration # q.id
            /\ ~q.disturbed /\ q.phase = "compare" =>
                   integrations'[q.env] = q.id /\ q.todo = BoundIDs(q.env)
            /\ ~q.disturbed /\ q.phase = "drop" =>
                   \A s \in sources' : s.integration = q.id => s.id \in q.gone
        BY <3>3, <3>6, <4>2, <4>3 DEF IntCallFits
      <4>5. ~q.disturbed /\ q.phase = "sources" =>
               /\ integrations'[q.env] = q.id
               /\ \A n : n # 0 =>
                      (n \in BoundIDs(q.env) <=>
                           \/ n \in q.todo
                           \/ \E s \in sources' : s.integration = q.id /\ s.binding = n /\ s.id \notin q.gone)
        BY <3>3, <3>6, <4>2, <4>3 DEF IntCallFits
      <4> QED BY <1>11, <3>1, <3>4, <4>4, <4>5 DEF IntCallFits
    <3> QED BY <3>2, <3>5, <3>6
  <2> QED BY <2>1, <2>2
<1>14. ASSUME NEW e \in Envs PROVE FollowsBindings(e)'
  <2>1. CASE e = before.env
    BY <1>7, <2>1 DEF FollowsBindings
  <2>2. CASE e # before.env
    <3>1. FollowsBindings(e) /\ integrations'[e] = integrations[e] /\ settled'[e] = settled[e]
          /\ settled[e] \in Nat
      BY <1>2, <1>6, <2>2 DEF MetricsInv, MetricsTypes
    <3>2. settled[e] # 0 => settled[e] # before.id
      <4>1. RefersTo(e, settled[e])
        BY DEF RefersTo
      <4> QED BY <1>12, <2>2, <3>1, <4>1 DEF IntegrationIDs
    <3>3. settled[e] # 0 => \A n : Sourced(settled[e], n)' <=> Sourced(settled[e], n)
      BY <1>1, <3>1, <3>2 DEF Sourced
    <3> QED BY <1>11, <3>1, <3>3 DEF FollowsBindings
  <2> QED BY <2>1, <2>2
<1> QED BY <1>1, <1>8, <1>10, <1>13, <1>14 DEF MetricsInv, SourceIDsUnique

-------------------------------------------------------------------------------
\* A call that begins refers to the integration it read.
LEMMA BeginCallKeeps ==
    ASSUME MetricsInv, NEW c \in EnvCallers, NEW e \in Envs,
           CreateIntegrationReads(c, e) \/ ReconcileReads(c, e) \/ EnableLogDerivedReads(c, e)
    PROVE  MetricsInv'
<1>1. CASE CreateIntegrationReads(c, e)
  <2>1. PICK call : call = [IdleCall EXCEPT !.phase = "insert", !.does = "create", !.env = e]
    OBVIOUS
  <2>2. /\ call \in IntCallDocs /\ call.phase = "insert" /\ call.gone = {} /\ call.id = 0
    BY <2>1 DEF IdleCall, IntCallDocs, IntPhases
  <2>3. IntCallFits(call)
    BY <2>2 DEF IntCallFits
  <2> QED BY <1>1, <2>1, <2>2, <2>3, ProceedsKeeps DEF CreateIntegrationReads
<1>2. CASE ReconcileReads(c, e) \/ EnableLogDerivedReads(c, e)
  <2>1. integrations[e] \in IntegrationIDs /\ BoundIDs(e) \subseteq Nat
    BY <1>2 DEF ReconcileReads, EnableLogDerivedReads, MetricsInv, MetricsTypes, BoundIDs,
                ListResourceBindings, IntegrationIDs
  <2>2. PICK call :
           /\ Proceeds(c, call)
           /\ \/ call = [IdleCall EXCEPT !.phase = "compare", !.does = "reconcile", !.env = e,
                              !.id = integrations[e], !.todo = BoundIDs(e)]
              \/ call = [IdleCall EXCEPT !.phase = "log", !.does = "log", !.env = e,
                              !.id = integrations[e]]
    BY <1>2 DEF ReconcileReads, EnableLogDerivedReads, BoundIDs
  <2>3. /\ call \in IntCallDocs /\ call.gone = {} /\ call.id = integrations[e] /\ call.env = e
        /\ call.phase \in {"compare", "log"}
        /\ call.phase = "compare" => call.todo = BoundIDs(e)
    <3>1. integrations[e] \in Nat
      BY <2>1 DEF IntegrationIDs
    <3>2. PICK id \in Nat, bound \in SUBSET Nat : id = integrations[e] /\ bound = BoundIDs(e)
      BY <2>1, <3>1
    <3>3. CASE call = [IdleCall EXCEPT !.phase = "compare", !.does = "reconcile", !.env = e,
                              !.id = id, !.todo = bound]
      BY <3>2, <3>3 DEF IdleCall, IntCallDocs, IntPhases
    <3>4. CASE call = [IdleCall EXCEPT !.phase = "log", !.does = "log", !.env = e, !.id = id]
      BY <3>2, <3>4 DEF IdleCall, IntCallDocs, IntPhases
    <3> QED BY <2>2, <3>2, <3>3, <3>4
  <2>4. IntCallFits(call) /\ RefersTo(e, call.id)
    BY <2>1, <2>3 DEF IntCallFits, RefersTo
  <2> QED BY <2>2, <2>3, <2>4, ProceedsKeeps
<1> QED BY <1>1, <1>2

\* What is known of a call under way.
LEMMA ActiveCall ==
    ASSUME MetricsInv, NEW c \in EnvCallers, NEW q, q = intCalls[c], q.phase # "idle"
    PROVE  /\ c \in Active /\ q \in IntCallDocs /\ IntCallFits(q) /\ q.env \in Envs
           /\ RefersTo(q.env, q.id)
<1>1. c \in Active
  BY DEF Active
<1> QED BY <1>1 DEF MetricsInv, MetricsTypes, IntCallDocs, RefersTo

\* An ended call, and one whose next phase promises nothing.
LEMMA GivesUpKeeps ==
    ASSUME MetricsInv, NEW c \in EnvCallers, intCalls[c].phase \notin {"idle", "insert"},
           Proceeds(c, IdleCall) \/ Proceeds(c, AfterFailure(intCalls[c]))
    PROVE  MetricsInv'
<1>1. PICK q : q = intCalls[c]
  OBVIOUS
<1>2. /\ q \in IntCallDocs /\ IntCallFits(q) /\ RefersTo(q.env, q.id) /\ q.phase # "insert"
  BY <1>1, ActiveCall
<1>3. PICK call : /\ Proceeds(c, call)
                  /\ call = IdleCall \/ call = [q EXCEPT !.phase = "taking back"]
  BY <1>1 DEF AfterFailure
<1>4. CASE call = IdleCall
  BY <1>3, <1>4, IdleIntCall, ProceedsKeeps
<1>5. CASE call = [q EXCEPT !.phase = "taking back"]
  <2>1. /\ call \in IntCallDocs /\ call.phase = "taking back" /\ call.id = q.id
        /\ call.gone = q.gone /\ call.env = q.env
    BY <1>2, <1>5 DEF IntCallDocs, IntPhases
  <2>2. IntCallFits(call)
    BY <1>2, <2>1 DEF IntCallFits
  <2> QED BY <1>2, <1>3, <2>1, <2>2, ProceedsKeeps
<1> QED BY <1>3, <1>4, <1>5

LEMMA EndsKeeps ==
    ASSUME MetricsInv, NEW c \in EnvCallers, Proceeds(c, IdleCall)
    PROVE  MetricsInv'
BY IdleIntCall, ProceedsKeeps

LEMMA CreateInsertsKeeps ==
    ASSUME MetricsInv, NEW c \in EnvCallers, CreateIntegrationInserts(c)
    PROVE  MetricsInv'
<1>1. PICK q : q = intCalls[c]
  OBVIOUS
<1>2. /\ q.phase = "insert" /\ q.gone = {} /\ c \in Active /\ q \in IntCallDocs /\ q.env \in Envs
  BY <1>1, ActiveCall DEF CreateIntegrationInserts, IntCallFits
<1>3. CASE Proceeds(c, IdleCall)
  BY <1>3, EndsKeeps
<1>4. CASE ~Proceeds(c, IdleCall)
  <2>1. PICK id \in Fresh(UsedIntegrations, MaxIntegrations) :
           /\ integrations[q.env] = NoIntegration
           /\ integrations' = [integrations EXCEPT ![q.env] = id]
           /\ Changes(c, [q EXCEPT !.phase = "list", !.id = id], sources)
    BY <1>1, <1>4 DEF CreateIntegrationInserts
  <2>2. id \in IntegrationIDs /\ id \notin UsedIntegrations
    BY FreshIsNew, MetricsAssumption
  <2>3. \A e \in Envs : ~RefersTo(e, id)
    BY <2>2, MetricsAssumption DEF UsedIntegrations, RefersTo, IntegrationIDs
  <2>4. \A s \in sources : s.integration # id
    BY <2>2 DEF UsedIntegrations
  <2>5. PICK call : call = [q EXCEPT !.phase = "list", !.id = id]
    OBVIOUS
  <2>6. id \in Nat
    BY <2>2 DEF IntegrationIDs
  <2>7. /\ call \in IntCallDocs /\ call.phase = "list" /\ call.id = id /\ call.env = q.env
        /\ call.gone = q.gone
    BY <1>2, <2>5, <2>6 DEF IntCallDocs, IntPhases
  <2>8. sources \subseteq SourceDocs /\ SourceIDsUnique /\ integrations'[q.env] = id /\ sources' = sources
    BY <1>2, <2>1 DEF MetricsInv, MetricsTypes, Changes
  <2>10. ~UNCHANGED integrations
    BY <2>1, <2>2, <2>8, MetricsAssumption DEF IntegrationIDs
  <2>9. IntCallFits(call)'
    BY <1>2, <2>2, <2>4, <2>7, <2>8 DEF IntCallFits
  <2>11. Changes(c, call, sources)
    BY <2>1, <2>5
  <2>12. \A s, t \in sources : s.id = t.id => s = t
    BY <2>8 DEF SourceIDsUnique
  <2>13. /\ call.id \in IntegrationIDs /\ integrations' = [integrations EXCEPT ![q.env] = call.id]
         /\ \A e \in Envs : ~RefersTo(e, call.id)
    BY <2>1, <2>2, <2>3, <2>7
  <2> QED BY <1>1, <1>2, <2>2, <2>7, <2>8, <2>9, <2>10, <2>11, <2>12, <2>13, ChangesKeeps
<1> QED BY <1>3, <1>4

\* What is left to do is known from here on.
LEMMA CreateListsKeeps ==
    ASSUME MetricsInv, NEW c \in EnvCallers, CreateIntegrationLists(c)
    PROVE  MetricsInv'
<1>1. PICK q : q = intCalls[c]
  OBVIOUS
<1>2. /\ q.phase = "list" /\ q \in IntCallDocs /\ IntCallFits(q) /\ q.env \in Envs
      /\ RefersTo(q.env, q.id)
  BY <1>1, ActiveCall DEF CreateIntegrationLists
<1>3. PICK bound \in SUBSET Nat : bound = BoundIDs(q.env)
  BY DEF MetricsInv, MetricsTypes, BoundIDs, ListResourceBindings, IntegrationIDs
<1>4. PICK call : Proceeds(c, call) /\ call = [q EXCEPT !.phase = "sources", !.todo = bound]
  BY <1>1, <1>3 DEF CreateIntegrationLists, BoundIDs
<1>5. /\ call \in IntCallDocs /\ call.phase = "sources" /\ call.env = q.env /\ call.id = q.id
      /\ call.gone = q.gone /\ call.todo = bound /\ call.disturbed = q.disturbed
  BY <1>2, <1>4 DEF IntCallDocs, IntPhases
<1>6. IntCallFits(call)
  BY <1>2, <1>3, <1>5 DEF IntCallFits
<1> QED BY <1>2, <1>4, <1>5, <1>6, ProceedsKeeps

LEMMA ComparesKeeps ==
    ASSUME MetricsInv, NEW c \in EnvCallers, ReconcileCompares(c)
    PROVE  MetricsInv'
<1>1. PICK q : q = intCalls[c]
  OBVIOUS
<1>2. /\ q.phase = "compare" /\ q \in IntCallDocs /\ IntCallFits(q) /\ q.env \in Envs
      /\ RefersTo(q.env, q.id)
  BY <1>1, ActiveCall DEF ReconcileCompares
<1>3. PICK gone : gone = {s.id : s \in {s \in ListSourceAccesses(q.id) : s.binding \notin q.todo \cup {LogDerived}}}
  OBVIOUS
<1>4. PICK todo : todo = q.todo \ {s.binding : s \in ListSourceAccesses(q.id)}
  OBVIOUS
<1>5. PICK call : Proceeds(c, call) /\ call = [q EXCEPT !.phase = "sources", !.gone = gone, !.todo = todo]
  BY <1>1, <1>3, <1>4 DEF ReconcileCompares
<1>6. sources \subseteq SourceDocs /\ SourceIDsUnique
  BY DEF MetricsInv, MetricsTypes
<1>7. gone \in SUBSET Nat /\ todo \in SUBSET Nat /\ todo \subseteq q.todo
  BY <1>2, <1>3, <1>4, <1>6 DEF ListSourceAccesses, SourceDocs, IntCallDocs
<1>8. /\ call \in IntCallDocs /\ call.phase = "sources" /\ call.env = q.env /\ call.id = q.id
      /\ call.gone = gone /\ call.todo = todo /\ call.disturbed = q.disturbed
  BY <1>2, <1>5, <1>7 DEF IntCallDocs, IntPhases
<1>9. \A s \in sources :
         s.id \in gone <=> s.integration = q.id /\ s.binding \notin q.todo \cup {LogDerived}
  <2> SUFFICES ASSUME NEW s \in sources
               PROVE  s.id \in gone <=> s.integration = q.id /\ s.binding \notin q.todo \cup {LogDerived}
    OBVIOUS
  <2>1. s.id \in gone => \E t \in sources : /\ t.id = s.id /\ t.integration = q.id
                                           /\ t.binding \notin q.todo \cup {LogDerived}
    BY <1>3 DEF ListSourceAccesses
  <2> QED BY <1>3, <1>6, <2>1 DEF ListSourceAccesses, SourceIDsUnique
<1>10. \A n : n \in q.todo <=>
          n \in todo \/ (n \in q.todo /\ \E s \in sources : s.integration = q.id /\ s.binding = n)
  BY <1>4 DEF ListSourceAccesses
<1>11. ASSUME ~q.disturbed, NEW n, n # 0
       PROVE  n \in BoundIDs(q.env) <=>
                  \/ n \in todo
                  \/ \E s \in sources : s.integration = q.id /\ s.binding = n /\ s.id \notin gone
  <2>1. q.todo = BoundIDs(q.env)
    BY <1>2, <1>11 DEF IntCallFits
  <2> QED BY <1>9, <1>10, <1>11, <2>1 DEF LogDerived
<1>12. IntCallFits(call)
  BY <1>2, <1>8, <1>9, <1>11 DEF IntCallFits
<1> QED BY <1>2, <1>5, <1>8, <1>12, ProceedsKeeps

\* A source that nobody has is inserted.
LEMMA InsertSourceKeeps ==
    ASSUME MetricsInv, NEW c \in EnvCallers, NEW q, q = intCalls[c],
           q.phase \notin {"idle", "insert"}, NEW b \in Nat, NEW next, InsertSource(c, q, b, next),
           \/ next.phase = "idle"
           \/ /\ q.phase = "sources" /\ q.gone = {} /\ b \in q.todo
              /\ next = [q EXCEPT !.todo = @ \ {b}]
    PROVE  MetricsInv'
<1>1. /\ c \in Active /\ q \in IntCallDocs /\ IntCallFits(q) /\ q.env \in Envs /\ q.id \in IntegrationIDs
  BY ActiveCall DEF IntCallFits
<1>2. PICK id \in Fresh(UsedSources, MaxSources) :
         /\ Changes(c, next, sources \cup {[id |-> id, integration |-> q.id, binding |-> b]})
         /\ UNCHANGED integrations
  BY DEF InsertSource
<1>3. id \in Nat /\ id \notin UsedSources
  BY FreshIsNew, MetricsAssumption DEF IntegrationIDs
<1>4. (\A s \in sources : s.id # id) /\ (\A d \in Active : id \notin intCalls[d].gone)
  BY <1>3 DEF UsedSources
<1>5. PICK new : new = [id |-> id, integration |-> q.id, binding |-> b]
  OBVIOUS
<1>6. new \in SourceDocs /\ new.id = id /\ new.integration = q.id /\ new.binding = b
  BY <1>1, <1>3, <1>5 DEF SourceDocs
<1>7. sources \subseteq SourceDocs /\ SourceIDsUnique
  BY DEF MetricsInv, MetricsTypes
<1>8. PICK after : after = sources \cup {new}
  OBVIOUS
<1>9. /\ after \subseteq SourceDocs
      /\ \A s, t \in after : s.id = t.id => s = t
      /\ \A s \in after \ sources : /\ s.integration = q.id
                                    /\ \A d \in Active : s.id \notin intCalls[d].gone
      /\ sources \ after = {}
  BY <1>4, <1>6, <1>7, <1>8 DEF SourceIDsUnique
<1>10. CASE next.phase = "idle"
  BY <1>1, <1>2, <1>5, <1>8, <1>9, <1>10, ChangesKeeps
<1>11. CASE /\ q.phase = "sources" /\ q.gone = {} /\ b \in q.todo
            /\ next = [q EXCEPT !.todo = @ \ {b}]
  <2>1. /\ next \in IntCallDocs /\ next.phase = "sources" /\ next.env = q.env /\ next.id = q.id
        /\ next.gone = {} /\ next.todo = q.todo \ {b} /\ next.disturbed = q.disturbed
    BY <1>1, <1>11 DEF IntCallDocs
  <2>2. sources' = after /\ integrations' = integrations /\ BoundIDs(q.env)' = BoundIDs(q.env)
    BY <1>2, <1>5, <1>8 DEF Changes, envVars, BoundIDs, ListResourceBindings
  <2>3. ASSUME ~q.disturbed, NEW n, n # 0
        PROVE  n \in BoundIDs(q.env) <=>
                   \/ n \in next.todo
                   \/ \E s \in after : s.integration = q.id /\ s.binding = n /\ s.id \notin next.gone
    <3>1. n \in BoundIDs(q.env) <=>
              n \in q.todo \/ \E s \in sources : s.integration = q.id /\ s.binding = n
      BY <1>1, <1>11, <2>3 DEF IntCallFits
    <3> QED BY <1>6, <1>8, <1>11, <2>1, <3>1
  <2>4. ~q.disturbed => integrations[q.env] = q.id
    BY <1>1, <1>11 DEF IntCallFits
  <2>5. IntCallFits(next)'
    BY <1>1, <2>1, <2>2, <2>3, <2>4 DEF IntCallFits
  <2> QED BY <1>1, <1>2, <1>5, <1>8, <1>9, <2>1, <2>5, ChangesKeeps
<1> QED BY <1>10, <1>11

LEMMA CreateSourceKeeps ==
    ASSUME MetricsInv, NEW c \in EnvCallers, CreateSourceAccess(c) \/ EnableLogDerivedInserts(c)
    PROVE  MetricsInv'
<1>1. PICK q : q = intCalls[c]
  OBVIOUS
<1>2. q.phase \in {"sources", "log"} /\ q \in IntCallDocs
  BY <1>1, ActiveCall DEF CreateSourceAccess, EnableLogDerivedInserts
<1>3. \/ Proceeds(c, AfterFailure(q)) \/ Proceeds(c, IdleCall)
      \/ \E b \in q.todo : /\ q.phase = "sources" /\ q.gone = {}
                           /\ InsertSource(c, q, b, [q EXCEPT !.todo = @ \ {b}])
      \/ InsertSource(c, q, LogDerived, IdleCall)
  BY <1>1 DEF CreateSourceAccess, EnableLogDerivedInserts
<1>4. q.todo \subseteq Nat /\ LogDerived \in Nat
  BY <1>2 DEF IntCallDocs, LogDerived
<1>5. CASE Proceeds(c, AfterFailure(q)) \/ Proceeds(c, IdleCall)
  BY <1>1, <1>2, <1>5, GivesUpKeeps
<1>6. ASSUME NEW b \in q.todo, q.phase = "sources", q.gone = {},
             InsertSource(c, q, b, [q EXCEPT !.todo = @ \ {b}])
      PROVE  MetricsInv'
  BY <1>1, <1>4, <1>6, InsertSourceKeeps
<1>7. CASE InsertSource(c, q, LogDerived, IdleCall)
  BY <1>1, <1>2, <1>4, <1>7, IdleIntCall, InsertSourceKeeps
<1> QED BY <1>3, <1>5, <1>6, <1>7

\* All sources of the integration are to go.
LEMMA DeleteListsKeeps ==
    ASSUME MetricsInv, NEW c \in EnvCallers, DeleteIntegrationLists(c)
    PROVE  MetricsInv'
<1>1. PICK q : q = intCalls[c]
  OBVIOUS
<1>2. /\ q.phase = "taking back" /\ q \in IntCallDocs /\ IntCallFits(q) /\ RefersTo(q.env, q.id)
  BY <1>1, ActiveCall DEF DeleteIntegrationLists
<1>3. PICK gone : gone = {s.id : s \in ListSourceAccesses(q.id)}
  OBVIOUS
<1>4. PICK call : Proceeds(c, call) /\ call = [q EXCEPT !.phase = "drop", !.todo = {}, !.gone = gone]
  BY <1>1, <1>3 DEF DeleteIntegrationLists
<1>5. sources \subseteq SourceDocs /\ SourceIDsUnique
  BY DEF MetricsInv, MetricsTypes
<1>6. gone \in SUBSET Nat /\ \A s \in sources : s.id \in gone <=> s.integration = q.id
  BY <1>3, <1>5 DEF ListSourceAccesses, SourceDocs, SourceIDsUnique
<1>7. /\ call \in IntCallDocs /\ call.phase = "drop" /\ call.env = q.env /\ call.id = q.id
      /\ call.gone = gone
  BY <1>2, <1>4, <1>6 DEF IntCallDocs, IntPhases
<1>8. IntCallFits(call)
  BY <1>2, <1>6, <1>7 DEF IntCallFits
<1> QED BY <1>2, <1>4, <1>7, <1>8, ProceedsKeeps

LEMMA DeleteSourceKeeps ==
    ASSUME MetricsInv, NEW c \in EnvCallers, DeleteSourceAccess(c)
    PROVE  MetricsInv'
<1>1. PICK q : q = intCalls[c]
  OBVIOUS
<1>2. /\ q.phase \in {"sources", "drop"} /\ c \in Active /\ q \in IntCallDocs /\ IntCallFits(q)
      /\ q.env \in Envs /\ RefersTo(q.env, q.id) /\ q.id \in IntegrationIDs
  BY <1>1, ActiveCall DEF DeleteSourceAccess, IntCallFits
<1>3. PICK id \in q.gone :
         \/ /\ Changes(c, [q EXCEPT !.gone = @ \ {id}], {s \in sources : s.id # id})
            /\ UNCHANGED integrations
         \/ /\ id \notin {s.id : s \in sources}
            /\ Proceeds(c, IF q.phase = "drop" THEN [q EXCEPT !.gone = @ \ {id}] ELSE IdleCall)
  BY <1>1 DEF DeleteSourceAccess
<1>4. PICK next : next = [q EXCEPT !.gone = @ \ {id}]
  OBVIOUS
<1>5. /\ next \in IntCallDocs /\ next.phase = q.phase /\ next.env = q.env /\ next.id = q.id
      /\ next.gone = q.gone \ {id} /\ next.todo = q.todo /\ next.disturbed = q.disturbed
  BY <1>2, <1>4 DEF IntCallDocs
<1>6. CASE /\ Changes(c, next, {s \in sources : s.id # id}) /\ UNCHANGED integrations
  <2>1. PICK after : after = {s \in sources : s.id # id}
    OBVIOUS
  <2>2. sources \subseteq SourceDocs /\ SourceIDsUnique
    BY DEF MetricsInv, MetricsTypes
  <2>3. /\ after \subseteq SourceDocs
        /\ \A s, t \in after : s.id = t.id => s = t
        /\ after \ sources = {}
        /\ \A s \in sources \ after : s.integration = q.id
    BY <1>2, <1>3, <2>1, <2>2 DEF SourceIDsUnique, IntCallFits
  <2>4. sources' = after /\ integrations' = integrations /\ BoundIDs(q.env)' = BoundIDs(q.env)
    BY <1>6, <2>1 DEF Changes, envVars, BoundIDs, ListResourceBindings
  <2>5. \A s : s \in after /\ s.id \notin next.gone <=> s \in sources /\ s.id \notin q.gone
    BY <1>3, <1>5, <2>1
  <2>6. /\ \A s \in after : s.id \in next.gone => s.integration = next.id
        /\ ~next.disturbed /\ next.phase = "drop" =>
               \A s \in after : s.integration = next.id => s.id \in next.gone
    BY <1>2, <1>5, <2>1 DEF IntCallFits
  <2>7. ~next.disturbed /\ next.phase = "sources" =>
           /\ integrations[next.env] = next.id
           /\ \A n : n # 0 =>
                  (n \in BoundIDs(next.env) <=>
                       \/ n \in next.todo
                       \/ \E s \in after : s.integration = next.id /\ s.binding = n /\ s.id \notin next.gone)
    BY <1>2, <1>5, <2>5 DEF IntCallFits
  <2>8. IntCallFits(next)'
    BY <1>2, <1>5, <2>4, <2>6, <2>7 DEF IntCallFits
  <2> QED BY <1>1, <1>2, <1>5, <1>6, <2>1, <2>3, <2>8, ChangesKeeps
<1>7. CASE id \notin {s.id : s \in sources} /\ q.phase = "drop" /\ Proceeds(c, next)
  <2>1. IntCallFits(next)
    BY <1>2, <1>5, <1>7 DEF IntCallFits
  <2> QED BY <1>2, <1>5, <1>7, <2>1, ProceedsKeeps
<1> QED BY <1>3, <1>4, <1>6, <1>7, EndsKeeps

LEMMA IntegrationFailsKeeps ==
    ASSUME MetricsInv, NEW c \in EnvCallers, IntegrationFails(c)
    PROVE  MetricsInv'
BY EndsKeeps, GivesUpKeeps DEF IntegrationFails

-------------------------------------------------------------------------------
\* The last document of an integration goes, or its reconciliation ends: what the sources
\* follow is known when nobody else met the call.
LEMMA SettlesKeeps ==
    ASSUME MetricsInv, NEW c \in EnvCallers, DeleteIntegration(c) \/ Succeeds(c)
    PROVE  MetricsInv'
<1>1. PICK q : q = intCalls[c]
  OBVIOUS
<1>2. /\ q.phase \in {"drop", "sources"} /\ c \in Active /\ q \in IntCallDocs /\ IntCallFits(q)
      /\ q.env \in Envs /\ RefersTo(q.env, q.id) /\ q.id \in IntegrationIDs
      /\ q.gone = {} /\ MetricsTypes
      /\ ~q.disturbed /\ q.phase = "drop" => \A s \in sources : s.integration = q.id => s.id \in q.gone
  BY <1>1, ActiveCall DEF DeleteIntegration, Succeeds, IntCallFits, MetricsInv
<1>3. PICK left : left = IF q.disturbed THEN 0 ELSE q.id
  OBVIOUS
<1>4. /\ UNCHANGED <<status, resourceBindings, envCalls, sources>>
      /\ settled' = [settled EXCEPT ![q.env] = left]
      /\ \/ UNCHANGED integrations /\ q.phase = "sources" /\ q.todo = {}
         \/ integrations' = [integrations EXCEPT ![q.env] = NoIntegration] /\ q.phase = "drop"
  BY <1>1, <1>3 DEF DeleteIntegration, Succeeds, Settles, envVars
<1>5. /\ DOMAIN intCalls' = EnvCallers /\ intCalls'[c] = IdleCall
      /\ \A d \in EnvCallers \ {c} :
             \/ intCalls'[d] = intCalls[d] /\ (intCalls[d].env # q.env \/ UNCHANGED integrations \/ d \notin Active)
             \/ d \in Active /\ intCalls'[d] = [intCalls[d] EXCEPT !.disturbed = TRUE]
  <2>1. CASE DeleteIntegration(c)
    BY <1>1, <1>2, <2>1 DEF DeleteIntegration, MovesAmong, Active
  <2>2. CASE Succeeds(c)
    BY <1>1, <1>2, <2>2 DEF Succeeds, MetricsTypes
  <2> QED BY <2>1, <2>2
<1>6. ASSUME NEW d \in Active'
      PROVE  /\ d \in Active /\ d # c /\ intCalls'[d] \in IntCallDocs
             /\ intCalls'[d].env = intCalls[d].env /\ intCalls'[d].id = intCalls[d].id
             /\ intCalls'[d].gone = intCalls[d].gone /\ intCalls'[d].phase = intCalls[d].phase
             /\ \/ intCalls'[d].disturbed
                \/ /\ intCalls'[d] = intCalls[d]
                   /\ intCalls[d].env # q.env \/ UNCHANGED integrations
  <2>1. d \in EnvCallers /\ d # c
    BY <1>5, IdleIntCall DEF Active
  <2>2. CASE intCalls'[d] = intCalls[d] /\ (intCalls[d].env # q.env \/ UNCHANGED integrations \/ d \notin Active)
    <3>1. d \in Active
      BY <2>1, <2>2 DEF Active
    <3> QED BY <1>2, <2>1, <2>2, <3>1 DEF MetricsTypes
  <2>3. CASE d \in Active /\ intCalls'[d] = [intCalls[d] EXCEPT !.disturbed = TRUE]
    <3>1. intCalls[d] \in IntCallDocs
      BY <1>2, <2>3 DEF MetricsTypes
    <3> QED BY <2>1, <2>3, <3>1 DEF IntCallDocs
  <2> QED BY <1>5, <2>1, <2>2, <2>3
<1>7. left \in Nat /\ (left # 0 => left = q.id /\ ~q.disturbed)
  BY <1>2, <1>3 DEF IntegrationIDs
<1>8. /\ integrations' \in [Envs -> IntegrationIDs \cup {NoIntegration}]
      /\ settled' \in [Envs -> Nat] /\ settled'[q.env] = left
      /\ integrations'[q.env] \in {integrations[q.env], NoIntegration}
      /\ \A e \in Envs \ {q.env} : integrations'[e] = integrations[e] /\ settled'[e] = settled[e]
  BY <1>2, <1>4, <1>7 DEF MetricsTypes
<1>9. MetricsTypes'
  BY <1>2, <1>4, <1>5, <1>6, <1>8 DEF MetricsTypes
<1>10. \A e : BoundIDs(e)' = BoundIDs(e)
  BY <1>4 DEF BoundIDs, ListResourceBindings
<1>11. ASSUME NEW e \in Envs, NEW id \in IntegrationIDs, RefersTo(e, id)' PROVE RefersTo(e, id)
  <2>1. CASE e # q.env
    BY <1>6, <1>8, <1>11, <2>1 DEF RefersTo
  <2>2. CASE e = q.env
    <3>1. id # NoIntegration /\ id # 0
      BY MetricsAssumption DEF IntegrationIDs
    <3> QED BY <1>2, <1>6, <1>7, <1>8, <1>11, <2>2, <3>1 DEF RefersTo
  <2> QED BY <2>1, <2>2
<1>12. IntegrationsOwned'
  BY <1>11 DEF MetricsInv, IntegrationsOwned
<1>13. ASSUME NEW d \in Active' PROVE IntCallFits(intCalls[d])'
  <2>1. PICK p : p = intCalls'[d]
    OBVIOUS
  <2>2. /\ d \in Active /\ p.env = intCalls[d].env /\ p.id = intCalls[d].id /\ p.gone = intCalls[d].gone
        /\ p.phase = intCalls[d].phase
        /\ p.disturbed \/ (p = intCalls[d] /\ (p.env # q.env \/ UNCHANGED integrations))
        /\ intCalls[d] \in IntCallDocs
    BY <1>2, <1>6, <2>1 DEF MetricsTypes
  <2>3. IntCallFits(intCalls[d])
    BY <2>2 DEF MetricsInv
  <2>4. CASE p.disturbed
    BY <1>4, <2>1, <2>2, <2>3, <2>4 DEF IntCallFits
  <2>5. CASE p = intCalls[d] /\ (p.env # q.env \/ UNCHANGED integrations)
    <3>1. p.env \in Envs
      BY <2>2, <2>5 DEF IntCallDocs
    <3>2. integrations'[p.env] = integrations[p.env]
      BY <1>8, <2>5, <3>1
    <3> QED BY <1>4, <1>10, <2>1, <2>3, <2>5, <3>2 DEF IntCallFits
  <2> QED BY <2>2, <2>4, <2>5
<1>14. ASSUME NEW e \in Envs PROVE FollowsBindings(e)'
  <2>1. \A id, n : Sourced(id, n)' <=> Sourced(id, n)
    BY <1>4 DEF Sourced
  <2>2. CASE e # q.env
    BY <1>8, <1>10, <2>1, <2>2 DEF MetricsInv, FollowsBindings
  <2>3. CASE e = q.env /\ q.phase = "drop"
    <3>1. integrations'[e] = NoIntegration
      BY <1>2, <1>4, <2>3 DEF MetricsTypes
    <3>2. left # 0 => \A n : ~Sourced(left, n)
      BY <1>2, <1>7, <2>3 DEF Sourced
    <3>3. left # NoIntegration
      BY <1>7, MetricsAssumption
    <3> QED BY <1>8, <2>1, <2>3, <3>1, <3>2, <3>3 DEF FollowsBindings
  <2>4. CASE e = q.env /\ q.phase = "sources"
    <3>1. UNCHANGED integrations /\ q.todo = {}
      BY <1>4, <2>4
    <3>2. left # 0 =>
             /\ integrations[q.env] = q.id
             /\ \A n : n # 0 => (n \in BoundIDs(q.env) <=> Sourced(q.id, n))
      BY <1>2, <1>7, <2>4, <3>1 DEF IntCallFits, Sourced
    <3> QED BY <1>7, <1>8, <1>10, <2>1, <2>4, <3>1, <3>2 DEF FollowsBindings
  <2> QED BY <1>2, <2>2, <2>3, <2>4
<1> QED BY <1>4, <1>9, <1>12, <1>13, <1>14 DEF MetricsInv, SourceIDsUnique

-------------------------------------------------------------------------------
\* Bindings change, and what is known of the environment is forgotten.
LEMMA EnvironmentKeeps ==
    ASSUME MetricsInv, EnvironmentStep
    PROVE  MetricsInv'
<1>1. PICK moved : moved = {e \in Envs : ListResourceBindings(e)' # ListResourceBindings(e)}
  OBVIOUS
<1>2. /\ UNCHANGED <<integrations, sources>>
      /\ settled' = [e \in Envs |-> IF e \in moved THEN 0 ELSE settled[e]]
      /\ intCalls' = [c \in EnvCallers |->
             IF c \in Active /\ intCalls[c].env \in moved
             THEN [intCalls[c] EXCEPT !.disturbed = TRUE] ELSE intCalls[c]]
  BY <1>1 DEF EnvironmentStep
<1>3. MetricsTypes
  BY DEF MetricsInv
<1>4. \A b \in resourceBindings' : b.id \in IntegrationIDs
  <2>1. \/ resourceBindings' \subseteq resourceBindings
        \/ \E id \in Fresh(UsedBindings \cup {b.id : b \in resourceBindings}, MaxBindings) : \E env, resource :
               resourceBindings' = resourceBindings \cup {[id |-> id, env |-> env, resource |-> resource]}
    <3>1. CASE \E c \in EnvCallers : BindResourceWrites(c, UsedBindings)
      BY <3>1 DEF BindResourceWrites
    <3>2. CASE UNCHANGED resourceBindings \/ \E b \in resourceBindings : UnbindResource(b)
      BY <3>2 DEF UnbindResource
    <3> QED BY <3>1, <3>2 DEF EnvironmentStep, EnvironmentsNext, CreateEnvironment,
                  UpdateEnvironmentReads, BindResourceReads, UpdateEnvironmentWrites, EnvCallFails
  <2>2. \A id \in Fresh(UsedBindings \cup {b.id : b \in resourceBindings}, MaxBindings) :
           id \in IntegrationIDs
    BY FreshIsNew, BindingBound
  <2>3. \A b \in resourceBindings : b.id \in IntegrationIDs
    BY <1>3 DEF MetricsTypes
  <2>4. ASSUME NEW id \in IntegrationIDs, NEW new, new.id = id,
               resourceBindings' = resourceBindings \cup {new}
        PROVE  \A b \in resourceBindings' : b.id \in IntegrationIDs
    BY <2>3, <2>4
  <2>5. \A id, env, resource : [id |-> id, env |-> env, resource |-> resource].id = id
    OBVIOUS
  <2>6. CASE resourceBindings' \subseteq resourceBindings
    BY <2>3, <2>6
  <2> QED BY <2>1, <2>2, <2>4, <2>5, <2>6
<1>5. \A e \in Envs \ moved : BoundIDs(e)' = BoundIDs(e)
  BY <1>1 DEF BoundIDs
<1>6. ASSUME NEW d \in Active'
      PROVE  /\ d \in Active /\ intCalls'[d] \in IntCallDocs
             /\ intCalls'[d].env = intCalls[d].env /\ intCalls'[d].id = intCalls[d].id
             /\ intCalls'[d].gone = intCalls[d].gone /\ intCalls'[d].phase = intCalls[d].phase
             /\ intCalls'[d].disturbed \/ (intCalls'[d] = intCalls[d] /\ intCalls[d].env \in Envs \ moved)
  <2>1. d \in EnvCallers
    BY DEF Active
  <2>2. CASE d \in Active /\ intCalls[d].env \in moved
    <3>1. intCalls[d] \in IntCallDocs
      BY <1>3, <2>2 DEF MetricsTypes
    <3>2. intCalls'[d] = [intCalls[d] EXCEPT !.disturbed = TRUE]
      BY <1>2, <2>1, <2>2
    <3> QED BY <2>2, <3>1, <3>2 DEF IntCallDocs
  <2>3. CASE ~(d \in Active /\ intCalls[d].env \in moved)
    <3>1. intCalls'[d] = intCalls[d]
      BY <1>2, <2>1, <2>3
    <3>2. d \in Active
      BY <2>1, <3>1 DEF Active
    <3>3. intCalls[d] \in IntCallDocs
      BY <1>3, <3>2 DEF MetricsTypes
    <3> QED BY <2>3, <3>1, <3>2, <3>3 DEF IntCallDocs
  <2> QED BY <2>2, <2>3
<1>7. /\ settled' \in [Envs -> Nat] /\ DOMAIN intCalls' = EnvCallers
      /\ \A e \in Envs : settled'[e] \in {0, settled[e]} /\ (e \in moved => settled'[e] = 0)
  BY <1>2, <1>3 DEF MetricsTypes
<1>8. MetricsTypes'
  BY <1>2, <1>3, <1>4, <1>6, <1>7 DEF MetricsTypes
<1>9. ASSUME NEW e \in Envs, NEW id \in IntegrationIDs, RefersTo(e, id)' PROVE RefersTo(e, id)
  BY <1>2, <1>6, <1>7, <1>9, ZenonT(60) DEF RefersTo, IntegrationIDs
<1>10. IntegrationsOwned'
  BY <1>9 DEF MetricsInv, IntegrationsOwned
<1>11. ASSUME NEW d \in Active' PROVE IntCallFits(intCalls[d])'
  <2>1. PICK p : p = intCalls'[d]
    OBVIOUS
  <2>2. /\ d \in Active /\ p.id = intCalls[d].id /\ p.gone = intCalls[d].gone
        /\ p.phase = intCalls[d].phase
        /\ p.disturbed \/ (p = intCalls[d] /\ p.env \in Envs \ moved)
    BY <1>6, <2>1
  <2>3. IntCallFits(intCalls[d])
    BY <2>2 DEF MetricsInv
  <2>4. CASE p.disturbed
    BY <1>2, <2>1, <2>2, <2>3, <2>4 DEF IntCallFits
  <2>5. CASE p = intCalls[d] /\ p.env \in Envs \ moved
    <3>1. BoundIDs(p.env)' = BoundIDs(p.env)
      BY <1>5, <2>5
    <3>2. integrations' = integrations /\ sources' = sources
      BY <1>2
    <3>3. IntCallFits(p)
      BY <2>3, <2>5
    <3> QED BY <2>1, <3>1, <3>2, <3>3 DEF IntCallFits
  <2> QED BY <2>2, <2>4, <2>5
<1>12. ASSUME NEW e \in Envs PROVE FollowsBindings(e)'
  BY <1>2, <1>5, <1>7 DEF MetricsInv, FollowsBindings, Sourced
<1> QED BY <1>2, <1>8, <1>10, <1>11, <1>12 DEF MetricsInv, SourceIDsUnique

LEMMA MetricsInvNext == MetricsInv /\ [MetricsNext]_metricsVars => MetricsInv'
<1> SUFFICES ASSUME MetricsInv, [MetricsNext]_metricsVars PROVE MetricsInv'
  OBVIOUS
<1>1. CASE EnvironmentStep
  BY <1>1, EnvironmentKeeps
<1>2. ASSUME NEW c \in EnvCallers, NEW e \in Envs,
             CreateIntegrationReads(c, e) \/ ReconcileReads(c, e) \/ EnableLogDerivedReads(c, e)
      PROVE  MetricsInv'
  BY <1>2, BeginCallKeeps
<1>3. ASSUME NEW c \in EnvCallers,
             CreateIntegrationInserts(c) \/ CreateIntegrationLists(c) \/ ReconcileCompares(c)
      PROVE  MetricsInv'
  BY <1>3, CreateInsertsKeeps, CreateListsKeeps, ComparesKeeps
<1>4. ASSUME NEW c \in EnvCallers,
             CreateSourceAccess(c) \/ EnableLogDerivedInserts(c) \/ DeleteIntegrationLists(c)
                 \/ DeleteSourceAccess(c)
      PROVE  MetricsInv'
  BY <1>4, CreateSourceKeeps, DeleteListsKeeps, DeleteSourceKeeps
<1>5. ASSUME NEW c \in EnvCallers, DeleteIntegration(c) \/ Succeeds(c) \/ IntegrationFails(c)
      PROVE  MetricsInv'
  BY <1>5, SettlesKeeps, IntegrationFailsKeeps
<1>6. CASE UNCHANGED metricsVars
  <2>1. UNCHANGED <<resourceBindings, integrations, sources, intCalls, settled>>
    BY <1>6 DEF metricsVars, envVars
  <2> QED BY <2>1 DEF MetricsInv, MetricsTypes, SourceIDsUnique, IntegrationsOwned, RefersTo, Active,
                      IntCallFits, FollowsBindings, Sourced, BoundIDs, ListResourceBindings
<1> QED BY <1>1, <1>2, <1>3, <1>4, <1>5, <1>6 DEF MetricsNext

LEMMA SourcesFollow1 == MetricsInv => SourcesFollowBindings
<1> SUFFICES ASSUME MetricsInv, NEW e \in Envs, settled[e] # 0
             PROVE  {s.binding : s \in ListSourceAccesses(settled[e])} \ {LogDerived} =
                        IF integrations[e] = settled[e] THEN BoundIDs(e) ELSE {}
  BY DEF SourcesFollowBindings, BoundIDs
<1>1. FollowsBindings(e) /\ 0 \notin BoundIDs(e)
  BY DEF MetricsInv, MetricsTypes, IntegrationIDs, BoundIDs, ListResourceBindings
<1>2. \A n : n \in {s.binding : s \in ListSourceAccesses(settled[e])} <=> Sourced(settled[e], n)
  BY DEF ListSourceAccesses, Sourced
<1> QED BY <1>1, <1>2 DEF FollowsBindings, LogDerived

\* An integration whose last call met nobody else has a source for every resource that is
\* bound to its environment and no others; one that was taken back has none.
THEOREM SourcesFollow == MetricsSpec => []SourcesFollowBindings
<1>1. MetricsInit => MetricsInv
  BY MetricsInvInit
<1>2. MetricsInv /\ [MetricsNext]_metricsVars => MetricsInv'
  BY MetricsInvNext
<1>3. MetricsInv => SourcesFollowBindings
  BY SourcesFollow1
<1> QED BY <1>1, <1>2, <1>3, PTL DEF MetricsSpec

-------------------------------------------------------------------------------
(******************************************************************************)
(* The service catalogue.  Services never go and never change their names, so *)
(* what a call read of a name stays true; what else it read does while no     *)
(* other call is under way.                                                   *)
(******************************************************************************)
WorkloadsOf == UNION {{list[i] : i \in DOMAIN list} : list \in WorkloadLists}
CatalogNames == {s.name : s \in ServiceRequests} \cup {w.name : w \in WorkloadsOf}

CatalogDocs ==
    [name : CatalogNames, cmdb : {s.cmdb : s \in ServiceRequests} \cup {NoCmdb},
     status : {s.status : s \in ServiceRequests} \cup {"active", "deleted"}]
WorkloadDocs == [kind : {w.kind : w \in WorkloadsOf}, name : {w.name : w \in WorkloadsOf}]
TargetDocs == [service : Nat, kind : {w.kind : w \in WorkloadsOf}, name : CatalogNames]

SyncPhases == {"sync", "syncInsert", "targets", "target"}
CatalogCallDocs ==
    [phase : {"ended", "insert", "unique", "write"} \cup SyncPhases, id : Nat,
     service : CatalogDocs \cup {NoService}, workloads : Seq(WorkloadDocs), rest : Seq(WorkloadDocs),
     listed : SUBSET Nat]

CatalogTypes ==
    /\ catalog \in Seq(CatalogDocs)
    /\ observed \in Seq(TargetDocs)
    /\ catalogCalls \in [CatalogCallers -> CatalogCallDocs]
    /\ synced \in Seq(WorkloadDocs)
    /\ orderly \in BOOLEAN

NamesAreUnique == \A i, j \in DOMAIN catalog : i # j => catalog[i].name # catalog[j].name

TargetsServe ==
    \A t \in DOMAIN observed :
        observed[t].service \in DOMAIN catalog /\ catalog[observed[t].service].name = observed[t].name

\* What a call holds is of services there are, whatever others do.
CatalogCallFits(q) ==
    /\ q.phase = "insert" => q.service \in CatalogDocs
    /\ q.phase \in {"unique", "write"} =>
           q.service \in CatalogDocs /\ q.id \in DOMAIN catalog /\ q.service.name = catalog[q.id].name
    /\ q.phase \in SyncPhases => q.listed \subseteq DOMAIN catalog
    /\ q.phase \in {"syncInsert", "targets", "target"} => q.rest # <<>>
    /\ q.phase \in {"targets", "target"} => q.id \in DOMAIN catalog /\ catalog[q.id].name = Head(q.rest).name

CmdbIsFree(service, id) ==
    \A i \in (DOMAIN catalog) \ {id} : service.cmdb = NoCmdb \/ catalog[i].cmdb # service.cmdb

Served(workload) ==
    /\ \E i \in DOMAIN catalog : catalog[i].status # "deleted" /\ catalog[i].name = workload.name
    /\ \E t \in DOMAIN observed : observed[t].kind = workload.kind /\ observed[t].name = workload.name

\* The workloads before the rest are served.
SyncPlace(q) ==
    /\ Len(q.rest) <= Len(q.workloads)
    /\ \A i \in 1 .. Len(q.rest) : q.rest[i] = q.workloads[Len(q.workloads) - Len(q.rest) + i]

SyncGoesOn(q) ==
    /\ SyncPlace(q)
    /\ \A w \in 1 .. Len(q.workloads) - Len(q.rest) : Served(q.workloads[w])

\* What a call that met no other knows besides.
CatalogCallKnows(q) ==
    /\ q.phase = "insert" => CmdbIsFree(q.service, 0)
    /\ q.phase = "write" => CmdbIsFree(q.service, q.id)
    /\ q.phase \in SyncPhases => (\A i \in q.listed : catalog[i].status # "deleted") /\ SyncGoesOn(q)
    /\ q.phase \in {"targets", "target"} => catalog[q.id].status # "deleted"
    /\ q.phase = "target" => ~IsTarget(TargetOf(q.id, Head(q.rest)))

CmdbsAreUnique ==
    \A i, j \in DOMAIN catalog : i # j => catalog[i].cmdb = NoCmdb \/ catalog[i].cmdb # catalog[j].cmdb

TargetsAreUnique == \A t, u \in DOMAIN observed : observed[u] = observed[t] => u = t

SyncedAreServed == \A w \in DOMAIN synced : Served(synced[w])

OthersEnded(c) == \A d \in CatalogCallers \ {c} : catalogCalls[d].phase = "ended"

CatalogIsOrderly ==
    /\ CmdbsAreUnique /\ TargetsAreUnique /\ SyncedAreServed
    /\ \A c \in CatalogCallers :
           /\ CatalogCallKnows(catalogCalls[c])
           /\ catalogCalls[c].phase # "ended" => OthersEnded(c)

CatalogInv ==
    /\ CatalogTypes
    /\ NamesAreUnique
    /\ TargetsServe
    /\ \A c \in CatalogCallers : CatalogCallFits(catalogCalls[c])
    /\ orderly => CatalogIsOrderly

LEMMA WiderSequence ==
    ASSUME NEW S, NEW T, S \subseteq T, NEW s \in Seq(S)
    PROVE  s \in Seq(T)
<1>1. Len(s) \in Nat /\ DOMAIN s = 1 .. Len(s) /\ s \in [1 .. Len(s) -> S]
  OBVIOUS
<1>2. s \in [1 .. Len(s) -> T]
  BY <1>1
<1> QED
  BY <1>1, <1>2

LEMMA CatalogInputs ==
    /\ \A s \in ServiceRequests : s \in CatalogDocs
    /\ WorkloadLists \subseteq Seq(WorkloadDocs)
    /\ \A w \in WorkloadDocs : ServiceFor(w) \in CatalogDocs /\ ServiceFor(w).name = w.name
                               /\ ServiceFor(w).cmdb = NoCmdb /\ ServiceFor(w).status = "active"
    /\ \A w \in WorkloadDocs, id \in Nat : TargetOf(id, w) \in TargetDocs
<1>1. ASSUME NEW s \in ServiceRequests PROVE s \in CatalogDocs
  <2>1. s = [name |-> s.name, cmdb |-> s.cmdb, status |-> s.status]
    BY CatalogAssumption
  <2>2. [name |-> s.name, cmdb |-> s.cmdb, status |-> s.status] \in CatalogDocs
    BY DEF CatalogDocs, CatalogNames
  <2> QED
    BY <2>1, <2>2
<1>2. ASSUME NEW list \in WorkloadLists PROVE list \in Seq(WorkloadDocs)
  <2> DEFINE Docs == [kind : {list[i].kind : i \in DOMAIN list}, name : {list[i].name : i \in DOMAIN list}]
  <2>1. list \in Seq(Docs)
    BY CatalogAssumption
  <2>2. \A i \in DOMAIN list : list[i] \in WorkloadsOf
    BY DEF WorkloadsOf
  <2>3. Docs \subseteq WorkloadDocs
    BY <2>2 DEF WorkloadDocs
  <2> QED
    BY <2>1, <2>3, WiderSequence
<1>3. ASSUME NEW w \in WorkloadDocs
      PROVE  /\ ServiceFor(w) \in CatalogDocs /\ ServiceFor(w).name = w.name
             /\ ServiceFor(w).cmdb = NoCmdb /\ ServiceFor(w).status = "active"
             /\ \A id \in Nat : TargetOf(id, w) \in TargetDocs
  BY DEF WorkloadDocs, ServiceFor, CatalogDocs, CatalogNames, TargetOf, TargetDocs
<1> QED
  BY <1>1, <1>2, <1>3

LEMMA NoCatalogCallFits ==
    NoCatalogCall \in CatalogCallDocs /\ NoCatalogCall.phase = "ended"
BY DEF NoCatalogCall, CatalogCallDocs

\* A call that has ended says nothing.
LEMMA EndedSaysNothing ==
    ASSUME NEW q, q.phase = "ended"
    PROVE  CatalogCallFits(q) /\ CatalogCallFits(q)' /\ CatalogCallKnows(q) /\ CatalogCallKnows(q)'
BY DEF CatalogCallFits, CatalogCallKnows, SyncPhases

\* Services stay and keep their names.
ServicesStay == \A i \in DOMAIN catalog : i \in DOMAIN catalog' /\ catalog'[i].name = catalog[i].name

\* One call makes a step: the others' knowledge stays, for what they know was of services
\* that stay, or they have ended.
LEMMA OneCallSteps ==
    ASSUME CatalogInv, NEW c \in CatalogCallers, NEW q \in CatalogCallDocs,
           catalogCalls' = [catalogCalls EXCEPT ![c] = q],
           catalog' \in Seq(CatalogDocs), observed' \in Seq(TargetDocs), synced' \in Seq(WorkloadDocs),
           orderly' \in BOOLEAN,
           NamesAreUnique', TargetsServe', ServicesStay, CatalogCallFits(q)',
           orderly' => orderly /\ OthersEnded(c),
           orderly' => CmdbsAreUnique' /\ TargetsAreUnique' /\ SyncedAreServed' /\ CatalogCallKnows(q)'
    PROVE  CatalogInv'
<1>1. catalogCalls \in [CatalogCallers -> CatalogCallDocs]
  BY DEF CatalogInv, CatalogTypes
<1>2. CatalogTypes'
  BY <1>1 DEF CatalogTypes
<1>3. ASSUME NEW d \in CatalogCallers PROVE CatalogCallFits(catalogCalls[d])'
  <2>1. CASE d = c
    BY <1>1, <2>1
  <2>2. CASE d # c
    <3>1. PICK p : p = catalogCalls[d] /\ CatalogCallFits(p)
      BY DEF CatalogInv
    <3>2. CatalogCallFits(p)'
      BY <3>1 DEF CatalogCallFits, ServicesStay
    <3> QED
      BY <1>1, <2>2, <3>1, <3>2
  <2> QED
    BY <2>1, <2>2
<1>4. ASSUME orderly' PROVE CatalogIsOrderly'
  <2>1. orderly /\ OthersEnded(c)
    BY <1>4
  <2>2. ASSUME NEW d \in CatalogCallers
        PROVE  CatalogCallKnows(catalogCalls[d])' /\ (catalogCalls'[d].phase # "ended" => OthersEnded(d)')
    <3>1. CASE d = c
      BY <1>1, <1>4, <2>1, <3>1 DEF OthersEnded
    <3>2. CASE d # c
      <4>1. PICK p : p = catalogCalls[d] /\ p.phase = "ended"
        BY <2>1, <3>2 DEF OthersEnded
      <4> QED
        BY <1>1, <3>2, <4>1, EndedSaysNothing
    <3> QED
      BY <3>1, <3>2
  <2> QED
    BY <1>4, <2>2 DEF CatalogIsOrderly
<1> QED
  BY <1>2, <1>3, <1>4 DEF CatalogInv

\* A step that writes nothing.
LEMMA OneCallMoves ==
    ASSUME CatalogInv, NEW c \in CatalogCallers, NEW q \in CatalogCallDocs,
           CatalogStep(c, q), UNCHANGED <<catalog, observed>>, orderly' \in BOOLEAN,
           CatalogCallFits(q), orderly' => orderly /\ OthersEnded(c),
           orderly' => CatalogCallKnows(q)
    PROVE  CatalogInv'
<1>1. catalogCalls' = [catalogCalls EXCEPT ![c] = q] /\ synced' = <<>> /\ UNCHANGED <<catalog, observed>>
  BY DEF CatalogStep
<1>2. ServicesStay /\ NamesAreUnique' /\ TargetsServe'
  BY <1>1 DEF CatalogInv, ServicesStay, NamesAreUnique, TargetsServe
<1>3. CatalogCallFits(q)'
  BY <1>1 DEF CatalogCallFits
<1>4. orderly' => CatalogCallKnows(q)'
  <2>1. \A id \in Nat : CmdbIsFree(q.service, id)' <=> CmdbIsFree(q.service, id)
    BY <1>1 DEF CmdbIsFree
  <2>2. \A w : Served(w)' <=> Served(w)
    BY <1>1 DEF Served
  <2>3. SyncGoesOn(q)' <=> SyncGoesOn(q)
    BY <2>2 DEF SyncGoesOn, SyncPlace
  <2>4. \A target : IsTarget(target)' <=> IsTarget(target)
    BY <1>1 DEF IsTarget
  <2>5. q.id \in Nat
    BY DEF CatalogCallDocs
  <2> QED
    BY <1>1, <2>1, <2>3, <2>4, <2>5 DEF CatalogCallKnows
<1>5. orderly' => CmdbsAreUnique' /\ TargetsAreUnique' /\ SyncedAreServed'
  BY <1>1 DEF CatalogInv, CatalogIsOrderly, CmdbsAreUnique, TargetsAreUnique, SyncedAreServed
<1>6. catalog' \in Seq(CatalogDocs) /\ observed' \in Seq(TargetDocs) /\ synced' \in Seq(WorkloadDocs)
  BY <1>1 DEF CatalogInv, CatalogTypes
<1> QED
  BY <1>1, <1>2, <1>3, <1>4, <1>5, <1>6, OneCallSteps

\* What a call that is under way starts from.
LEMMA CatalogCallFacts ==
    ASSUME CatalogInv, NEW c \in CatalogCallers
    PROVE  /\ catalogCalls[c] \in CatalogCallDocs /\ CatalogCallFits(catalogCalls[c])
           /\ orderly => CatalogCallKnows(catalogCalls[c])
           /\ orderly /\ catalogCalls[c].phase # "ended" => OthersEnded(c)
           /\ catalog \in Seq(CatalogDocs) /\ Len(catalog) \in Nat /\ DOMAIN catalog = 1 .. Len(catalog)
           /\ \A i \in DOMAIN catalog : catalog[i] \in CatalogDocs
           /\ observed \in Seq(TargetDocs) /\ Len(observed) \in Nat /\ DOMAIN observed = 1 .. Len(observed)
           /\ orderly \in BOOLEAN
BY DEF CatalogInv, CatalogTypes, CatalogIsOrderly

\* And one that begins.
LEMMA CatalogCallBegins ==
    ASSUME CatalogInv, NEW c \in CatalogCallers, CatalogBegins(c)
    PROVE  orderly' \in BOOLEAN /\ (orderly' => orderly /\ OthersEnded(c))
BY DEF CatalogInv, CatalogTypes, CatalogBegins, OthersEnded

LEMMA CreateServiceKeeps ==
    ASSUME CatalogInv, NEW c \in CatalogCallers, NEW service \in ServiceRequests, CreateService(c, service)
    PROVE  CatalogInv'
<1>1. PICK q : q = [NoCatalogCall EXCEPT !.phase = "insert", !.service = service]
  OBVIOUS
<1>2. q \in CatalogCallDocs /\ q.phase = "insert" /\ q.service = service /\ service \in CatalogDocs
  BY <1>1, NoCatalogCallFits, CatalogInputs DEF CatalogCallDocs
<1>3. CmdbIsFree(service, 0)
  BY DEF CreateService, ensureUnique, CmdbIsFree
<1>4. CatalogCallFits(q) /\ CatalogCallKnows(q)
  BY <1>2, <1>3 DEF CatalogCallFits, CatalogCallKnows, SyncPhases
<1>5. orderly' \in BOOLEAN /\ (orderly' => orderly /\ OthersEnded(c))
  BY CatalogCallBegins DEF CreateService
<1>6. CatalogStep(c, q) /\ UNCHANGED <<catalog, observed>>
  BY <1>1 DEF CreateService
<1> QED
  BY <1>2, <1>4, <1>5, <1>6, OneCallMoves

\* A service whose name is new is appended.
LEMMA ServiceAppended ==
    ASSUME CatalogInv, NEW s \in CatalogDocs, catalog' = Append(catalog, s), observed' = observed,
           ~NameIsTaken(s)
    PROVE  /\ catalog' \in Seq(CatalogDocs) /\ observed' \in Seq(TargetDocs)
           /\ DOMAIN catalog' = 1 .. Len(catalog) + 1 /\ catalog'[Len(catalog) + 1] = s
           /\ \A i \in DOMAIN catalog : i \in DOMAIN catalog' /\ catalog'[i] = catalog[i]
           /\ ServicesStay /\ NamesAreUnique' /\ TargetsServe'
           /\ CmdbsAreUnique /\ CmdbIsFree(s, 0) => CmdbsAreUnique'
           /\ \A w : Served(w) => Served(w)'
           /\ TargetsAreUnique => TargetsAreUnique'
<1>1. catalog \in Seq(CatalogDocs) /\ Len(catalog) \in Nat /\ DOMAIN catalog = 1 .. Len(catalog)
      /\ observed \in Seq(TargetDocs)
  BY DEF CatalogInv, CatalogTypes
<1>2. /\ catalog' \in Seq(CatalogDocs) /\ DOMAIN catalog' = 1 .. Len(catalog) + 1
      /\ catalog'[Len(catalog) + 1] = s
      /\ \A i \in DOMAIN catalog : i \in DOMAIN catalog' /\ catalog'[i] = catalog[i]
  BY <1>1
<1>3. \A i \in DOMAIN catalog' : i \in DOMAIN catalog \/ i = Len(catalog) + 1
  BY <1>1, <1>2
<1>4. ServicesStay
  BY <1>2 DEF ServicesStay
<1>5. NamesAreUnique'
  BY <1>2, <1>3 DEF CatalogInv, NamesAreUnique, NameIsTaken
<1>6. TargetsServe'
  BY <1>2 DEF CatalogInv, TargetsServe
<1>7. CmdbsAreUnique /\ CmdbIsFree(s, 0) => CmdbsAreUnique'
  <2>1. 0 \notin DOMAIN catalog
    BY <1>1
  <2> QED
    BY <1>2, <1>3, <2>1 DEF CmdbsAreUnique, CmdbIsFree
<1>8. \A w : Served(w) => Served(w)'
  BY <1>2 DEF Served
<1>9. TargetsAreUnique => TargetsAreUnique'
  BY DEF TargetsAreUnique
<1> QED
  BY <1>1, <1>2, <1>4, <1>5, <1>6, <1>7, <1>8, <1>9

LEMMA InsertServiceKeeps ==
    ASSUME CatalogInv, NEW c \in CatalogCallers, InsertService(c)
    PROVE  CatalogInv'
<1>1. PICK q : q = catalogCalls[c]
  OBVIOUS
<1>2. q.phase = "insert" /\ q.service \in CatalogDocs /\ (orderly => CmdbIsFree(q.service, 0) /\ OthersEnded(c))
  BY <1>1, CatalogCallFacts DEF InsertService, CatalogCallFits, CatalogCallKnows
<1>3. PICK s \in CatalogDocs : s = q.service
  BY <1>2
<1>4. /\ catalog' = Append(catalog, s) /\ ~NameIsTaken(s)
      /\ CatalogStep(c, NoCatalogCall) /\ UNCHANGED <<observed, orderly>>
  BY <1>1, <1>3 DEF InsertService
<1>5. /\ catalog' \in Seq(CatalogDocs) /\ observed' \in Seq(TargetDocs)
      /\ ServicesStay /\ NamesAreUnique' /\ TargetsServe'
      /\ CmdbsAreUnique /\ CmdbIsFree(s, 0) => CmdbsAreUnique'
      /\ TargetsAreUnique => TargetsAreUnique'
  BY <1>4, ServiceAppended
<1>6. synced' = <<>> /\ catalogCalls' = [catalogCalls EXCEPT ![c] = NoCatalogCall] /\ orderly' = orderly
  BY <1>4 DEF CatalogStep
<1>7. PICK p : p = NoCatalogCall
  OBVIOUS
<1>8. CatalogCallFits(p)' /\ CatalogCallKnows(p)' /\ p \in CatalogCallDocs
  BY <1>7, NoCatalogCallFits, EndedSaysNothing
<1>9. orderly => CmdbsAreUnique /\ TargetsAreUnique
  BY DEF CatalogInv, CatalogIsOrderly
<1>10. SyncedAreServed' /\ synced' \in Seq(WorkloadDocs)
  BY <1>6 DEF SyncedAreServed
<1>11. orderly' \in BOOLEAN /\ (orderly' => orderly /\ OthersEnded(c))
  BY <1>2, <1>6 DEF CatalogInv, CatalogTypes
<1> QED
  BY <1>2, <1>3, <1>5, <1>6, <1>7, <1>8, <1>9, <1>10, <1>11, OneCallSteps

LEMMA UpdateReadsKeeps ==
    ASSUME CatalogInv, NEW c \in CatalogCallers, NEW id \in DOMAIN catalog, NEW wanted \in ServiceRequests,
           UpdateReads(c, id, wanted)
    PROVE  CatalogInv'
<1>1. PICK s : s = applyUpdate(catalog[id], wanted)
  OBVIOUS
<1>2. catalog[id] \in CatalogDocs /\ wanted \in CatalogDocs /\ id \in Nat
  BY CatalogCallFacts, CatalogInputs
<1>3. s \in CatalogDocs /\ s.name = catalog[id].name
  BY <1>1, <1>2 DEF applyUpdate, CatalogDocs
<1>4. PICK q : q = [NoCatalogCall EXCEPT !.phase = "unique", !.id = id, !.service = s]
  OBVIOUS
<1>5. q \in CatalogCallDocs /\ q.phase = "unique" /\ q.id = id /\ q.service = s
  BY <1>2, <1>3, <1>4, NoCatalogCallFits DEF CatalogCallDocs
<1>6. CatalogCallFits(q) /\ CatalogCallKnows(q)
  BY <1>3, <1>5 DEF CatalogCallFits, CatalogCallKnows, SyncPhases
<1>7. orderly' \in BOOLEAN /\ (orderly' => orderly /\ OthersEnded(c))
  BY CatalogCallBegins DEF UpdateReads
<1>8. CatalogStep(c, q) /\ UNCHANGED <<catalog, observed>>
  BY <1>1, <1>4 DEF UpdateReads
<1> QED
  BY <1>5, <1>6, <1>7, <1>8, OneCallMoves

LEMMA UpdateServiceKeeps ==
    ASSUME CatalogInv, NEW c \in CatalogCallers, UpdateService(c)
    PROVE  CatalogInv'
<1>1. PICK q \in CatalogCallDocs : q = catalogCalls[c] /\ CatalogCallFits(q)
  BY CatalogCallFacts
<1>2. q.phase = "unique" /\ ~ensureUnique(q.service, q.id) /\ UNCHANGED <<catalog, observed, orderly>>
  BY <1>1 DEF UpdateService
<1>3. PICK p : p = [q EXCEPT !.phase = "write"]
  OBVIOUS
<1>4. p \in CatalogCallDocs /\ p.phase = "write" /\ p.id = q.id /\ p.service = q.service
  BY <1>3 DEF CatalogCallDocs
<1>5. CatalogCallFits(p)
  BY <1>1, <1>2, <1>4 DEF CatalogCallFits, SyncPhases
<1>6. CmdbIsFree(q.service, q.id)
  BY <1>2 DEF ensureUnique, CmdbIsFree
<1>7. CatalogCallKnows(p)
  BY <1>4, <1>6 DEF CatalogCallKnows, SyncPhases
<1>8. orderly' \in BOOLEAN /\ (orderly' => orderly /\ OthersEnded(c))
  BY <1>1, <1>2, CatalogCallFacts
<1>9. CatalogStep(c, p)
  BY <1>1, <1>3 DEF UpdateService
<1> QED
  BY <1>2, <1>4, <1>5, <1>7, <1>8, <1>9, OneCallMoves

LEMMA DeleteServiceKeeps ==
    ASSUME CatalogInv, NEW c \in CatalogCallers, NEW id \in DOMAIN catalog, DeleteService(c, id)
    PROVE  CatalogInv'
<1>1. PICK s : s = [catalog[id] EXCEPT !.status = "deleted"]
  OBVIOUS
<1>2. catalog[id] \in CatalogDocs /\ id \in Nat
  BY CatalogCallFacts
<1>3. s \in CatalogDocs /\ s.name = catalog[id].name /\ s.cmdb = catalog[id].cmdb
  BY <1>1, <1>2 DEF CatalogDocs
<1>4. PICK q : q = [NoCatalogCall EXCEPT !.phase = "write", !.id = id, !.service = s]
  OBVIOUS
<1>5. q \in CatalogCallDocs /\ q.phase = "write" /\ q.id = id /\ q.service = s
  BY <1>2, <1>3, <1>4, NoCatalogCallFits DEF CatalogCallDocs
<1>6. CatalogCallFits(q)
  BY <1>3, <1>5 DEF CatalogCallFits, SyncPhases
<1>7. orderly => CmdbsAreUnique
  BY DEF CatalogInv, CatalogIsOrderly
<1>8. orderly => CatalogCallKnows(q)
  BY <1>3, <1>5, <1>7 DEF CatalogCallKnows, CmdbIsFree, CmdbsAreUnique, SyncPhases
<1>9. orderly' \in BOOLEAN /\ (orderly' => orderly /\ OthersEnded(c))
  BY CatalogCallBegins DEF DeleteService
<1>10. CatalogStep(c, q) /\ UNCHANGED <<catalog, observed>>
  BY <1>1, <1>4 DEF DeleteService
<1> QED
  BY <1>5, <1>6, <1>8, <1>9, <1>10, OneCallMoves

LEMMA WriteServiceKeeps ==
    ASSUME CatalogInv, NEW c \in CatalogCallers, WriteService(c)
    PROVE  CatalogInv'
<1>1. PICK q \in CatalogCallDocs : q = catalogCalls[c]
  BY CatalogCallFacts
<1>2. /\ q.phase = "write" /\ catalog' = [catalog EXCEPT ![q.id] = q.service]
      /\ CatalogStep(c, NoCatalogCall) /\ UNCHANGED <<observed, orderly>>
  BY <1>1 DEF WriteService
<1>3. /\ q.service \in CatalogDocs /\ q.id \in DOMAIN catalog /\ q.service.name = catalog[q.id].name
      /\ orderly => CmdbIsFree(q.service, q.id) /\ OthersEnded(c)
  BY <1>1, <1>2, CatalogCallFacts DEF CatalogCallFits, CatalogCallKnows
<1>4. catalog \in Seq(CatalogDocs) /\ observed \in Seq(TargetDocs)
  BY CatalogCallFacts
<1>5. /\ catalog' \in Seq(CatalogDocs) /\ DOMAIN catalog' = DOMAIN catalog
      /\ \A i \in DOMAIN catalog : catalog'[i] = IF i = q.id THEN q.service ELSE catalog[i]
  BY <1>2, <1>3, <1>4
<1>6. \A i \in DOMAIN catalog : catalog'[i].name = catalog[i].name
  BY <1>3, <1>5
<1>7. ServicesStay /\ NamesAreUnique' /\ TargetsServe'
  BY <1>2, <1>5, <1>6 DEF CatalogInv, ServicesStay, NamesAreUnique, TargetsServe
<1>8. orderly => CmdbsAreUnique'
  <2>1. orderly => CmdbsAreUnique
    BY DEF CatalogInv, CatalogIsOrderly
  <2> QED
    BY <1>3, <1>5, <2>1 DEF CmdbsAreUnique, CmdbIsFree
<1>9. orderly => TargetsAreUnique'
  BY <1>2 DEF CatalogInv, CatalogIsOrderly, TargetsAreUnique
<1>10. synced' = <<>> /\ catalogCalls' = [catalogCalls EXCEPT ![c] = NoCatalogCall] /\ orderly' = orderly
  BY <1>2 DEF CatalogStep
<1>11. PICK p : p = NoCatalogCall
  OBVIOUS
<1>12. CatalogCallFits(p)' /\ CatalogCallKnows(p)' /\ p \in CatalogCallDocs
  BY <1>11, NoCatalogCallFits, EndedSaysNothing
<1>13. SyncedAreServed' /\ synced' \in Seq(WorkloadDocs)
  BY <1>10 DEF SyncedAreServed
<1>14. orderly' \in BOOLEAN /\ observed' \in Seq(TargetDocs)
  BY <1>2, <1>4, CatalogCallFacts
<1> QED
  BY <1>3, <1>5, <1>7, <1>8, <1>9, <1>10, <1>11, <1>12, <1>13, <1>14, OneCallSteps

\* The workloads that are left, and the one in turn.
LEMMA WorkloadInTurn ==
    ASSUME NEW q \in CatalogCallDocs, q.rest # <<>>
    PROVE  /\ Head(q.rest) \in WorkloadDocs /\ Head(q.rest) = q.rest[1]
           /\ Tail(q.rest) \in Seq(WorkloadDocs) /\ Len(q.rest) \in Nat \ {0}
           /\ Len(Tail(q.rest)) = Len(q.rest) - 1
           /\ \A i \in 1 .. Len(q.rest) - 1 : Tail(q.rest)[i] = q.rest[i + 1]
           /\ Len(q.workloads) \in Nat
BY DEF CatalogCallDocs

LEMMA SyncKeeps ==
    ASSUME CatalogInv, NEW c \in CatalogCallers, NEW workloads \in WorkloadLists,
           SyncK8sNamespaceServices(c, workloads)
    PROVE  CatalogInv'
<1>1. PICK q : q = [NoCatalogCall EXCEPT !.phase = "sync", !.workloads = workloads, !.rest = workloads,
                                         !.listed = applyFilter]
  OBVIOUS
<1>2. workloads \in Seq(WorkloadDocs) /\ applyFilter \subseteq DOMAIN catalog /\ applyFilter \in SUBSET Nat
  BY CatalogInputs, CatalogCallFacts DEF applyFilter
<1>3. q \in CatalogCallDocs /\ q.phase = "sync" /\ q.workloads = workloads /\ q.rest = workloads /\ q.listed = applyFilter
  BY <1>1, <1>2, NoCatalogCallFits DEF CatalogCallDocs, SyncPhases
<1>4. CatalogCallFits(q)
  BY <1>2, <1>3 DEF CatalogCallFits, SyncPhases
<1>5. Len(workloads) \in Nat
  BY <1>2
<1>6. SyncGoesOn(q)
  BY <1>3, <1>5 DEF SyncGoesOn, SyncPlace
<1>7. CatalogCallKnows(q)
  BY <1>3, <1>6 DEF CatalogCallKnows, SyncPhases, applyFilter
<1>8. orderly' \in BOOLEAN /\ (orderly' => orderly /\ OthersEnded(c))
  BY CatalogCallBegins DEF SyncK8sNamespaceServices
<1>9. CatalogStep(c, q) /\ UNCHANGED <<catalog, observed>>
  BY <1>1 DEF SyncK8sNamespaceServices
<1> QED
  BY <1>3, <1>4, <1>7, <1>8, <1>9, OneCallMoves

LEMMA FindK8sServiceKeeps ==
    ASSUME CatalogInv, NEW c \in CatalogCallers, FindK8sService(c)
    PROVE  CatalogInv'
<1>1. PICK q \in CatalogCallDocs : q = catalogCalls[c] /\ CatalogCallFits(q) /\ (orderly => CatalogCallKnows(q))
  BY CatalogCallFacts
<1>2. PICK id \in q.listed : /\ q.phase = "sync" /\ q.rest # <<>>
                             /\ catalog[id].name = Head(q.rest).name
                             /\ CatalogStep(c, [q EXCEPT !.phase = "targets", !.id = id])
                             /\ UNCHANGED <<catalog, observed, orderly>>
  BY <1>1 DEF FindK8sService, Workload
<1>3. PICK p : p = [q EXCEPT !.phase = "targets", !.id = id]
  OBVIOUS
<1>4. id \in DOMAIN catalog /\ id \in Nat
  BY <1>1, <1>2 DEF CatalogCallFits, SyncPhases, CatalogCallDocs
<1>5. /\ p \in CatalogCallDocs /\ p.phase = "targets" /\ p.id = id /\ p.service = q.service
      /\ p.workloads = q.workloads /\ p.rest = q.rest /\ p.listed = q.listed
  BY <1>3, <1>4 DEF CatalogCallDocs, SyncPhases
<1>6. CatalogCallFits(p)
  BY <1>1, <1>2, <1>4, <1>5 DEF CatalogCallFits, SyncPhases
<1>7. orderly => CatalogCallKnows(p)
  BY <1>1, <1>2, <1>5 DEF CatalogCallKnows, SyncPhases, SyncGoesOn, SyncPlace
<1>8. orderly' \in BOOLEAN /\ (orderly' => orderly /\ OthersEnded(c))
  BY <1>1, <1>2, CatalogCallFacts
<1> QED
  BY <1>2, <1>3, <1>5, <1>6, <1>7, <1>8, OneCallMoves

LEMMA CreateK8sServiceKeeps ==
    ASSUME CatalogInv, NEW c \in CatalogCallers, CreateK8sService(c)
    PROVE  CatalogInv'
<1>1. PICK q \in CatalogCallDocs : q = catalogCalls[c] /\ CatalogCallFits(q) /\ (orderly => CatalogCallKnows(q))
  BY CatalogCallFacts
<1>2. /\ q.phase = "sync" /\ q.rest # <<>>
      /\ CatalogStep(c, [q EXCEPT !.phase = "syncInsert"])
      /\ UNCHANGED <<catalog, observed, orderly>>
  BY <1>1 DEF CreateK8sService
<1>3. PICK p : p = [q EXCEPT !.phase = "syncInsert"]
  OBVIOUS
<1>4. /\ p \in CatalogCallDocs /\ p.phase = "syncInsert" /\ p.service = q.service
      /\ p.workloads = q.workloads /\ p.rest = q.rest /\ p.listed = q.listed
  BY <1>3 DEF CatalogCallDocs, SyncPhases
<1>5. CatalogCallFits(p)
  BY <1>1, <1>2, <1>4 DEF CatalogCallFits, SyncPhases
<1>6. orderly => CatalogCallKnows(p)
  BY <1>1, <1>2, <1>4 DEF CatalogCallKnows, SyncPhases, SyncGoesOn, SyncPlace
<1>7. orderly' \in BOOLEAN /\ (orderly' => orderly /\ OthersEnded(c))
  BY <1>1, <1>2, CatalogCallFacts
<1> QED
  BY <1>2, <1>3, <1>4, <1>5, <1>6, <1>7, OneCallMoves

LEMMA InsertK8sServiceKeeps ==
    ASSUME CatalogInv, NEW c \in CatalogCallers, InsertK8sService(c)
    PROVE  CatalogInv'
<1>1. PICK q \in CatalogCallDocs : q = catalogCalls[c] /\ CatalogCallFits(q) /\ (orderly => CatalogCallKnows(q))
  BY CatalogCallFacts
<1>2. q.phase = "syncInsert" /\ q.rest # <<>>
  BY <1>1 DEF InsertK8sService, CatalogCallFits
<1>3. PICK w \in WorkloadDocs : w = Head(q.rest)
  BY <1>2, WorkloadInTurn
<1>4. PICK s \in CatalogDocs : s = ServiceFor(w) /\ s.name = w.name /\ s.cmdb = NoCmdb /\ s.status = "active"
  BY CatalogInputs
<1>5. PICK n \in Nat : n = Len(catalog) + 1
  BY CatalogCallFacts
<1>6. PICK p : p = [q EXCEPT !.phase = "targets", !.id = n, !.listed = q.listed \cup {n}]
  OBVIOUS
<1>7. /\ catalog' = Append(catalog, s) /\ ~NameIsTaken(s)
      /\ CatalogStep(c, p) /\ UNCHANGED <<observed, orderly>>
  BY <1>1, <1>3, <1>4, <1>5, <1>6 DEF InsertK8sService, Workload
<1>8. /\ catalog' \in Seq(CatalogDocs) /\ observed' \in Seq(TargetDocs)
      /\ DOMAIN catalog' = 1 .. Len(catalog) + 1 /\ catalog'[Len(catalog) + 1] = s
      /\ \A i \in DOMAIN catalog : i \in DOMAIN catalog' /\ catalog'[i] = catalog[i]
      /\ ServicesStay /\ NamesAreUnique' /\ TargetsServe'
      /\ CmdbsAreUnique /\ CmdbIsFree(s, 0) => CmdbsAreUnique'
      /\ \A x : Served(x) => Served(x)'
      /\ TargetsAreUnique => TargetsAreUnique'
  BY <1>7, ServiceAppended
<1>9. CmdbIsFree(s, 0)
  BY <1>4 DEF CmdbIsFree
<1>10. orderly => CmdbsAreUnique' /\ TargetsAreUnique'
  BY <1>8, <1>9 DEF CatalogInv, CatalogIsOrderly
<1>11. q.listed \in SUBSET Nat /\ q.listed \subseteq DOMAIN catalog
  BY <1>1, <1>2 DEF CatalogCallFits, SyncPhases, CatalogCallDocs
<1>12. /\ p \in CatalogCallDocs /\ p.phase = "targets" /\ p.id = n /\ p.service = q.service
       /\ p.workloads = q.workloads /\ p.rest = q.rest /\ p.listed = q.listed \cup {n}
  BY <1>6, <1>11 DEF CatalogCallDocs, SyncPhases
<1>13. n \in DOMAIN catalog' /\ catalog'[n] = s
  BY <1>5, <1>8, CatalogCallFacts
<1>14. CatalogCallFits(p)'
  BY <1>2, <1>3, <1>4, <1>8, <1>11, <1>12, <1>13 DEF CatalogCallFits, SyncPhases
<1>15. ASSUME orderly PROVE CatalogCallKnows(p)'
  <2>1. (\A i \in q.listed : catalog[i].status # "deleted") /\ SyncGoesOn(q)
    BY <1>1, <1>2, <1>15 DEF CatalogCallKnows, SyncPhases
  <2>2. SyncGoesOn(p)'
    BY <1>8, <1>12, <2>1 DEF SyncGoesOn, SyncPlace
  <2>3. \A i \in p.listed : catalog'[i].status # "deleted"
    BY <1>4, <1>8, <1>11, <1>12, <1>13, <2>1
  <2> QED
    BY <1>4, <1>12, <1>13, <2>2, <2>3 DEF CatalogCallKnows, SyncPhases
<1>16. synced' = <<>> /\ catalogCalls' = [catalogCalls EXCEPT ![c] = p] /\ orderly' = orderly
  BY <1>7 DEF CatalogStep
<1>17. SyncedAreServed' /\ synced' \in Seq(WorkloadDocs)
  BY <1>16 DEF SyncedAreServed
<1>18. orderly' \in BOOLEAN /\ (orderly' => orderly /\ OthersEnded(c))
  BY <1>1, <1>2, <1>16, CatalogCallFacts
<1> QED
  BY <1>8, <1>10, <1>12, <1>14, <1>15, <1>16, <1>17, <1>18, OneCallSteps

\* The next workload is in turn: this one is added to those before the rest.
LEMMA NextInTurn ==
    ASSUME NEW q \in CatalogCallDocs, q.phase \in SyncPhases, q.rest # <<>>, SyncPlace(q),
           NEW p, p = NextWorkload(q)
    PROVE  /\ SyncPlace(p)
           /\ \A w \in 1 .. Len(p.workloads) - Len(p.rest) :
                  w \in 1 .. Len(q.workloads) - Len(q.rest) \/ p.workloads[w] = Head(q.rest)
<1>1. /\ Head(q.rest) \in WorkloadDocs /\ Head(q.rest) = q.rest[1]
      /\ Tail(q.rest) \in Seq(WorkloadDocs) /\ Len(q.rest) \in Nat \ {0}
      /\ Len(Tail(q.rest)) = Len(q.rest) - 1
      /\ \A i \in 1 .. Len(q.rest) - 1 : Tail(q.rest)[i] = q.rest[i + 1]
      /\ Len(q.workloads) \in Nat
  BY WorkloadInTurn
<1>2. p.workloads = q.workloads /\ p.rest = Tail(q.rest)
  BY DEF NextWorkload, CatalogCallDocs
<1>3. PICK n, m : n = Len(q.workloads) /\ m = Len(q.rest)
  OBVIOUS
<1>4. /\ n \in Nat /\ m \in Nat /\ m > 0 /\ m <= n
      /\ \A i \in 1 .. m : q.rest[i] = q.workloads[n - m + i]
  <2>1. m <= n
    BY <1>3 DEF SyncPlace
  <2>2. \A i \in 1 .. m : q.rest[i] = q.workloads[n - m + i]
    BY <1>3 DEF SyncPlace
  <2>3. n \in Nat /\ m \in Nat \ {0}
    BY <1>1, <1>3
  <2> QED
    BY <2>1, <2>2, <2>3
<1>5. Len(p.rest) = m - 1 /\ Len(p.workloads) = n
  BY <1>1, <1>2, <1>3
<1>6. q.workloads[n - m + 1] = Head(q.rest)
  <2>1. 1 \in 1 .. m
    BY <1>4
  <2>2. q.rest[1] = q.workloads[n - m + 1]
    BY <1>4, <2>1
  <2> QED
    BY <1>1, <2>2
<1>7. \A w \in 1 .. n - (m - 1) : w \in 1 .. n - m \/ w = n - m + 1
  BY <1>4
<1>8. \A i \in 1 .. m - 1 : Tail(q.rest)[i] = q.workloads[n - (m - 1) + i]
  <2>1. \A i \in 1 .. m - 1 : i + 1 \in 1 .. m /\ n - m + (i + 1) = n - (m - 1) + i
    BY <1>4
  <2> QED
    BY <1>1, <1>3, <1>4, <2>1
<1>9. \A i \in 1 .. Len(p.rest) : p.rest[i] = p.workloads[Len(p.workloads) - Len(p.rest) + i]
  BY <1>2, <1>5, <1>8
<1>10. Len(p.rest) <= Len(p.workloads)
  BY <1>4, <1>5
<1>11. \A w \in 1 .. Len(p.workloads) - Len(p.rest) :
           w \in 1 .. Len(q.workloads) - Len(q.rest) \/ p.workloads[w] = Head(q.rest)
  BY <1>2, <1>3, <1>5, <1>6, <1>7
<1> QED
  BY <1>9, <1>10, <1>11 DEF SyncPlace

LEMMA NextWorkloadDoes ==
    ASSUME NEW q \in CatalogCallDocs, q.rest # <<>>, NEW p, p = NextWorkload(q)
    PROVE  p \in CatalogCallDocs /\ p.phase = "sync" /\ p.listed = q.listed /\ p.workloads = q.workloads
<1>1. Tail(q.rest) \in Seq(WorkloadDocs)
  BY WorkloadInTurn
<1> QED
  BY <1>1 DEF NextWorkload, CatalogCallDocs, SyncPhases

LEMMA ListTargetsKeeps ==
    ASSUME CatalogInv, NEW c \in CatalogCallers, ListTargets(c)
    PROVE  CatalogInv'
<1>1. PICK q \in CatalogCallDocs : q = catalogCalls[c] /\ CatalogCallFits(q) /\ (orderly => CatalogCallKnows(q))
  BY CatalogCallFacts
<1>2. /\ q.phase = "targets"
      /\ CatalogStep(c, IF IsTarget(TargetOf(q.id, Head(q.rest))) THEN NextWorkload(q)
                        ELSE [q EXCEPT !.phase = "target"])
      /\ UNCHANGED <<catalog, observed, orderly>>
  BY <1>1 DEF ListTargets, Workload
<1>3. q.rest # <<>> /\ q.id \in DOMAIN catalog /\ catalog[q.id].name = Head(q.rest).name
      /\ q.listed \subseteq DOMAIN catalog
  BY <1>1, <1>2 DEF CatalogCallFits, SyncPhases
<1>4. orderly' \in BOOLEAN /\ (orderly' => orderly /\ OthersEnded(c))
  BY <1>1, <1>2, CatalogCallFacts
<1>5. orderly => /\ catalog[q.id].status # "deleted" /\ SyncGoesOn(q)
                 /\ \A i \in q.listed : catalog[i].status # "deleted"
  BY <1>1, <1>2 DEF CatalogCallKnows, SyncPhases
<1>6. CASE IsTarget(TargetOf(q.id, Head(q.rest)))
  <2>1. PICK p : p = NextWorkload(q)
    OBVIOUS
  <2>2. p \in CatalogCallDocs /\ p.phase = "sync" /\ p.listed = q.listed /\ p.workloads = q.workloads
    BY <1>3, <2>1, NextWorkloadDoes
  <2>3. CatalogCallFits(p)
    BY <1>3, <2>2 DEF CatalogCallFits, SyncPhases
  <2>4. ASSUME orderly PROVE CatalogCallKnows(p)
    <3>1. Served(Head(q.rest))
      BY <1>3, <1>5, <1>6, <2>4 DEF Served, IsTarget, TargetOf
    <3>2. /\ SyncPlace(p)
          /\ \A w \in 1 .. Len(p.workloads) - Len(p.rest) :
                 w \in 1 .. Len(q.workloads) - Len(q.rest) \/ p.workloads[w] = Head(q.rest)
      BY <1>2, <1>3, <1>5, <2>1, <2>4, NextInTurn DEF SyncGoesOn, SyncPhases
    <3>3. SyncGoesOn(p)
      BY <1>5, <2>2, <2>4, <3>1, <3>2 DEF SyncGoesOn
    <3> QED
      BY <1>5, <2>2, <2>4, <3>3 DEF CatalogCallKnows, SyncPhases
  <2>5. CatalogStep(c, p)
    BY <1>2, <1>6, <2>1
  <2> QED
    BY <1>2, <1>4, <2>2, <2>3, <2>4, <2>5, OneCallMoves
<1>7. CASE ~IsTarget(TargetOf(q.id, Head(q.rest)))
  <2>1. PICK p : p = [q EXCEPT !.phase = "target"]
    OBVIOUS
  <2>2. /\ p \in CatalogCallDocs /\ p.phase = "target" /\ p.id = q.id /\ p.service = q.service
        /\ p.workloads = q.workloads /\ p.rest = q.rest /\ p.listed = q.listed
    BY <2>1 DEF CatalogCallDocs, SyncPhases
  <2>3. CatalogCallFits(p)
    BY <1>3, <2>2 DEF CatalogCallFits, SyncPhases
  <2>4. orderly => CatalogCallKnows(p)
    BY <1>5, <1>7, <2>2 DEF CatalogCallKnows, SyncPhases, SyncGoesOn, SyncPlace
  <2>5. CatalogStep(c, p)
    BY <1>2, <1>7, <2>1
  <2> QED
    BY <1>2, <1>4, <2>2, <2>3, <2>4, <2>5, OneCallMoves
<1> QED
  BY <1>6, <1>7

LEMMA EnsureTargetKeeps ==
    ASSUME CatalogInv, NEW c \in CatalogCallers, ensureK8sServiceTarget(c)
    PROVE  CatalogInv'
<1>1. PICK q \in CatalogCallDocs : q = catalogCalls[c] /\ CatalogCallFits(q) /\ (orderly => CatalogCallKnows(q))
  BY CatalogCallFacts
<1>2. q.phase = "target" /\ UNCHANGED <<catalog, orderly>>
  BY <1>1 DEF ensureK8sServiceTarget
<1>3. q.rest # <<>> /\ q.id \in DOMAIN catalog /\ catalog[q.id].name = Head(q.rest).name
      /\ q.listed \subseteq DOMAIN catalog /\ q.id \in Nat
  BY <1>1, <1>2 DEF CatalogCallFits, SyncPhases, CatalogCallDocs
<1>4. PICK w \in WorkloadDocs : w = Head(q.rest)
  BY <1>3, WorkloadInTurn
<1>5. PICK t \in TargetDocs : t = TargetOf(q.id, w) /\ t.service = q.id /\ t.kind = w.kind /\ t.name = w.name
  BY <1>3, CatalogInputs DEF TargetOf
<1>6. PICK p : p = NextWorkload(q)
  OBVIOUS
<1>7. observed' = Append(observed, t) /\ CatalogStep(c, p)
  BY <1>1, <1>4, <1>5, <1>6 DEF ensureK8sServiceTarget, Workload
<1>8. /\ observed \in Seq(TargetDocs) /\ Len(observed) \in Nat /\ DOMAIN observed = 1 .. Len(observed)
      /\ catalog \in Seq(CatalogDocs)
  BY CatalogCallFacts
<1>9. /\ observed' \in Seq(TargetDocs) /\ DOMAIN observed' = 1 .. Len(observed) + 1
      /\ observed'[Len(observed) + 1] = t
      /\ \A i \in DOMAIN observed : i \in DOMAIN observed' /\ observed'[i] = observed[i]
  BY <1>7, <1>8
<1>10. \A i \in DOMAIN observed' : i \in DOMAIN observed \/ i = Len(observed) + 1
  BY <1>8, <1>9
<1>11. NamesAreUnique' /\ ServicesStay
  BY <1>2 DEF CatalogInv, NamesAreUnique, ServicesStay
<1>12. TargetsServe'
  BY <1>2, <1>3, <1>4, <1>5, <1>9, <1>10 DEF CatalogInv, TargetsServe
<1>13. p \in CatalogCallDocs /\ p.phase = "sync" /\ p.listed = q.listed /\ p.workloads = q.workloads
  BY <1>3, <1>6, NextWorkloadDoes
<1>14. CatalogCallFits(p)'
  BY <1>2, <1>3, <1>13 DEF CatalogCallFits, SyncPhases
<1>15. orderly' \in BOOLEAN /\ (orderly' => orderly /\ OthersEnded(c))
  BY <1>1, <1>2, CatalogCallFacts
<1>16. synced' = <<>> /\ catalogCalls' = [catalogCalls EXCEPT ![c] = p]
  BY <1>7 DEF CatalogStep
<1>17. SyncedAreServed' /\ synced' \in Seq(WorkloadDocs)
  BY <1>16 DEF SyncedAreServed
<1>18. ASSUME orderly PROVE CmdbsAreUnique' /\ TargetsAreUnique' /\ CatalogCallKnows(p)'
  <2>1. CmdbsAreUnique /\ TargetsAreUnique
    BY <1>18 DEF CatalogInv, CatalogIsOrderly
  <2>2. /\ catalog[q.id].status # "deleted" /\ SyncGoesOn(q) /\ ~IsTarget(t)
        /\ \A i \in q.listed : catalog[i].status # "deleted"
    BY <1>1, <1>2, <1>4, <1>5, <1>18 DEF CatalogCallKnows, SyncPhases
  <2>3. CmdbsAreUnique'
    BY <1>2, <2>1 DEF CmdbsAreUnique
  <2>4. TargetsAreUnique'
    BY <1>9, <1>10, <2>1, <2>2 DEF TargetsAreUnique, IsTarget
  <2>5. \A x : Served(x) => Served(x)'
    BY <1>2, <1>9 DEF Served
  <2>6. Served(w)'
    <3>1. q.id \in DOMAIN catalog' /\ catalog'[q.id].status # "deleted" /\ catalog'[q.id].name = w.name
      BY <1>2, <1>3, <1>4, <2>2
    <3>2. Len(observed) + 1 \in DOMAIN observed'
      BY <1>8, <1>9
    <3> QED
      BY <1>5, <1>9, <3>1, <3>2 DEF Served
  <2>7. /\ SyncPlace(p)
        /\ \A i \in 1 .. Len(p.workloads) - Len(p.rest) :
               i \in 1 .. Len(q.workloads) - Len(q.rest) \/ p.workloads[i] = w
    BY <1>2, <1>3, <1>4, <1>6, <2>2, NextInTurn DEF SyncGoesOn, SyncPhases
  <2>8. \A i \in 1 .. Len(p.workloads) - Len(p.rest) : Served(p.workloads[i])'
    BY <1>13, <2>2, <2>5, <2>6, <2>7 DEF SyncGoesOn
  <2>9. SyncPlace(p)'
    BY <2>7 DEF SyncPlace
  <2>10. SyncGoesOn(p)'
    BY <2>8, <2>9 DEF SyncGoesOn
  <2>11. CatalogCallKnows(p)'
    BY <1>2, <1>13, <2>2, <2>10 DEF CatalogCallKnows, SyncPhases
  <2> QED
    BY <2>3, <2>4, <2>11
<1> QED
  BY <1>2, <1>8, <1>9, <1>11, <1>12, <1>13, <1>14, <1>15, <1>16, <1>17, <1>18, OneCallSteps

LEMMA AnswerSyncKeeps ==
    ASSUME CatalogInv, NEW c \in CatalogCallers, AnswerSync(c)
    PROVE  CatalogInv'
<1>1. PICK q \in CatalogCallDocs : q = catalogCalls[c] /\ CatalogCallFits(q) /\ (orderly => CatalogCallKnows(q))
  BY CatalogCallFacts
<1>2. PICK p : p = NoCatalogCall
  OBVIOUS
<1>3. /\ q.phase = "sync" /\ q.rest = <<>> /\ UNCHANGED <<catalog, observed, orderly>>
      /\ catalogCalls' = [catalogCalls EXCEPT ![c] = p] /\ synced' = q.workloads
  BY <1>1, <1>2 DEF AnswerSync
<1>4. CatalogCallFits(p)' /\ CatalogCallKnows(p)' /\ p \in CatalogCallDocs
  BY <1>2, NoCatalogCallFits, EndedSaysNothing
<1>5. catalog' \in Seq(CatalogDocs) /\ observed' \in Seq(TargetDocs) /\ synced' \in Seq(WorkloadDocs)
  BY <1>1, <1>3, CatalogCallFacts DEF CatalogCallDocs
<1>6. ServicesStay /\ NamesAreUnique' /\ TargetsServe'
  BY <1>3 DEF CatalogInv, ServicesStay, NamesAreUnique, TargetsServe
<1>7. orderly => CmdbsAreUnique' /\ TargetsAreUnique'
  BY <1>3 DEF CatalogInv, CatalogIsOrderly, CmdbsAreUnique, TargetsAreUnique
<1>8. ASSUME orderly PROVE SyncedAreServed'
  <2>1. \A w \in 1 .. Len(q.workloads) - Len(q.rest) : Served(q.workloads[w])
    BY <1>1, <1>3, <1>8 DEF CatalogCallKnows, SyncPhases, SyncGoesOn
  <2>2. Len(q.rest) = 0 /\ Len(q.workloads) \in Nat /\ DOMAIN q.workloads = 1 .. Len(q.workloads)
    BY <1>3 DEF CatalogCallDocs
  <2>3. \A w \in DOMAIN q.workloads : Served(q.workloads[w])
    BY <2>1, <2>2
  <2>4. \A x : Served(x) => Served(x)'
    BY <1>3 DEF Served
  <2> QED
    BY <1>3, <2>3, <2>4 DEF SyncedAreServed
<1>9. orderly' \in BOOLEAN /\ (orderly' => orderly /\ OthersEnded(c))
  BY <1>1, <1>3, CatalogCallFacts
<1> QED
  BY <1>3, <1>4, <1>5, <1>6, <1>7, <1>8, <1>9, OneCallSteps

LEMMA CatalogCallFailsKeeps ==
    ASSUME CatalogInv, NEW c \in CatalogCallers, CatalogCallFails(c)
    PROVE  CatalogInv'
<1>1. PICK p : p = NoCatalogCall
  OBVIOUS
<1>2. CatalogStep(c, p) /\ UNCHANGED <<catalog, observed, orderly>> /\ catalogCalls[c].phase # "ended"
  BY <1>1 DEF CatalogCallFails
<1>3. CatalogCallFits(p) /\ CatalogCallKnows(p) /\ p \in CatalogCallDocs
  BY <1>1, NoCatalogCallFits, EndedSaysNothing
<1>4. orderly' \in BOOLEAN /\ (orderly' => orderly /\ OthersEnded(c))
  BY <1>2, CatalogCallFacts
<1> QED
  BY <1>2, <1>3, <1>4, OneCallMoves

LEMMA CatalogSteps == CatalogInv /\ [CatalogNext]_catalogVars => CatalogInv'
<1> SUFFICES ASSUME CatalogInv, [CatalogNext]_catalogVars PROVE CatalogInv'
  OBVIOUS
<1>1. ASSUME NEW c \in CatalogCallers, NEW service \in ServiceRequests, CreateService(c, service)
      PROVE  CatalogInv'
  BY <1>1, CreateServiceKeeps
<1>2. ASSUME NEW c \in CatalogCallers, NEW id \in DOMAIN catalog, NEW wanted \in ServiceRequests,
             UpdateReads(c, id, wanted)
      PROVE  CatalogInv'
  BY <1>2, UpdateReadsKeeps
<1>3. ASSUME NEW c \in CatalogCallers, NEW id \in DOMAIN catalog, DeleteService(c, id)
      PROVE  CatalogInv'
  BY <1>3, DeleteServiceKeeps
<1>4. ASSUME NEW c \in CatalogCallers, NEW workloads \in WorkloadLists, SyncK8sNamespaceServices(c, workloads)
      PROVE  CatalogInv'
  BY <1>4, SyncKeeps
<1>5. ASSUME NEW c \in CatalogCallers, InsertService(c) \/ UpdateService(c) \/ WriteService(c)
      PROVE  CatalogInv'
  BY <1>5, InsertServiceKeeps, UpdateServiceKeeps, WriteServiceKeeps
<1>6. ASSUME NEW c \in CatalogCallers, FindK8sService(c) \/ CreateK8sService(c) \/ InsertK8sService(c)
      PROVE  CatalogInv'
  BY <1>6, FindK8sServiceKeeps, CreateK8sServiceKeeps, InsertK8sServiceKeeps
<1>7. ASSUME NEW c \in CatalogCallers,
             ListTargets(c) \/ ensureK8sServiceTarget(c) \/ AnswerSync(c) \/ CatalogCallFails(c)
      PROVE  CatalogInv'
  BY <1>7, ListTargetsKeeps, EnsureTargetKeeps, AnswerSyncKeeps, CatalogCallFailsKeeps
<1>8. CASE UNCHANGED catalogVars
  <2>1. UNCHANGED <<catalog, observed, catalogCalls, synced, orderly>>
    BY <1>8 DEF catalogVars
  <2>2. CatalogTypes' /\ NamesAreUnique' /\ TargetsServe'
    BY <2>1 DEF CatalogInv, CatalogTypes, NamesAreUnique, TargetsServe
  <2>3. \A q : CatalogCallFits(q) => CatalogCallFits(q)'
    BY <2>1 DEF CatalogCallFits
  <2>4. \A w : Served(w) => Served(w)'
    BY <2>1 DEF Served
  <2>5. \A q : CatalogCallKnows(q) => CatalogCallKnows(q)'
    BY <2>1, <2>4 DEF CatalogCallKnows, CmdbIsFree, SyncGoesOn, SyncPlace, IsTarget, TargetOf
  <2>6. CatalogIsOrderly => CatalogIsOrderly'
    BY <2>1, <2>4, <2>5 DEF CatalogIsOrderly, CmdbsAreUnique, TargetsAreUnique, SyncedAreServed, OthersEnded
  <2>7. \A c \in CatalogCallers : CatalogCallFits(catalogCalls[c])'
    BY <2>1, <2>3 DEF CatalogInv
  <2> QED
    BY <2>1, <2>2, <2>6, <2>7 DEF CatalogInv
<1> QED
  BY <1>1, <1>2, <1>3, <1>4, <1>5, <1>6, <1>7, <1>8 DEF CatalogNext

LEMMA CatalogStarts == CatalogInit => CatalogInv
<1> SUFFICES ASSUME CatalogInit PROVE CatalogInv
  OBVIOUS
<1>1. catalog = <<>> /\ observed = <<>> /\ synced = <<>> /\ orderly = TRUE
      /\ catalogCalls = [c \in CatalogCallers |-> NoCatalogCall]
  BY DEF CatalogInit
<1>2. CatalogTypes
  BY <1>1, NoCatalogCallFits DEF CatalogTypes
<1>3. NamesAreUnique /\ TargetsServe /\ CmdbsAreUnique /\ TargetsAreUnique /\ SyncedAreServed
  BY <1>1 DEF NamesAreUnique, TargetsServe, CmdbsAreUnique, TargetsAreUnique, SyncedAreServed
<1>4. ASSUME NEW c \in CatalogCallers
      PROVE  /\ catalogCalls[c].phase = "ended"
             /\ CatalogCallFits(catalogCalls[c]) /\ CatalogCallKnows(catalogCalls[c])
  BY <1>1, NoCatalogCallFits, EndedSaysNothing
<1> QED
  BY <1>2, <1>3, <1>4 DEF CatalogInv, CatalogIsOrderly

(******************************************************************************)
(* For any callers, services and lists of workloads: names stay unique and    *)
(* targets stay with the service of their name whatever calls overlap; while  *)
(* none have, identifiers of the CMDB are unique too, and a synchronisation   *)
(* that was answered leaves each workload with a live service and one target. *)
(******************************************************************************)
THEOREM CatalogIsRight == CatalogSpec => []CatalogIsSound
<1>1. CatalogInv => IdentitiesAreUnique
  BY DEF CatalogInv, NamesAreUnique, CatalogIsOrderly, CmdbsAreUnique, IdentitiesAreUnique
<1>2. CatalogInv => SyncedWorkloadsAreServed
  BY DEF CatalogInv, TargetsServe, CatalogIsOrderly, TargetsAreUnique, SyncedAreServed, Served,
         SyncedWorkloadsAreServed
<1> QED
  BY <1>1, <1>2, CatalogStarts, CatalogSteps, PTL DEF CatalogSpec, CatalogIsSound

-------------------------------------------------------------------------------
(*******************************************************************************)
(* Stores.  The traits of the two policies of a collection differ only where   *)
(* the actions name a difference; a call that meets none leaves the two tables *)
(* alike.  Documents addressed by their owner may keep different IDs.          *)
(*******************************************************************************)
\* Collections whose upsert in MongoDB keeps the ID of the document it finds.
KeepingIDs == {"patches", "artifacts"}

KeysOf(table) == {s.key : s \in table}
IDsOf(table) == {s.id : s \in table}

TablesAlike(inMemory, inMongo) ==
    IF collection \in KeepingIDs THEN KeysOf(inMemory) = KeysOf(inMongo) ELSE inMemory = inMongo

\* A table of documents that have each an ID of their own.
IsTable(table) ==
    /\ table \in SUBSET StoreDocs
    /\ IsFiniteSet(table)
    /\ \A s, t \in table : s.id = t.id => s = t

StoresInv ==
    /\ collection \in Collections
    /\ comparable =>
           /\ IsTable(memory)
           /\ IDsOf(memory) \subseteq issued
           /\ collection \in Updated \ Deleted => issued \subseteq IDsOf(memory)
           /\ mongo \in SUBSET StoreDocs
           /\ TablesAlike(memory, mongo)
           /\ answers.memory = answers.mongo

-------------------------------------------------------------------------------
\* Traits

\* A key is unique in both stores or in neither, and refused alike, but for the three
\* collections that InsertDocument names.
InsertTraits ==
    /\ collection \notin KeepingIDs
    /\ collection \notin {"services", "releases", "resourceBindings"} =>
           /\ "distinct" \in P.memory <=> "distinct" \in P.mongo
           /\ "distinct" \in P.memory => "says" \in P.memory /\ "says" \in P.mongo
    /\ "folds" \in P.memory => collection = "products"
    /\ "folds" \notin P.mongo

LEMMA InsertTraitsHold == ASSUME collection \in Inserted PROVE InsertTraits
BY DEF InsertTraits, KeepingIDs, Inserted, P, Policies, Both, InMemory!Products,
       InMongo!Products, InMemory!Services, InMongo!Services, InMemory!ServiceTargets,
       InMongo!ServiceTargets, InMemory!CollectorGroups, InMongo!CollectorGroups,
       InMemory!CollectorConfigVersions, InMongo!CollectorConfigVersions,
       InMemory!PlatformTemplates, InMongo!PlatformTemplates, InMemory!LogEndpoints,
       InMongo!LogEndpoints, InMemory!VMEndpoints, InMongo!VMEndpoints, InMemory!LogTargets,
       InMongo!LogTargets, InMemory!MetricsIntegrations, InMongo!MetricsIntegrations,
       InMemory!MetricsAccesses, InMongo!MetricsAccesses, InMemory!MetricsReleases,
       InMongo!MetricsReleases, InMemory!MetricsSnapshots, InMongo!MetricsSnapshots,
       InMemory!AuditEvents, InMongo!AuditEvents, InMemory!Environments, InMongo!Environments,
       InMemory!EnvironmentBindings, InMongo!EnvironmentBindings, InMemory!History,
       InMongo!History, InMongo!Fresh, InMongo!Checked, InMongo!Indexed,
       InMongo!CatalogIndexes, InMongo!EnvironmentIndexes, InMongo!LogIndexes,
       InMongo!MetricsIndexes, InMemory!Assigns

\* What can be deleted is refused alike when it is missing; only MongoDB looks at keys.
UpdateTraits ==
    /\ collection \notin KeepingIDs
    /\ collection \in Deleted =>
           \A trait \in {"creates", "silent"} : trait \notin P.memory /\ trait \notin P.mongo
    /\ "indexed" \notin P.memory
    /\ "mergesUpdate" \notin P.memory

LEMMA UpdateTraitsHold == ASSUME collection \in Updated PROVE UpdateTraits
BY DEF UpdateTraits, KeepingIDs, Updated, Deleted, P, Policies, Both, InMemory!Products,
       InMongo!Products, InMemory!Services, InMongo!Services, InMemory!ServiceTargets,
       InMongo!ServiceTargets, InMemory!CollectorGroups, InMongo!CollectorGroups,
       InMemory!CollectorInstances, InMongo!CollectorInstances, InMemory!PlatformTemplates,
       InMongo!PlatformTemplates, InMemory!LogEndpoints, InMongo!LogEndpoints,
       InMemory!LogRoutes, InMongo!LogRoutes, InMemory!VMEndpoints, InMongo!VMEndpoints,
       InMemory!LogTargets, InMongo!LogTargets, InMemory!MetricsIntegrations,
       InMongo!MetricsIntegrations, InMemory!MetricsAccesses, InMongo!MetricsAccesses,
       InMemory!MetricsReleases, InMongo!MetricsReleases, InMemory!Environments,
       InMongo!Environments, InMongo!Fresh, InMongo!Checked, InMongo!Indexed,
       InMongo!CatalogIndexes, InMongo!EnvironmentIndexes, InMongo!LogIndexes,
       InMongo!MetricsIndexes, InMemory!Assigns

\* Documents are addressed by their ID in both stores, an instance by its ID or its key, what
\* has an owner by its owner.
UpsertTraits ==
    /\ "evicts" \notin P.mongo
    /\ "mergesUpsert" \notin P.memory
    /\ collection \notin Owned \cup {"instances"} =>
           \A trait \in {"byKey", "either", "evicts", "setsID", "keepsID"} :
               trait \notin P.memory /\ trait \notin P.mongo
    /\ collection = "instances" =>
           /\ "either" \in P.memory /\ "evicts" \in P.memory /\ "byKey" \notin P.memory
           /\ "either" \in P.mongo
           /\ \A trait \in {"byKey", "setsID", "keepsID"} : trait \notin P.mongo
    /\ collection \in Owned =>
           /\ "byKey" \in P.memory /\ "evicts" \in P.memory
           /\ "byKey" \in P.mongo
           /\ IF collection \in KeepingIDs
              THEN "keepsID" \in P.mongo /\ "setsID" \notin P.mongo
              ELSE "keepsID" \notin P.mongo /\ "setsID" \in P.mongo

LEMMA UpsertTraitsHold == ASSUME collection \in Upserted PROVE UpsertTraits
BY DEF UpsertTraits, KeepingIDs, Owned, Upserted, Inserted, Collections, P, Policies, Both,
       InMemory!CollectorInstances, InMongo!CollectorInstances, InMemory!GroupOverrides,
       InMongo!GroupOverrides, InMemory!ServicePatches, InMongo!ServicePatches,
       InMemory!IngestionIdentities, InMongo!IngestionIdentities, InMemory!Onboardings,
       InMongo!Onboardings, InMemory!LogSources, InMongo!LogSources, InMemory!LogRoutes,
       InMongo!LogRoutes, InMemory!LogArtifacts, InMongo!LogArtifacts, InMemory!ClusterConfigs,
       InMongo!ClusterConfigs, InMemory!Runtimes, InMongo!Runtimes, InMemory!RBAC,
       InMongo!RBAC, InMemory!IAM, InMongo!IAM, InMemory!Images, InMongo!Images,
       InMemory!Secrets, InMongo!Secrets, InMemory!Clusters, InMongo!Clusters,
       InMemory!Namespaces, InMongo!Namespaces, InMemory!Inventory, InMongo!Inventory,
       InMongo!Fresh, InMongo!Registry, InMemory!Registry

LEMMA DeleteTraitsHold ==
    ASSUME collection \in Deleted
    PROVE  collection \notin KeepingIDs /\ ("idempotent" \in P.memory <=> "idempotent" \in P.mongo)
BY DEF KeepingIDs, Deleted, P, Policies, Both, InMemory!CollectorInstances,
       InMongo!CollectorInstances, InMemory!LogRoutes, InMongo!LogRoutes, InMemory!VMEndpoints,
       InMongo!VMEndpoints, InMemory!MetricsIntegrations, InMongo!MetricsIntegrations,
       InMemory!MetricsAccesses, InMongo!MetricsAccesses, InMemory!RBAC, InMongo!RBAC,
       InMemory!IAM, InMongo!IAM, InMemory!EnvironmentBindings, InMongo!EnvironmentBindings,
       InMemory!Clusters, InMongo!Clusters, InMemory!Inventory, InMongo!Inventory,
       InMongo!Fresh, InMongo!Checked, InMongo!Registry, InMemory!Registry, InMongo!Indexed,
       InMongo!CatalogIndexes, InMongo!EnvironmentIndexes, InMongo!LogIndexes,
       InMongo!MetricsIndexes

-------------------------------------------------------------------------------
\* Steps

\* A table is one after a document was written over one, or none, of its documents.
LEMMA WritingKeepsTable ==
    ASSUME NEW table, IsTable(table), NEW kept \in SUBSET table, NEW d \in StoreDocs,
           \A s \in kept : s.id # d.id
    PROVE  IsTable(kept \cup {d})
<1>1. IsFiniteSet(kept) /\ IsFiniteSet(kept \cup {d})
  BY FS_Subset, FS_AddElement DEF IsTable
<1> QED
  BY <1>1 DEF IsTable

LEMMA SubsetIsTable ==
    ASSUME NEW table, IsTable(table), NEW kept \in SUBSET table
    PROVE  IsTable(kept)
BY FS_Subset DEF IsTable

\* When both stores can do one thing only, and it is the same, they stay alike.
LEMMA SameOutcomeKeepsStores ==
    ASSUME StoresInv, comparable, NEW A, NEW B, NEW known \in BOOLEAN, Answered(A, B, known),
           collection \notin KeepingIDs,
           NEW answer, NEW table, ~known => A = {Outcome(answer, table)} /\ B = A,
           IsTable(table),
           collection \in Updated \ Deleted => IDsOf(memory) \subseteq IDsOf(table)
    PROVE  StoresInv'
<1>1. collection' = collection /\ comparable' = ~known
  BY DEF Answered
<1>2. CASE known
  BY <1>1, <1>2 DEF StoresInv
<1>3. CASE ~known
  <2>1. /\ memory' = table /\ mongo' = table /\ answers' = Both(answer, answer)
        /\ issued' = issued \cup IDsOf(table)
    BY <1>3 DEF Answered, Outcome, IDsOf
  <2>2. answers'.memory = answers'.mongo
    BY <2>1 DEF Both
  <2>3. IsTable(memory)' /\ mongo' \in SUBSET StoreDocs'
    BY <1>1, <2>1 DEF IsTable, StoreDocs
  <2>4. TablesAlike(memory, mongo)'
    BY <1>1, <2>1 DEF TablesAlike
  <2>5. /\ IDsOf(memory)' \subseteq issued'
        /\ collection' \in Updated \ Deleted => issued' \subseteq IDsOf(memory)'
    BY <1>1, <2>1 DEF StoresInv, IDsOf
  <2> QED
    BY <1>1, <2>2, <2>3, <2>4, <2>5 DEF StoresInv
<1> QED
  BY <1>2, <1>3

LEMMA StoresInitHolds == StoresInit => StoresInv
BY FS_EmptySet DEF StoresInit, StoresInv, IsTable, IDsOf, KeysOf, TablesAlike, Both

\* Inserts are refused for the same keys, and in the same words.
LEMMA InsertKeepsStores ==
    ASSUME StoresInv, NEW d \in StoreDocs, InsertDocument(d)
    PROVE  StoresInv'
<1> DEFINE known == \/ collection \in {"services", "releases", "resourceBindings"} /\ Taken(d) # {}
                    \/ collection = "products" /\ \E s \in memory : s.key # d.key /\ Fold[s.key] = Fold[d.key]
           clash == Clashing(P.mongo, memory, d)
           table == IF clash # {} THEN memory ELSE memory \cup {d}
           answer == IF clash # {} THEN "conflict" ELSE "ok"
<1>1. /\ comparable /\ collection \in Inserted /\ d.id \notin issued
      /\ Answered(Insert(P.memory, memory, d), Insert(P.mongo, mongo, d), known)
  BY DEF InsertDocument
<1>2. InsertTraits
  BY <1>1, InsertTraitsHold
<1>3. IsTable(memory) /\ mongo = memory /\ IDsOf(memory) \subseteq issued
  BY <1>1, <1>2 DEF StoresInv, TablesAlike, InsertTraits
<1>4. \A s \in memory : s.id # d.id
  BY <1>1, <1>3 DEF IDsOf
<1>5. Others(memory, d) = memory
  BY <1>4 DEF Others
<1>6. ASSUME ~known
      PROVE  /\ Clashing(P.memory, memory, d) = clash
             /\ clash # {} => Refusal(P.memory, "says") = "conflict" /\ Refusal(P.mongo, "says") = "conflict"
  <2>1. CASE collection \in {"services", "releases", "resourceBindings"}
    <3>1. \A s \in memory : s.key # d.key
      BY <1>4, <1>6, <2>1 DEF Taken
    <3>2. clash = {} /\ Clashing(P.memory, memory, d) = {}
      BY <1>2, <1>4, <2>1, <3>1 DEF Clashing, InsertTraits
    <3> QED
      BY <3>2
  <2>2. CASE collection \notin {"services", "releases", "resourceBindings"}
    <3>1. "folds" \in P.memory => \A s \in memory : Fold[s.key] = Fold[d.key] => s.key = d.key
      BY <1>2, <1>6 DEF InsertTraits
    <3>2. Clashing(P.memory, memory, d) = clash
      BY <1>2, <1>4, <2>2, <3>1 DEF Clashing, InsertTraits
    <3>3. clash # {} => "distinct" \in P.memory
      BY <1>2, <1>4, <2>2 DEF Clashing, InsertTraits
    <3> QED
      BY <1>2, <2>2, <3>2, <3>3 DEF Refusal, InsertTraits
  <2> QED
    BY <2>1, <2>2
<1>7. ~known => /\ Insert(P.memory, memory, d) = {Outcome(answer, table)}
                /\ Insert(P.mongo, mongo, d) = Insert(P.memory, memory, d)
  BY <1>3, <1>5, <1>6 DEF Insert
<1>8. IsTable(table) /\ IDsOf(memory) \subseteq IDsOf(table)
  BY <1>3, <1>4, WritingKeepsTable DEF IDsOf
<1>9. collection \notin KeepingIDs
  BY <1>2 DEF InsertTraits
<1> HIDE DEF known, table, answer
<1>10. known \in BOOLEAN
  BY DEF known
<1> QED
  BY <1>1, <1>7, <1>8, <1>9, <1>10, SameOutcomeKeepsStores

\* One document at most has the ID of an update.
LEMMA UpdateKeepsStores ==
    ASSUME StoresInv, NEW d \in StoreDocs, UpdateDocument(d)
    PROVE  StoresInv'
<1> DEFINE known == \/ "indexed" \in P.mongo /\ Taken(d) # {}
                    \/ "mergesUpdate" \in P.mongo /\ SaysNot(d) # {}
           missing == At(memory, d) = {}
           table == IF missing THEN memory ELSE Others(memory, d) \cup {d}
           answer == IF missing THEN "notFound" ELSE "ok"
<1>1. /\ comparable /\ collection \in Updated /\ d.id \in issued
      /\ Answered(Update(P.memory, memory, d), Update(P.mongo, mongo, d), known)
  BY DEF UpdateDocument
<1>2. UpdateTraits
  BY <1>1, UpdateTraitsHold
<1>3. /\ IsTable(memory) /\ mongo = memory
      /\ collection \in Updated \ Deleted => issued \subseteq IDsOf(memory)
  BY <1>1, <1>2 DEF StoresInv, TablesAlike, UpdateTraits
<1>4. ASSUME ~known
      PROVE  /\ Update(P.memory, memory, d) = {Outcome(answer, table)}
             /\ Update(P.mongo, memory, d) = {Outcome(answer, table)}
  <2>1. CASE missing
    <3>1. collection \in Deleted
      BY <1>1, <1>3, <2>1 DEF At, IDsOf
    <3> QED
      BY <1>2, <2>1, <3>1 DEF Update, UpdateTraits
  <2>2. CASE ~missing
    <3>1. PICK s \in memory : s.id = d.id /\ At(memory, d) = {s}
      BY <1>3, <2>2 DEF At, IsTable
    <3>2. memory \ {s} = Others(memory, d)
      BY <3>1 DEF At, Others
    <3>3. ~("indexed" \in P.mongo /\ \E t \in Others(memory, d) : t.key = d.key)
      BY <1>4 DEF Taken, Others
    <3>4. s \in StoreDocs /\ [d EXCEPT !.opt = d.opt] = d
      BY <1>3 DEF IsTable, StoreDocs
    <3>5. Written(P.memory, "mergesUpdate", s, d) = d
      BY <1>2, <3>4 DEF Written, UpdateTraits
    <3>6. "mergesUpdate" \in P.mongo /\ d.opt = Omitted => s.opt = d.opt
      BY <1>4, <3>1 DEF SaysNot
    <3>7. Written(P.mongo, "mergesUpdate", s, d) = d
      BY <3>4, <3>6 DEF Written
    <3> QED
      BY <1>2, <2>2, <3>1, <3>2, <3>3, <3>5, <3>7 DEF Update, UpdateTraits
  <2> QED
    BY <2>1, <2>2
<1>5. IsTable(table)
  <2>1. Others(memory, d) \in SUBSET memory /\ \A s \in Others(memory, d) : s.id # d.id
    BY DEF Others
  <2> QED
    BY <1>3, <2>1, WritingKeepsTable
<1>6. IDsOf(memory) \subseteq IDsOf(table)
  BY DEF IDsOf, Others
<1>7. collection \notin KeepingIDs
  BY <1>2 DEF UpdateTraits
<1> HIDE DEF known, table, answer
<1>8. known \in BOOLEAN
  BY DEF known
<1> QED
  BY <1>1, <1>3, <1>4, <1>5, <1>6, <1>7, <1>8, SameOutcomeKeepsStores

\* Documents addressed by their own ID: sources, routes, registries.
LEMMA UpsertByIDKeepsStores ==
    ASSUME StoresInv, NEW d \in StoreDocs, UpsertDocument(d), collection \notin Owned \cup {"instances"}
    PROVE  StoresInv'
<1> DEFINE known == \/ "setsID" \in P.mongo /\ Taken(d) # {}
                    \/ "mergesUpsert" \in P.mongo /\ SaysNot(d) # {}
                    \/ Cardinality(Addressed(P.mongo, memory, d)) > 1
           table == Others(memory, d) \cup {d}
<1>1. /\ comparable /\ collection \in Upserted
      /\ Answered(Upsert(P.memory, memory, d), Upsert(P.mongo, mongo, d), known)
  BY DEF UpsertDocument
<1>2. UpsertTraits /\ collection \notin KeepingIDs
  BY <1>1, UpsertTraitsHold DEF KeepingIDs, Owned
<1>3. IsTable(memory) /\ mongo = memory
  BY <1>1, <1>2 DEF StoresInv, TablesAlike
<1>4. ASSUME ~known
      PROVE  /\ Upsert(P.memory, memory, d) = {Outcome("ok", table)}
             /\ Upsert(P.mongo, memory, d) = {Outcome("ok", table)}
  <2>1. Addressed(P.memory, memory, d) = At(memory, d) /\ Addressed(P.mongo, memory, d) = At(memory, d)
    BY <1>2 DEF Addressed, At, UpsertTraits
  <2>2. CASE At(memory, d) = {}
    <3>1. Others(memory, d) = memory
      BY <2>2 DEF At, Others
    <3> QED
      BY <1>2, <2>1, <2>2, <3>1 DEF Upsert, UpsertTraits
  <2>3. CASE At(memory, d) # {}
    <3>1. PICK s \in memory : s.id = d.id /\ At(memory, d) = {s}
      BY <1>3, <2>3 DEF At, IsTable
    <3>2. memory \ {s} = Others(memory, d)
      BY <3>1 DEF At, Others
    <3>3. [d EXCEPT !.opt = d.opt] = d /\ [d EXCEPT !.id = d.id] = d
      BY DEF StoreDocs
    <3>4. Written(P.memory, "mergesUpsert", s, d) = d
      BY <1>2, <3>3 DEF Written, UpsertTraits
    <3>5. "mergesUpsert" \in P.mongo /\ d.opt = Omitted => s.opt = d.opt
      BY <1>4, <3>1 DEF SaysNot
    <3>6. Written(P.mongo, "mergesUpsert", s, d) = d
      BY <3>3, <3>5 DEF Written
    <3>7. /\ "keepsID" \notin P.memory /\ "setsID" \notin P.memory /\ "evicts" \notin P.memory
          /\ "keepsID" \notin P.mongo /\ "setsID" \notin P.mongo /\ "evicts" \notin P.mongo
      BY <1>2 DEF UpsertTraits
    <3> QED
      BY <2>1, <3>1, <3>2, <3>3, <3>4, <3>6, <3>7 DEF Upsert
  <2> QED
    BY <2>2, <2>3
<1>5. IsTable(table)
  <2>1. Others(memory, d) \in SUBSET memory /\ \A s \in Others(memory, d) : s.id # d.id
    BY DEF Others
  <2> QED
    BY <1>3, <2>1, WritingKeepsTable
<1>6. IDsOf(memory) \subseteq IDsOf(table)
  BY DEF IDsOf, Others
<1> HIDE DEF known, table
<1>7. known \in BOOLEAN
  BY DEF known
<1> QED
  BY <1>1, <1>2, <1>3, <1>4, <1>5, <1>6, <1>7, SameOutcomeKeepsStores

\* An instance that is reported under the ID or the key of one other is that one.
LEMMA UpsertInstanceKeepsStores ==
    ASSUME StoresInv, NEW d \in StoreDocs, UpsertDocument(d), collection = "instances"
    PROVE  StoresInv'
<1> DEFINE known == \/ "setsID" \in P.mongo /\ Taken(d) # {}
                    \/ "mergesUpsert" \in P.mongo /\ SaysNot(d) # {}
                    \/ Cardinality(Addressed(P.mongo, memory, d)) > 1
           found == Addressed(P.mongo, memory, d)
           kept == memory \ found
           table == kept \cup {d}
<1>1. /\ comparable /\ collection \in Upserted
      /\ Answered(Upsert(P.memory, memory, d), Upsert(P.mongo, mongo, d), known)
  BY DEF UpsertDocument
<1>2. UpsertTraits /\ collection \notin KeepingIDs
  BY <1>1, UpsertTraitsHold DEF KeepingIDs
<1>3. IsTable(memory) /\ mongo = memory
  BY <1>1, <1>2 DEF StoresInv, TablesAlike
<1>4. found = {s \in memory : s.id = d.id \/ SameKey(s.key, d.key)}
  BY <1>2 DEF Addressed, UpsertTraits
<1>5. Upsert(P.memory, memory, d) = {Outcome("ok", table)}
  <2>1. kept = {s \in memory : ~SameKey(s.key, d.key) /\ ("byKey" \in P.memory \/ s.id # d.id)}
    BY <1>2, <1>4 DEF UpsertTraits
  <2> QED
    BY <1>2, <2>1 DEF Upsert, UpsertTraits
<1>6. ASSUME ~known PROVE Upsert(P.mongo, memory, d) = {Outcome("ok", table)}
  <2>1. IsFiniteSet(found) /\ Cardinality(found) \in Nat
    BY <1>3, FS_Subset, FS_CardinalityType, <1>4 DEF IsTable
  <2>2. Cardinality(found) = 0 \/ Cardinality(found) = 1
    BY <1>6, <2>1
  <2>3. CASE found = {}
    BY <1>2, <2>3 DEF Upsert, UpsertTraits
  <2>4. CASE found # {}
    <3>1. PICK s : found = {s}
      BY <2>1, <2>2, <2>4, FS_EmptySet, FS_Singleton
    <3>2. s \in memory
      BY <1>4, <3>1
    <3>3. [d EXCEPT !.opt = d.opt] = d /\ [d EXCEPT !.id = d.id] = d
      BY DEF StoreDocs
    <3>4. d.opt = Filled /\ s.opt = Filled
      BY <1>3, <3>2 DEF StoreDocs, Optional, IsTable
    <3>5. Written(P.mongo, "mergesUpsert", s, d) = d
      BY <3>3, <3>4 DEF Written
    <3>6. "keepsID" \notin P.mongo /\ "setsID" \notin P.mongo /\ "evicts" \notin P.mongo
      BY <1>2 DEF UpsertTraits
    <3> QED
      BY <3>1, <3>3, <3>5, <3>6 DEF Upsert
  <2> QED
    BY <2>3, <2>4
<1>7. IsTable(table)
  <2>1. kept \in SUBSET memory /\ \A s \in kept : s.id # d.id
    BY <1>4
  <2> QED
    BY <1>3, <2>1, WritingKeepsTable
<1>8. collection \in Deleted
  BY DEF Deleted
<1> HIDE DEF known, table
<1>9. known \in BOOLEAN
  BY DEF known
<1> QED
  BY <1>1, <1>2, <1>3, <1>5, <1>6, <1>7, <1>8, <1>9, SameOutcomeKeepsStores

\* Where an upsert writes the ID, two stores differ only when the owner has another one.
LEMMA UpsertOwnedKeepsStores ==
    ASSUME StoresInv, NEW d \in StoreDocs, UpsertDocument(d), collection \in Owned \ KeepingIDs
    PROVE  StoresInv'
<1> DEFINE known == \/ "setsID" \in P.mongo /\ Taken(d) # {}
                    \/ "mergesUpsert" \in P.mongo /\ SaysNot(d) # {}
                    \/ Cardinality(Addressed(P.mongo, memory, d)) > 1
           kept == {s \in memory : s.key # d.key}
           table == kept \cup {d}
<1>1. /\ comparable /\ collection \in Upserted
      /\ d.id \notin issued \/ \E s \in memory : s.id = d.id /\ s.key = d.key
      /\ Answered(Upsert(P.memory, memory, d), Upsert(P.mongo, mongo, d), known)
  BY DEF UpsertDocument
<1>2. UpsertTraits
  BY <1>1, UpsertTraitsHold
<1>3. /\ IsTable(memory) /\ mongo = memory /\ IDsOf(memory) \subseteq issued
      /\ d.key # NoKey
  BY <1>1, StoresAssumption DEF StoresInv, TablesAlike, StoreDocs, Owned
<1>4. \A s \in memory : SameKey(s.key, d.key) <=> s.key = d.key
  BY <1>3 DEF SameKey
<1>5. Upsert(P.memory, memory, d) = {Outcome("ok", table)}
  <2>1. kept = {s \in memory : ~SameKey(s.key, d.key) /\ ("byKey" \in P.memory \/ s.id # d.id)}
    BY <1>2, <1>4 DEF UpsertTraits
  <2> QED
    BY <1>2, <2>1 DEF Upsert, UpsertTraits
<1>6. ASSUME ~known PROVE Upsert(P.mongo, memory, d) = {Outcome("ok", table)}
  <2>1. \A s \in memory : s.key = d.key => s.id = d.id
    BY <1>2, <1>6 DEF Taken, UpsertTraits
  <2>2. Addressed(P.mongo, memory, d) = {s \in memory : s.key = d.key}
    BY <1>2, <1>4 DEF Addressed, UpsertTraits
  <2>3. CASE Addressed(P.mongo, memory, d) = {}
    <3>1. kept = memory
      BY <2>2, <2>3
    <3> QED
      BY <1>2, <2>3, <3>1 DEF Upsert, UpsertTraits
  <2>4. CASE Addressed(P.mongo, memory, d) # {}
    <3>1. PICK s \in memory : Addressed(P.mongo, memory, d) = {s} /\ s.key = d.key /\ s.id = d.id
      BY <1>3, <2>1, <2>2, <2>4 DEF IsTable
    <3>2. memory \ {s} = kept
      BY <2>2, <3>1
    <3>3. [d EXCEPT !.opt = d.opt] = d /\ [d EXCEPT !.id = d.id] = d
      BY DEF StoreDocs
    <3>4. d.opt = Filled /\ s.opt = Filled
      BY <1>3, <3>1 DEF StoreDocs, Optional, Owned, IsTable
    <3>5. Written(P.mongo, "mergesUpsert", s, d) = d
      BY <3>3, <3>4 DEF Written
    <3>6. "keepsID" \notin P.mongo /\ "evicts" \notin P.mongo
      BY <1>2 DEF UpsertTraits
    <3> QED
      BY <3>1, <3>2, <3>3, <3>5, <3>6 DEF Upsert
  <2> QED
    BY <2>3, <2>4
<1>7. IsTable(table)
  <2>1. kept \in SUBSET memory /\ \A s \in kept : s.id # d.id
    BY <1>1, <1>3 DEF IsTable, IDsOf
  <2> QED
    BY <1>3, <2>1, WritingKeepsTable
<1>8. collection \notin Updated
  BY DEF Owned, Updated
<1> HIDE DEF known, table
<1>9. known \in BOOLEAN
  BY DEF known
<1> QED
  BY <1>1, <1>3, <1>5, <1>6, <1>7, <1>8, <1>9, SameOutcomeKeepsStores

\* Where it keeps the ID, the owners are the same.
LEMMA UpsertKeepingIDKeepsStores ==
    ASSUME StoresInv, NEW d \in StoreDocs, UpsertDocument(d), collection \in KeepingIDs
    PROVE  StoresInv'
<1> DEFINE known == \/ "setsID" \in P.mongo /\ Taken(d) # {}
                    \/ "mergesUpsert" \in P.mongo /\ SaysNot(d) # {}
                    \/ Cardinality(Addressed(P.mongo, memory, d)) > 1
           kept == {s \in memory : s.key # d.key}
           table == kept \cup {d}
<1>1. /\ comparable /\ collection \in Upserted /\ collection \in Owned
      /\ d.id \notin issued \/ \E s \in memory : s.id = d.id /\ s.key = d.key
      /\ Answered(Upsert(P.memory, memory, d), Upsert(P.mongo, mongo, d), known)
  BY DEF UpsertDocument, KeepingIDs, Owned
<1>2. UpsertTraits
  BY <1>1, UpsertTraitsHold
<1>3. /\ IsTable(memory) /\ mongo \in SUBSET StoreDocs /\ KeysOf(mongo) = KeysOf(memory)
      /\ IDsOf(memory) \subseteq issued
      /\ d.key # NoKey
  BY <1>1, StoresAssumption DEF StoresInv, TablesAlike, StoreDocs, KeepingIDs
<1>4. Upsert(P.memory, memory, d) = {Outcome("ok", table)}
  <2>1. kept = {s \in memory : ~SameKey(s.key, d.key) /\ ("byKey" \in P.memory \/ s.id # d.id)}
    BY <1>2, <1>1, <1>3 DEF UpsertTraits, SameKey
  <2> QED
    BY <1>1, <1>2, <2>1 DEF Upsert, UpsertTraits
<1>5. ASSUME NEW b \in Upsert(P.mongo, mongo, d)
      PROVE  /\ b.answer = "ok" /\ b.table \in SUBSET StoreDocs
             /\ KeysOf(b.table) = KeysOf(mongo) \cup {d.key}
  <2>1. CASE Addressed(P.mongo, mongo, d) = {}
    <3>1. b = Outcome("ok", mongo \cup {d})
      <4>1. Upsert(P.mongo, mongo, d) = {Outcome("ok", mongo \cup {d})}
        BY <1>2, <2>1 DEF Upsert, UpsertTraits
      <4> QED
        BY <4>1
    <3> QED
      BY <1>3, <3>1 DEF Outcome, KeysOf
  <2>2. CASE Addressed(P.mongo, mongo, d) # {}
    <3>1. PICK s \in Addressed(P.mongo, mongo, d) :
              b = Outcome("ok", (mongo \ {s}) \cup {[Written(P.mongo, "mergesUpsert", s, d) EXCEPT !.id = s.id]})
      BY <1>1, <1>2, <2>2 DEF Upsert, UpsertTraits
    <3>2. s \in mongo /\ s.key = d.key
      BY <1>1, <1>2 DEF Addressed, UpsertTraits, SameKey
    <3>3. d.opt = Filled /\ s.opt = Filled
      BY <1>1, <1>3, <3>2 DEF StoreDocs, Optional, Owned
    <3>4. [Written(P.mongo, "mergesUpsert", s, d) EXCEPT !.id = s.id] = [id |-> s.id, key |-> d.key, opt |-> Filled]
      <4>1. [d EXCEPT !.opt = d.opt] = d
        BY DEF StoreDocs
      <4>2. Written(P.mongo, "mergesUpsert", s, d) = d
        BY <3>3, <4>1 DEF Written
      <4> QED
        BY <3>3, <4>2 DEF StoreDocs
    <3>5. [id |-> s.id, key |-> d.key, opt |-> Filled] \in StoreDocs
      BY <1>3, <3>2, <3>3 DEF StoreDocs
    <3>6. b.answer = "ok" /\ b.table = (mongo \ {s}) \cup {[id |-> s.id, key |-> d.key, opt |-> Filled]}
      BY <3>1, <3>4 DEF Outcome
    <3> QED
      BY <1>3, <3>2, <3>5, <3>6 DEF KeysOf
  <2> QED
    BY <2>1, <2>2
<1>6. IsTable(table)
  <2>1. kept \in SUBSET memory /\ \A s \in kept : s.id # d.id
    BY <1>1, <1>3 DEF IsTable, IDsOf
  <2> QED
    BY <1>3, <2>1, WritingKeepsTable
<1>7. KeysOf(table) = KeysOf(memory) \cup {d.key}
  BY DEF KeysOf
<1>8. collection \notin Updated
  BY DEF KeepingIDs, Updated
<1> HIDE DEF known, table
<1>9. PICK b \in Upsert(P.mongo, mongo, d) :
          /\ memory' = table /\ mongo' = b.table /\ answers' = Both("ok", b.answer)
          /\ comparable' = ~known /\ issued' = issued \cup IDsOf(table) /\ collection' = collection
  BY <1>1, <1>4 DEF Answered, Outcome, IDsOf
<1>10. mongo' \in SUBSET StoreDocs /\ KeysOf(mongo') = KeysOf(memory') /\ answers'.memory = answers'.mongo
  BY <1>3, <1>5, <1>7, <1>9 DEF Both
<1>11. StoreDocs' = StoreDocs
  BY <1>9 DEF StoreDocs
<1>12. IsTable(memory)' /\ TablesAlike(memory, mongo)'
  BY <1>6, <1>9, <1>10, <1>11 DEF IsTable, TablesAlike, KeysOf
<1>13. IDsOf(memory)' \subseteq issued'
  BY <1>9 DEF IDsOf
<1> QED
  BY <1>8, <1>9, <1>10, <1>11, <1>12, <1>13 DEF StoresInv

\* One document at most has the ID of a delete.
LEMMA DeleteKeepsStores ==
    ASSUME StoresInv, NEW d \in StoreDocs, DeleteDocument(d)
    PROVE  StoresInv'
<1> DEFINE missing == At(memory, d) = {}
           table == Others(memory, d)
           answer == IF missing /\ "idempotent" \notin P.memory THEN "notFound" ELSE "ok"
<1>1. /\ comparable /\ collection \in Deleted
      /\ Answered(Delete(P.memory, memory, d), Delete(P.mongo, mongo, d), FALSE)
  BY DEF DeleteDocument
<1>2. collection \notin KeepingIDs /\ ("idempotent" \in P.memory <=> "idempotent" \in P.mongo)
  BY <1>1, DeleteTraitsHold
<1>3. IsTable(memory) /\ mongo = memory
  BY <1>1, <1>2 DEF StoresInv, TablesAlike
<1>4. /\ Delete(P.memory, memory, d) = {Outcome(answer, table)}
      /\ Delete(P.mongo, memory, d) = {Outcome(answer, table)}
  <2>1. CASE missing
    <3>1. table = memory
      BY <2>1 DEF At, Others
    <3> QED
      BY <1>2, <2>1, <3>1 DEF Delete
  <2>2. CASE ~missing
    <3>1. PICK s \in memory : At(memory, d) = {s}
      BY <1>3, <2>2 DEF At, IsTable
    <3>2. memory \ {s} = table
      BY <3>1 DEF At, Others
    <3> QED
      BY <2>2, <3>1, <3>2 DEF Delete
  <2> QED
    BY <2>1, <2>2
<1>5. IsTable(table)
  BY <1>3, SubsetIsTable DEF Others
<1> HIDE DEF table, answer
<1> QED
  BY <1>1, <1>2, <1>3, <1>4, <1>5, SameOutcomeKeepsStores

LEMMA ClearKeepsStores ==
    ASSUME StoresInv, NEW d \in StoreDocs, ClearKey(d)
    PROVE  StoresInv'
<1> DEFINE table == {s \in memory : s.key # d.key}
<1>1. /\ comparable /\ collection \in Deleted /\ collection \notin KeepingIDs
      /\ Answered(Clear(memory, d), Clear(mongo, d), FALSE)
  BY DEF ClearKey, Cleared, Deleted, KeepingIDs
<1>2. IsTable(memory) /\ mongo = memory
  BY <1>1 DEF StoresInv, TablesAlike
<1>3. Clear(memory, d) = {Outcome("ok", table)}
  BY DEF Clear
<1>4. IsTable(table)
  BY <1>2, SubsetIsTable
<1> HIDE DEF table
<1> QED
  BY <1>1, <1>2, <1>3, <1>4, SameOutcomeKeepsStores

LEMMA StoresStepsKeep == StoresInv /\ [StoresNext]_storeVars => StoresInv'
<1> SUFFICES ASSUME StoresInv, [StoresNext]_storeVars PROVE StoresInv'
  OBVIOUS
<1>1. CASE StoresNext
  <2>1. PICK d \in StoreDocs : \/ InsertDocument(d) \/ UpdateDocument(d) \/ UpsertDocument(d)
                               \/ DeleteDocument(d) \/ ClearKey(d)
    BY <1>1 DEF StoresNext
  <2>2. CASE UpsertDocument(d)
    BY <2>2, UpsertByIDKeepsStores, UpsertInstanceKeepsStores, UpsertOwnedKeepsStores,
       UpsertKeepingIDKeepsStores DEF Owned, KeepingIDs
  <2> QED
    BY <2>1, <2>2, InsertKeepsStores, UpdateKeepsStores, DeleteKeepsStores, ClearKeepsStores
<1>2. CASE UNCHANGED storeVars
  BY <1>2 DEF storeVars, StoresInv, IsTable, StoreDocs, IDsOf, KeysOf, TablesAlike
<1> QED
  BY <1>1, <1>2

\* For any IDs and keys, after any sequence of calls the two implementations of database.Store
\* have given the same answers and hold the same documents, up to the differences the actions
\* name (internal/database/memstore/store.go, internal/database/mongo/collections.go).
THEOREM StoresStayAlike == StoresSpec => []StoresAgree
<1>1. StoresInv => StoresAgree
  <2> SUFFICES ASSUME StoresInv, comparable PROVE StoresAgree
    BY DEF StoresAgree
  <2>1. CASE collection \in KeepingIDs
    <3> DEFINE Face(key) == [id |-> key, key |-> key, opt |-> Filled]
    <3>1. ASSUME NEW table \in SUBSET StoreDocs
          PROVE  Shown(table) = {Face(key) : key \in KeysOf(table)}
      <4>1. \A s \in table : [s EXCEPT !.id = s.key] = Face(s.key)
        BY <2>1 DEF StoreDocs, KeepingIDs, Optional
      <4>2. Shown(table) = {[s EXCEPT !.id = s.key] : s \in table}
        BY <2>1 DEF Shown, Owned, KeepingIDs
      <4> HIDE DEF Face
      <4>3. Shown(table) = {Face(s.key) : s \in table}
        BY <4>1, <4>2
      <4> QED
        BY <4>3 DEF KeysOf
    <3>2. Shown(memory) = Shown(mongo)
      BY <2>1, <3>1 DEF StoresInv, TablesAlike, IsTable
    <3> QED
      BY <3>2 DEF StoresInv, StoresAgree
  <2>2. CASE collection \notin KeepingIDs
    BY <2>2 DEF StoresInv, StoresAgree, TablesAlike
  <2> QED
    BY <2>1, <2>2
<1> QED
  BY <1>1, StoresInitHolds, StoresStepsKeep, PTL DEF StoresSpec

-------------------------------------------------------------------------------
(********************************************************************************)
(* Grants.  The table of permissions is looked at entry by entry; what is risky *)
(* everywhere, and what its entries have in common, is all the rest needs.      *)
(********************************************************************************)
\* The table, entry by entry.
LEMMA ExpansionOf ==
    /\ Expansion["k8s.namespace:read"] = Perms("k8s.namespace", {"read"}, "cluster")
    /\ Expansion["k8s.resource:read"] = Perms("k8s.resource", {"read"}, "namespace")
    /\ Expansion["k8s.service-account:read"] = Perms("k8s.service-account", {"read"}, "namespace")
    /\ Expansion["k8s.rbac:read"] = Perms("k8s.rbac", {"read"}, "namespace")
    /\ Expansion["k8s.certificate:read"] = Perms("k8s.certificate", {"read"}, "namespace")
    /\ Expansion["k8s.namespace:manage"] = Perms("k8s.namespace", {"read", "create", "delete"}, "cluster")
    /\ Expansion["k8s.service-account:manage"] = Perms("k8s.service-account", {"read", "create", "delete"}, "namespace")
    /\ Expansion["k8s.credential:manage"] = Perms("k8s.cluster-credential", {"read", "create", "rotate", "rollback"}, "cluster")
    /\ Expansion["k8s.kubeconfig:export"] = Perms("k8s.kubeconfig", {"export"}, "namespace")
    /\ Expansion["k8s.deploy:apply"] = Perms("k8s.deployment", {"preview", "deploy"}, "namespace")
    /\ Expansion["k8s.deploy:delete"] = Perms("k8s.deployment", {"delete"}, "namespace")
    /\ Expansion["k8s.deploy:rollback"] = Perms("k8s.deployment", {"rollback"}, "namespace")
    /\ Expansion["k8s.certificate:manage"] = Perms("k8s.certificate", {"read", "create", "delete"}, "namespace")
    /\ Expansion["k8s.terminal:exec"] = Perms("k8s.terminal", {"exec"}, "namespace")
    /\ Expansion["k8s.rbac:manage"] = Perms("k8s.rbac", {"read", "create", "update", "delete"}, "namespace")
    /\ Expansion["k8s.cluster-rbac:read"] = Perms("k8s.rbac", {"read"}, "cluster")
    /\ Expansion["k8s.cluster-rbac:manage"] = Perms("k8s.rbac", {"read", "create", "update", "delete"}, "cluster")
    /\ Expansion["k8s.template:manage"] = Perms("k8s.template", {"create", "update", "delete", "render"}, "global")
BY DEF Expansion, PermissionIDs


\* What the table says: no entry is a pattern, a risky permission that is not one of the whole
\* cluster is one of a namespace, and what changes something is granted by one ID only.
LEMMA EntriesOf ==
    ASSUME NEW id \in PermissionIDs, NEW p \in Expansion[id]
    PROVE  /\ p = [resource |-> p.resource, action |-> p.action, mode |-> p.mode]
           /\ p.resource # "*" /\ p.action # "*"
           /\ id \in highRisk \ clusterWideHighRisk => p.mode = "namespace"
BY ExpansionOf DEF PermissionIDs, Perms, highRisk, clusterWideHighRisk

LEMMA WritesHaveOneID ==
    ASSUME NEW i \in PermissionIDs, NEW j \in PermissionIDs, NEW p \in Expansion[i], p \in Expansion[j],
           p.action # "read"
    PROVE  i = j
BY ExpansionOf DEF PermissionIDs, Perms

\* Any request the page can send, with any IDs of the table.
GrantForms ==
    [ids : SUBSET PermissionIDs, cluster : GrantClusters \cup {""},
     namespaces : SUBSET GrantNamespaces, all : BOOLEAN, global : BOOLEAN, accepted : BOOLEAN]

\* A risky action is allowed by a permission of the request that is risky itself.
LEMMA RiskyActionsAreGranted ==
    ASSUME request \in GrantForms, NEW act \in RiskyActions, NEW scope, NEW place \in Reached(scope, act)
    PROVE  \E id \in request.ids \cap highRisk : \E p \in Expansion[id] :
               scopeAllowed(p.mode, scope, [resource |-> act.resource, action |-> act.action,
                                            cluster |-> place.cluster, namespace |-> place.namespace])
<1> DEFINE asked == [resource |-> act.resource, action |-> act.action,
                     cluster |-> place.cluster, namespace |-> place.namespace]
<1>1. PICK p \in expandPermissionIDs(request.ids) :
          /\ matches(p.resource, asked.resource) /\ matches(p.action, asked.action)
          /\ scopeAllowed(p.mode, scope, asked)
  BY DEF Reached, Permits
<1>2. PICK id \in request.ids : p \in Expansion[id]
  BY <1>1 DEF expandPermissionIDs
<1>3. id \in PermissionIDs
  BY DEF GrantForms
<1>4. p.resource = act.resource /\ p.action = act.action
  BY <1>1, <1>2, <1>3, EntriesOf DEF matches
<1>5. act = [resource |-> p.resource, action |-> p.action]
  BY <1>4 DEF RiskyActions, ActionsOf
<1>6. id \in highRisk
  <2>1. act \notin ActionsOf(PermissionIDs \ highRisk)
    BY DEF RiskyActions
  <2> QED
    BY <1>2, <1>3, <1>5, <2>1 DEF ActionsOf, expandPermissionIDs
<1> QED
  BY <1>1, <1>2, <1>6

\* A grant whose risk nobody accepted is one of at most one namespace.
LEMMA UnacceptedGrantIsNarrow ==
    ASSUME request \in GrantForms
    PROVE  UnacceptedGrantsAreNarrow
<1> SUFFICES ASSUME ~request.accepted, NEW scope \in GrantedScopes(request), NEW act \in RiskyActions
             PROVE  /\ Cardinality(Reached(scope, act)) <= 1
                    /\ \A place \in Reached(scope, act) :
                           place.cluster = request.cluster /\ place.namespace \in request.namespaces
  BY DEF UnacceptedGrantsAreNarrow
<1>1. scope \in bindingScopes(request, expandPermissionIDs(request.ids)) /\ ~needsRiskAcceptance(request)
  BY DEF GrantedScopes
<1>2. request.ids \in SUBSET PermissionIDs /\ request.namespaces \in SUBSET GrantNamespaces
  BY DEF GrantForms
<1>3. ASSUME NEW place \in Reached(scope, act)
      PROVE  /\ place = [cluster |-> request.cluster, namespace |-> place.namespace]
             /\ place.namespace \in request.namespaces
             /\ ~wideNamespaceGrant(request)
  <2> DEFINE asked == [resource |-> act.resource, action |-> act.action,
                       cluster |-> place.cluster, namespace |-> place.namespace]
  <2>0. PICK id \in request.ids \cap highRisk : \E p \in Expansion[id] : scopeAllowed(p.mode, scope, asked)
    BY RiskyActionsAreGranted
  <2>1. PICK p \in Expansion[id] : scopeAllowed(p.mode, scope, asked)
    BY <2>0
  <2>2. ~wideNamespaceGrant(request) /\ id \notin clusterWideHighRisk
    BY <1>1 DEF needsRiskAcceptance
  <2>3. p.mode = "namespace"
    BY <1>2, <2>2, EntriesOf
  <2>4. Needs(expandPermissionIDs(request.ids), {"namespace"})
        /\ Needs(expandPermissionIDs(request.ids), {"cluster", "namespace"})
    BY <2>3 DEF Needs, expandPermissionIDs
  <2>5. scope = Scope(FALSE, request.cluster, request.namespaces, FALSE)
    BY <1>1, <2>2, <2>4 DEF bindingScopes, wideNamespaceGrant
  <2>6. place.cluster = request.cluster /\ place.namespace \in request.namespaces
    BY <2>1, <2>3, <2>5 DEF scopeAllowed, Scope
  <2>7. place \in Places
    BY DEF Reached
  <2> QED
    BY <2>2, <2>6, <2>7 DEF Places
<1>4. Cardinality(Reached(scope, act)) <= 1
  <2>1. CASE Reached(scope, act) = {}
    BY <2>1, FS_EmptySet
  <2>2. CASE Reached(scope, act) # {}
    <3>1. IsFiniteSet(request.namespaces) /\ Cardinality(request.namespaces) \in Nat
      BY <1>2, GrantsAssumption, FS_Subset, FS_CardinalityType
    <3>2. ~(Cardinality(request.namespaces) > 1) /\ request.namespaces # {}
      BY <1>3, <2>2 DEF wideNamespaceGrant
    <3>3. Cardinality(request.namespaces) = 1
      BY <3>1, <3>2, FS_EmptySet
    <3>4. PICK n : request.namespaces = {n}
      BY <3>1, <3>3, FS_Singleton
    <3>5. Reached(scope, act) = {[cluster |-> request.cluster, namespace |-> n]}
      BY <1>3, <2>2, <3>4
    <3>6. Cardinality({[cluster |-> request.cluster, namespace |-> n]}) = 1
      BY FS_Singleton
    <3> QED
      BY <3>5, <3>6
  <2> QED
    BY <2>1, <2>2
<1> QED
  BY <1>3, <1>4

-------------------------------------------------------------------------------
\* The list of a grant names what it allows, and nothing else.
LEMMA ListedIsGranted ==
    ASSUME NEW ids \in SUBSET PermissionIDs,
           NEW id \in permissionIDsForPermissions(expandPermissionIDs(ids))
    PROVE  /\ id \in PermissionIDs
           /\ Expansion[id] \subseteq expandPermissionIDs(ids) \ Perms("k8s.namespace", {"create", "delete"}, "cluster")
<1> DEFINE permissions == expandPermissionIDs(ids)
<1>1. \A p \in permissions : \E i \in ids : p \in Expansion[i]
  BY DEF expandPermissionIDs
<1>2. \A i \in ids : Expansion[i] \subseteq permissions
  BY DEF expandPermissionIDs
<1>3. id \in ListedAlone \cup {"k8s.deploy:apply", "k8s.credential:manage", "k8s.template:manage"}
          \cup DOMAIN ReadOf \cup {ReadOf[i] : i \in DOMAIN ReadOf}
  BY DEF permissionIDsForPermissions
<1>4. id \in PermissionIDs /\ id # "k8s.namespace:manage"
  BY <1>3 DEF PermissionIDs, ListedAlone, ReadOf
<1>5. Expansion[id] \subseteq permissions
  <2>1. CASE id \in ListedAlone /\ Expansion[id] \subseteq permissions
    BY <2>1
  <2>2. CASE id = "k8s.deploy:apply" /\ Perms("k8s.deployment", {"deploy"}, "namespace") \subseteq permissions
    <3> DEFINE p == [resource |-> "k8s.deployment", action |-> "deploy", mode |-> "namespace"]
    <3>1. p \in permissions /\ p \in Expansion[id]
      BY <2>2, ExpansionOf DEF Perms
    <3>2. PICK i \in ids : p \in Expansion[i]
      BY <1>1, <3>1
    <3>3. i = id
      BY <1>4, <3>1, <3>2, WritesHaveOneID
    <3> QED
      BY <1>2, <3>3
  <2>3. CASE /\ id \in {"k8s.credential:manage", "k8s.template:manage"}
             /\ \E p \in permissions, q \in Expansion[id] : p.resource = q.resource
    <3>1. PICK p \in permissions, q \in Expansion[id] : p.resource = q.resource
      BY <2>3
    <3>2. PICK i \in ids : p \in Expansion[i]
      BY <1>1
    <3>3. i = id
      BY <2>3, <3>1, <3>2, ExpansionOf DEF PermissionIDs, Perms
    <3> QED
      BY <1>2, <3>3
  <2>4. CASE id \in DOMAIN ReadOf /\ Writes(id, permissions)
    <3>1. PICK p \in Expansion[id] \cap permissions : p.action # "read"
      BY <2>4 DEF Writes
    <3>2. PICK i \in ids : p \in Expansion[i]
      BY <1>1
    <3>3. i = id
      BY <1>4, <3>1, <3>2, WritesHaveOneID
    <3> QED
      BY <1>2, <3>3
  <2>5. CASE \E i \in DOMAIN ReadOf : id = ReadOf[i] /\ Expansion[ReadOf[i]] \subseteq permissions
    BY <2>5
  <2> QED
    BY <2>1, <2>2, <2>3, <2>4, <2>5 DEF permissionIDsForPermissions
<1>6. \A p \in Expansion[id] : p \notin Perms("k8s.namespace", {"create", "delete"}, "cluster")
  BY <1>4, ExpansionOf DEF PermissionIDs, Perms
<1> QED
  BY <1>4, <1>5, <1>6

LEMMA GrantedIsListed ==
    ASSUME NEW ids \in SUBSET PermissionIDs, NEW id \in ids, NEW p \in Expansion[id],
           p \notin Perms("k8s.namespace", {"create", "delete"}, "cluster")
    PROVE  \E listed \in permissionIDsForPermissions(expandPermissionIDs(ids)) : p \in Expansion[listed]
<1> DEFINE permissions == expandPermissionIDs(ids)
           Listed == permissionIDsForPermissions(permissions)
<1>1. id \in PermissionIDs /\ Expansion[id] \subseteq permissions
  BY DEF expandPermissionIDs
<1>2. CASE id \in ListedAlone
  <2>1. id \in Listed
    BY <1>1, <1>2 DEF permissionIDsForPermissions
  <2> QED
    BY <2>1
<1>3. CASE id = "k8s.namespace:manage"
  <2>1. p \in Expansion["k8s.namespace:read"] /\ Expansion["k8s.namespace:read"] \subseteq permissions
    BY <1>1, <1>3, ExpansionOf DEF Perms
  <2>2. "k8s.namespace:read" \in Listed
    BY <2>1 DEF permissionIDsForPermissions, ListedAlone
  <2> QED
    BY <2>1, <2>2
<1>4. CASE id = "k8s.deploy:apply"
  <2>1. Perms("k8s.deployment", {"deploy"}, "namespace") \subseteq permissions
    BY <1>1, <1>4, ExpansionOf DEF Perms
  <2>2. id \in Listed
    BY <1>4, <2>1 DEF permissionIDsForPermissions
  <2> QED
    BY <2>2
<1>5. CASE id \in {"k8s.credential:manage", "k8s.template:manage"}
  <2>1. id \in Listed
    BY <1>1, <1>5 DEF permissionIDsForPermissions
  <2> QED
    BY <2>1
<1>6. CASE id \in DOMAIN ReadOf
  <2>1. \E q \in Expansion[id] : q.action # "read"
    <3> DEFINE q(resource, mode) == [resource |-> resource, action |-> "create", mode |-> mode]
    <3>1. CASE id = "k8s.service-account:manage"
      <4>1. q("k8s.service-account", "namespace") \in Expansion[id]
        BY <3>1, ExpansionOf DEF Perms
      <4> QED
        BY <4>1
    <3>2. CASE id = "k8s.certificate:manage"
      <4>1. q("k8s.certificate", "namespace") \in Expansion[id]
        BY <3>2, ExpansionOf DEF Perms
      <4> QED
        BY <4>1
    <3>3. CASE id = "k8s.rbac:manage"
      <4>1. q("k8s.rbac", "namespace") \in Expansion[id]
        BY <3>3, ExpansionOf DEF Perms
      <4> QED
        BY <4>1
    <3>4. CASE id = "k8s.cluster-rbac:manage"
      <4>1. q("k8s.rbac", "cluster") \in Expansion[id]
        BY <3>4, ExpansionOf DEF Perms
      <4> QED
        BY <4>1
    <3> QED
      BY <1>6, <3>1, <3>2, <3>3, <3>4 DEF ReadOf
  <2>2. id \in Listed
    BY <1>1, <1>6, <2>1 DEF permissionIDsForPermissions, Writes
  <2> QED
    BY <2>2
<1>7. CASE \E i \in DOMAIN ReadOf : id = ReadOf[i]
  <2>1. PICK i \in DOMAIN ReadOf : id = ReadOf[i]
    BY <1>7
  <2>2. CASE Writes(i, permissions)
    <3>1. i \in Listed
      BY <2>2 DEF permissionIDsForPermissions
    <3>2. p \in Expansion[i]
      BY <2>1, ExpansionOf DEF ReadOf, Perms
    <3> QED
      BY <3>1, <3>2
  <2>3. CASE ~Writes(i, permissions)
    <3>1. id \in Listed
      BY <1>1, <2>1, <2>3 DEF permissionIDsForPermissions
    <3> QED
      BY <3>1
  <2> QED
    BY <2>2, <2>3
<1>8. \/ id \in ListedAlone \cup DOMAIN ReadOf \/ \E i \in DOMAIN ReadOf : id = ReadOf[i]
      \/ id \in {"k8s.namespace:manage", "k8s.deploy:apply", "k8s.credential:manage", "k8s.template:manage"}
  BY <1>1 DEF PermissionIDs, ListedAlone, ReadOf
<1> QED
  BY <1>2, <1>3, <1>4, <1>5, <1>6, <1>7, <1>8

\* Whatever permissions, cluster and namespaces a request names: when nobody accepted its risk, a
\* risky action is allowed in one namespace at most; and the IDs a grant is listed with would
\* grant the same again (k8sops/platformaccess/service.go).  A run tries all pairs of IDs, this
\* is about all sets of them.
THEOREM GrantsAreRight == ASSUME request \in GrantForms PROVE GrantsAreSound
<1>1. UnacceptedGrantsAreNarrow
  BY UnacceptedGrantIsNarrow
<1>2. ListedAsGranted
  <2> DEFINE ids == request.ids
             granted == expandPermissionIDs(ids) \ Perms("k8s.namespace", {"create", "delete"}, "cluster")
             again == expandPermissionIDs(permissionIDsForPermissions(expandPermissionIDs(ids)))
  <2>1. ids \in SUBSET PermissionIDs
    BY DEF GrantForms
  <2>2. again \subseteq granted
    <3> SUFFICES ASSUME NEW p \in again PROVE p \in granted
      OBVIOUS
    <3>1. PICK id \in permissionIDsForPermissions(expandPermissionIDs(ids)) : p \in Expansion[id]
      BY DEF expandPermissionIDs
    <3> QED
      BY <2>1, <3>1, ListedIsGranted
  <2>3. granted \subseteq again
    <3> SUFFICES ASSUME NEW p \in granted PROVE p \in again
      OBVIOUS
    <3>1. PICK id \in ids : p \in Expansion[id]
      BY DEF expandPermissionIDs
    <3>2. \E listed \in permissionIDsForPermissions(expandPermissionIDs(ids)) : p \in Expansion[listed]
      BY <2>1, <3>1, GrantedIsListed
    <3> QED
      BY <3>2 DEF expandPermissionIDs
  <2> QED
    BY <2>2, <2>3 DEF ListedAsGranted
<1> QED
  BY <1>1, <1>2 DEF GrantsAreSound
===============================================================================
