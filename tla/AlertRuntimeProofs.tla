------------------------ MODULE AlertRuntimeProofs ------------------------
(***************************************************************************)
(* The applied marker is right at every endpoint whose last publication    *)
(* met no change, what runs was previewed, and runtime documents tell of   *)
(* deployments that took place, for every number of operators, publishers, *)
(* rules and endpoints.                                                    *)
(*                                                                         *)
(* The argument.  While a call is clean no other call is between compiling *)
(* and marking for its endpoint, and no rule of the endpoint changed, so   *)
(* its artifact still is what compiling would give now; once it deployed,  *)
(* the cluster runs exactly that.  Marking then tells the truth.           *)
(*                                                                         *)
(* That only previewed rules run, and that a runtime document is ready     *)
(* only after a deployment, follows from what every call remembers: its    *)
(* artifact was saved, later previewed, later deployed, and what was       *)
(* saved, previewed or deployed once stays so.                             *)
(***************************************************************************)
EXTENDS AlertRuntime, AlertRulesProofs

\* A clean call holds what compiling now would give, alone at its endpoint.
CleanCallsAreCurrent ==
    \A p \in Publishers, e \in Endpoints :
        Active(p, e) /\ pub[p].clean =>
            /\ pub[p].artifact = Compile(e)
            /\ \A x \in Publishers : x # p => ~Active(x, e)
            /\ pub[p].phase = "deployed" => running[e] = pub[p].artifact

\* Only calls that carry a token get past the confirmation.
ConfirmedCallsApply ==
    \A p \in Publishers :
        pub[p] # NoCall /\ pub[p].phase \in {"confirmed", "deployed", "marked"} => pub[p].apply

RInv ==
    /\ IInv
    /\ RuntimeTypeOK
    /\ ConfirmedCallsApply
    /\ CleanCallsAreCurrent
    /\ CleanPublicationsMarkRight

-----------------------------------------------------------------------------
(* The rule store underneath.                                              *)

LEMMA RuntimeStepIsRuleStep ==
    ASSUME RuntimeTypeOK, [RuntimeNext]_runtimeVars
    PROVE  [Next]_ruleVars
<1>1. CASE ChangeRules
  BY <1>1 DEF ChangeRules, Next
<1>2. ASSUME NEW p \in Publishers, NEW r \in Rules, MarkApplied(p, r) PROVE Next
  <2>1. pub[p].endpoint \in Endpoints
    BY <1>2 DEF MarkApplied, RuntimeTypeOK, Calls
  <2> QED BY <1>2, <2>1 DEF MarkApplied, Next
<1>3. CASE PublishStep /\ ~ \E p \in Publishers, r \in Rules : MarkApplied(p, r)
  BY <1>3 DEF PublishStep, CompileRules, Preview, Confirm, Deploy, FindRuntime, UpsertRuntime,
              Fail, ruleVars
<1>4. CASE UNCHANGED runtimeVars
  BY <1>4 DEF runtimeVars, ruleVars
<1> QED BY <1>1, <1>2, <1>3, <1>4 DEF RuntimeNext

-----------------------------------------------------------------------------
(* Types.                                                                  *)

LEMMA MetType ==
    ASSUME RuntimeTypeOK, NEW P, NEW E
    PROVE  Met(P, E) \in [Publishers -> {NoCall} \cup Calls]
<1> SUFFICES ASSUME NEW p \in Publishers
             PROVE  (IF p \in P /\ \E e \in E : Active(p, e)
                     THEN [pub[p] EXCEPT !.clean = FALSE] ELSE pub[p]) \in {NoCall} \cup Calls
  BY DEF Met
<1>1. CASE pub[p] = NoCall
  BY <1>1 DEF Active, RuntimeTypeOK
<1>2. CASE pub[p] \in Calls
  BY <1>2 DEF Calls
<1> QED BY <1>1, <1>2 DEF RuntimeTypeOK

LEMMA CompileType ==
    ASSUME IInv, NEW e \in Endpoints
    PROVE  Compile(e) \in Artifacts
<1> SUFFICES ASSUME NEW r \in Rules, Exists(r)
             PROVE  <<r, rules[r].spec>> \in Rules \X Specs
  BY DEF Compile, Artifacts
<1> QED BY ReadFacts

\* What marking one rule does to the call.
LEMMA MarkStep ==
    ASSUME RuntimeTypeOK, NEW p \in Publishers, NEW r \in Rules, MarkApplied(p, r)
    PROVE  /\ pub[p] \in Calls /\ pub[p] # NoCall /\ pub[p].phase = "deployed"
           /\ pub[p].endpoint \in Endpoints
           /\ MarkRuntimeRulesApplied(pub[p].endpoint, r)
           /\ pub' \in [Publishers -> {NoCall} \cup Calls]
           /\ \A x \in Publishers : x # p => pub'[x] = pub[x]
           /\ pub'[p] \in Calls /\ pub'[p].phase \in {"deployed", "marked"}
           /\ pub'[p].endpoint = pub[p].endpoint /\ pub'[p].artifact = pub[p].artifact
           /\ pub'[p].apply = pub[p].apply /\ pub'[p].clean = pub[p].clean
           /\ pub'[p].found = pub[p].found
           /\ \/ pub[p].clean /\ overlapped' \in {overlapped, overlapped \ {pub[p].endpoint}}
              \/ ~pub[p].clean /\ overlapped' = overlapped \cup {pub[p].endpoint}
           /\ UNCHANGED <<running, previews, record, deploys>>
<1>1. PICK q : q = pub[p]
  OBVIOUS
<1>2. PICK phase : phase = IF q.left = {r} THEN "marked" ELSE "deployed"
  OBVIOUS
<1>3. PICK left : left = q.left \ {r}
  OBVIOUS
<1>4. /\ q \in Calls /\ q # NoCall /\ q.phase = "deployed"
      /\ MarkRuntimeRulesApplied(q.endpoint, r)
      /\ UNCHANGED <<running, previews, record, deploys>>
      /\ pub \in [Publishers -> {NoCall} \cup Calls]
  BY <1>1 DEF MarkApplied, RuntimeTypeOK
<1>5. \/ q.clean /\ overlapped' \in {overlapped, overlapped \ {q.endpoint}}
      \/ ~q.clean /\ overlapped' = overlapped \cup {q.endpoint}
  BY <1>1 DEF MarkApplied
<1>6. pub' = [pub EXCEPT ![p] = [q EXCEPT !.left = left, !.phase = phase]]
  BY <1>1, <1>2, <1>3, <1>4 DEF MarkApplied
<1>7. phase \in {"deployed", "marked"} /\ left \in SUBSET Rules
  BY <1>2, <1>3, <1>4 DEF Calls
<1>8. PICK c : c = [q EXCEPT !.left = left, !.phase = phase]
  OBVIOUS
<1>9. /\ c \in Calls /\ c.phase = phase
      /\ c.endpoint = q.endpoint /\ c.artifact = q.artifact /\ c.apply = q.apply
      /\ c.clean = q.clean /\ c.found = q.found /\ q.endpoint \in Endpoints
  BY <1>4, <1>7, <1>8 DEF Calls, Phases
<1>10. pub'[p] = c /\ pub' \in [Publishers -> {NoCall} \cup Calls]
       /\ \A x \in Publishers : x # p => pub'[x] = pub[x]
  BY <1>4, <1>6, <1>8, <1>9
<1> QED BY <1>1, <1>4, <1>5, <1>7, <1>9, <1>10

\* A step that marks a rule, whichever.
Marks(p) == \E r \in Rules : MarkApplied(p, r)

LEMMA RuntimeTypeStep ==
    ASSUME IInv, RuntimeTypeOK, [RuntimeNext]_runtimeVars
    PROVE  RuntimeTypeOK'
<1>1. CASE ChangeRules
  BY <1>1, MetType DEF ChangeRules, RuntimeTypeOK
<1>2. ASSUME NEW p \in Publishers, NEW e \in Endpoints, NEW apply \in BOOLEAN,
             CompileRules(p, e, apply)
      PROVE  RuntimeTypeOK'
  <2> DEFINE c == [phase |-> "compiled", endpoint |-> e, artifact |-> Compile(e),
                   apply |-> apply, clean |-> \A x \in Publishers : ~Active(x, e),
                   found |-> FALSE, left |-> Rules]
  <2>1. c \in Calls
    BY CompileType DEF Calls, Phases
  <2>2. (IF apply THEN Met(Publishers, {e}) ELSE pub) \in [Publishers -> {NoCall} \cup Calls]
    BY MetType DEF RuntimeTypeOK
  <2>3. pub' = [(IF apply THEN Met(Publishers, {e}) ELSE pub) EXCEPT ![p] = c]
    BY <1>2 DEF CompileRules
  <2>4. pub' \in [Publishers -> {NoCall} \cup Calls]
    BY <2>1, <2>2, <2>3
  <2> QED BY <1>2, <2>4 DEF CompileRules, RuntimeTypeOK
<1>3. ASSUME NEW p \in Publishers, Preview(p) PROVE RuntimeTypeOK'
  <2>1. pub[p] \in Calls
    BY <1>3 DEF Preview, RuntimeTypeOK
  <2>2. Token(pub[p].endpoint, running[pub[p].endpoint], pub[p].artifact) \in Tokens
    BY <2>1 DEF Token, Tokens, Calls, RuntimeTypeOK
  <2>3. [pub[p] EXCEPT !.phase = "previewed"] \in Calls
    BY <2>1 DEF Calls, Phases
  <2> QED BY <1>3, <2>2, <2>3 DEF Preview, RuntimeTypeOK
<1>4. ASSUME NEW p \in Publishers, Confirm(p) \/ Fail(p) PROVE RuntimeTypeOK'
  <2>1. pub[p] \in Calls
    BY <1>4 DEF Confirm, Fail, RuntimeTypeOK
  <2>2. [pub[p] EXCEPT !.phase = "confirmed"] \in Calls
    BY <2>1 DEF Calls, Phases
  <2> QED BY <1>4, <2>2 DEF Confirm, Fail, RuntimeTypeOK
<1>5. ASSUME NEW p \in Publishers, Deploy(p) PROVE RuntimeTypeOK'
  <2>1. pub[p] \in Calls /\ pub[p].endpoint \in Endpoints /\ pub[p].artifact \in Artifacts
    BY <1>5 DEF Deploy, RuntimeTypeOK, Calls
  <2>2. [pub[p] EXCEPT !.phase = "deployed"] \in Calls
    BY <2>1 DEF Calls, Phases
  <2> QED BY <1>5, <2>1, <2>2 DEF Deploy, RuntimeTypeOK
<1>6. ASSUME NEW p \in Publishers, NEW r \in Rules, MarkApplied(p, r) PROVE RuntimeTypeOK'
  BY <1>6, MarkStep DEF RuntimeTypeOK
<1>7. ASSUME NEW p \in Publishers, FindRuntime(p) \/ UpsertRuntime(p) PROVE RuntimeTypeOK'
  <2>1. /\ pub[p] \in Calls /\ pub[p].endpoint \in Endpoints /\ pub[p].artifact \in Artifacts
        /\ pub[p].apply \in BOOLEAN /\ pub[p].found \in BOOLEAN
        /\ record[pub[p].endpoint].published \in BOOLEAN
    BY <1>7 DEF FindRuntime, UpsertRuntime, RuntimeTypeOK, Calls, RuntimeRecords
  <2>2. CASE FindRuntime(p)
    <3>1. [pub[p] EXCEPT !.phase = "noting", !.found = record[pub[p].endpoint].published] \in Calls
      BY <2>1 DEF Calls, Phases
    <3> QED BY <2>2, <3>1 DEF FindRuntime, RuntimeTypeOK
  <2>3. CASE UpsertRuntime(p)
    <3>1. RecordAfter(pub[p]) \in RuntimeRecords
      BY <2>1 DEF RuntimeRecords, RecordAfter
    <3> QED BY <2>3, <3>1 DEF UpsertRuntime, RuntimeTypeOK
  <2> QED BY <1>7, <2>2, <2>3
<1>8. CASE UNCHANGED runtimeVars
  BY <1>8 DEF runtimeVars, RuntimeTypeOK
<1> QED BY <1>1, <1>2, <1>3, <1>4, <1>5, <1>6, <1>7, <1>8 DEF RuntimeNext, PublishStep

-----------------------------------------------------------------------------
(* Clean calls and the marker.                                             *)

\* Rules bound to e (before or after) that do not change leave Compile(e) alone.
LEMMA CompileUnchanged ==
    ASSUME NEW e \in Endpoints,
           \A r \in Rules : \/ rules'[r] = rules[r]
                            \/ /\ rules'[r].spec.endpoint # e
                               /\ Exists(r) => rules[r].spec.endpoint # e
    PROVE  Compile(e)' = Compile(e)
<1> DEFINE Bound == { x \in Rules : Exists(x) /\ rules[x].spec.endpoint = e
                                              /\ rules[x].state = "enabled" }
<1>1. Bound' = Bound
  BY DEF Exists
<1>2. \A r \in Bound : rules'[r] = rules[r]
  BY DEF Exists
<1>3. Compile(e) = { <<r, rules[r].spec>> : r \in Bound }
  BY DEF Compile
<1>4. Compile(e)' = { <<r, rules'[r].spec>> : r \in Bound' }
  BY DEF Compile
<1> HIDE DEF Bound
<1> QED BY <1>1, <1>2, <1>3, <1>4

\* An operator's step leaves every rule it changes pending.
LEMMA ChangedRulesArePending ==
    ASSUME IInv, OperatorStep
    PROVE  \A r \in Rules : rules'[r] # rules[r] => rules'[r].status = "pending"
<1>1. CASE UNCHANGED rules
  BY <1>1
<1>2. ASSUME NEW o \in Operators, SaveCommits(o)
      PROVE  \A r \in Rules : rules'[r] # rules[r] => rules'[r].status = "pending"
  <2>1. /\ rules' = [rules EXCEPT ![op[o].rule] = Written(op[o], Len(updates) + 1)]
        /\ rules \in [Rules -> Docs]
    BY <1>2 DEF SaveCommits, IInv, TypeOK
  <2> QED BY <2>1 DEF Written
<1> QED BY <1>1, <1>2 DEF OperatorStep, Enable, Update, Disable, Rollback, ReadSource, Abandon,
                         SaveConflicts

\* What Met does to a call.
LEMMA MetFacts ==
    ASSUME RuntimeTypeOK, NEW P, NEW E, NEW p \in Publishers
    PROVE  /\ Met(P, E)[p] = NoCall <=> pub[p] = NoCall
           /\ pub[p] # NoCall =>
                 /\ Met(P, E)[p].phase = pub[p].phase
                 /\ Met(P, E)[p].endpoint = pub[p].endpoint
                 /\ Met(P, E)[p].artifact = pub[p].artifact
                 /\ Met(P, E)[p].apply <=> pub[p].apply
                 /\ Met(P, E)[p].found <=> pub[p].found
                 /\ Met(P, E)[p].clean =>
                       /\ pub[p].clean
                       /\ ~(p \in P /\ \E e \in E : Active(p, e))
<1>1. CASE pub[p] = NoCall
  BY <1>1 DEF Met, Active
<1>2. CASE pub[p] \in Calls
  BY <1>2 DEF Met, Calls, NoCall, Phases
<1> QED BY <1>1, <1>2 DEF RuntimeTypeOK

LEMMA ChangeKeepsClean ==
    ASSUME RInv, ChangeRules
    PROVE  CleanCallsAreCurrent' /\ CleanPublicationsMarkRight'
<1> DEFINE E == { rules'[r].spec.endpoint : r \in { x \in Rules : rules'[x] # rules[x] } }
                \cup { rules[r].spec.endpoint :
                         r \in { x \in Rules : Exists(x) /\ rules'[x] # rules[x] } }
<1>1. /\ pub' = Met(Publishers, E) /\ RuntimeTypeOK
      /\ UNCHANGED <<running, previews, record, deploys, overlapped>>
  BY DEF ChangeRules, RInv
<1>2. \A e \in Endpoints : e \notin E => Compile(e)' = Compile(e)
  <2> SUFFICES ASSUME NEW e \in Endpoints, e \notin E
               PROVE  \A r \in Rules : \/ rules'[r] = rules[r]
                                       \/ /\ rules'[r].spec.endpoint # e
                                          /\ Exists(r) => rules[r].spec.endpoint # e
    BY CompileUnchanged
  <2> QED OBVIOUS
<1> HIDE DEF E
<1>3. \A p \in Publishers, e \in Endpoints : Active(p, e)' <=> Active(p, e)
  BY <1>1, MetFacts DEF Active
<1>4. CleanCallsAreCurrent'
  <2> SUFFICES ASSUME NEW p \in Publishers, NEW e \in Endpoints, Active(p, e)', pub'[p].clean
               PROVE  /\ pub'[p].artifact = Compile(e)'
                      /\ \A x \in Publishers : x # p => ~Active(x, e)'
                      /\ pub'[p].phase = "deployed" => running'[e] = pub'[p].artifact
    BY DEF CleanCallsAreCurrent
  <2>1. Active(p, e) /\ pub[p] # NoCall
    BY <1>3 DEF Active
  <2>2. /\ pub[p].clean /\ e \notin E
        /\ pub'[p].artifact = pub[p].artifact /\ pub'[p].phase = pub[p].phase
    BY <1>1, <2>1, MetFacts
  <2> QED BY <1>1, <1>2, <1>3, <2>1, <2>2 DEF RInv, CleanCallsAreCurrent
<1>5. CleanPublicationsMarkRight'
  <2> SUFFICES ASSUME NEW e \in Endpoints, e \notin overlapped, NEW r \in Rules,
                      Exists(r)', rules'[r].spec.endpoint = e, rules'[r].status = "applied"
               PROVE  RunsOf(e, r)' = IF rules'[r].state = "enabled"
                                      THEN {<<r, rules'[r].spec>>} ELSE {}
    BY <1>1 DEF CleanPublicationsMarkRight, MarkerIsTrue
  <2>1. rules'[r] = rules[r]
    BY ChangedRulesArePending DEF ChangeRules, RInv
  <2>2. RunsOf(e, r)' = RunsOf(e, r)
    BY <1>1 DEF RunsOf
  <2> QED BY <2>1, <2>2 DEF RInv, CleanPublicationsMarkRight, MarkerIsTrue, Exists
<1> QED BY <1>4, <1>5

\* A step that leaves rules and cluster alone and makes no call newly active
\* or clean.
LEMMA QuietStep ==
    ASSUME RInv, UNCHANGED <<rules, running, overlapped>>,
           \A p \in Publishers, e \in Endpoints :
               Active(p, e)' => /\ Active(p, e)
                                /\ pub'[p].clean => pub[p].clean
                                /\ pub'[p].artifact = pub[p].artifact
                                /\ pub'[p].phase = "deployed" => pub[p].phase = "deployed"
    PROVE  CleanCallsAreCurrent' /\ CleanPublicationsMarkRight'
<1>1. \A e \in Endpoints : Compile(e)' = Compile(e)
  BY CompileUnchanged
<1>2. CleanCallsAreCurrent'
  BY <1>1 DEF RInv, CleanCallsAreCurrent
<1>3. CleanPublicationsMarkRight'
  BY DEF RInv, CleanPublicationsMarkRight, MarkerIsTrue, RunsOf, Exists
<1> QED BY <1>2, <1>3

LEMMA CompileKeepsClean ==
    ASSUME RInv, NEW p \in Publishers, NEW d \in Endpoints, NEW apply \in BOOLEAN,
           CompileRules(p, d, apply)
    PROVE  CleanCallsAreCurrent' /\ CleanPublicationsMarkRight'
<1> DEFINE c == [phase |-> "compiled", endpoint |-> d, artifact |-> Compile(d),
                 apply |-> apply, clean |-> \A x \in Publishers : ~Active(x, d),
                 found |-> FALSE, left |-> Rules]
<1> DEFINE old == IF apply THEN Met(Publishers, {d}) ELSE pub
<1>1. /\ pub' = [old EXCEPT ![p] = c] /\ pub[p] = NoCall /\ RuntimeTypeOK
      /\ UNCHANGED <<rules, updates, op, running, previews, record, deploys, overlapped>>
  BY DEF CompileRules, RInv
<1>2. old \in [Publishers -> {NoCall} \cup Calls]
  BY <1>1, MetType DEF RuntimeTypeOK
<1>3. pub'[p] = c /\ \A x \in Publishers : x # p => pub'[x] = old[x]
  BY <1>1, <1>2
<1>4. \A e \in Endpoints : Compile(e)' = Compile(e)
  BY <1>1, CompileUnchanged
<1>5. ASSUME NEW x \in Publishers, x # p, NEW e \in Endpoints
      PROVE  /\ Active(x, e)' <=> Active(x, e)
             /\ Active(x, e) => /\ pub'[x].artifact = pub[x].artifact
                                /\ pub'[x].phase = pub[x].phase
                                /\ pub'[x].clean => pub[x].clean /\ ~(apply /\ Active(x, d))
  <2>1. CASE apply
    BY <1>1, <1>3, <1>5, <2>1, MetFacts DEF Active
  <2>2. CASE ~apply
    BY <1>3, <1>5, <2>2 DEF Active
  <2> QED BY <2>1, <2>2
<1>6. \A e \in Endpoints : Active(p, e)' <=> apply /\ e = d
  BY <1>3 DEF Active, NoCall
<1>7. CleanCallsAreCurrent'
  <2> SUFFICES ASSUME NEW y \in Publishers, NEW e \in Endpoints, Active(y, e)', pub'[y].clean
               PROVE  /\ pub'[y].artifact = Compile(e)'
                      /\ \A x \in Publishers : x # y => ~Active(x, e)'
                      /\ pub'[y].phase = "deployed" => running'[e] = pub'[y].artifact
    BY DEF CleanCallsAreCurrent
  <2>1. CASE y = p
    <3>1. e = d /\ pub'[y] = c
      BY <1>3, <1>6, <2>1
    <3>2. \A x \in Publishers : ~Active(x, d)
      BY <3>1
    <3> QED BY <1>4, <1>5, <2>1, <3>1, <3>2
  <2>2. CASE y # p
    <3>1. /\ Active(y, e) /\ pub[y].clean /\ ~(apply /\ Active(y, d))
          /\ pub'[y].artifact = pub[y].artifact /\ pub'[y].phase = pub[y].phase
      BY <1>5, <2>2
    <3>2. ~Active(p, e)'
      BY <1>6, <3>1
    <3> QED BY <1>1, <1>4, <1>5, <3>1, <3>2 DEF RInv, CleanCallsAreCurrent
  <2> QED BY <2>1, <2>2
<1>8. CleanPublicationsMarkRight'
  BY <1>1 DEF RInv, CleanPublicationsMarkRight, MarkerIsTrue, RunsOf, Exists
<1> QED BY <1>7, <1>8

\* When the cluster runs what compiling now gives, it runs every enabled rule
\* of the endpoint and no disabled one.
LEMMA CurrentArtifactIsTrue ==
    ASSUME NEW e \in Endpoints, NEW r \in Rules, running[e] = Compile(e),
           Exists(r), rules[r].spec.endpoint = e
    PROVE  RunsOf(e, r) = IF rules[r].state = "enabled" THEN {<<r, rules[r].spec>>} ELSE {}
BY DEF RunsOf, Compile

LEMMA DeployKeepsClean ==
    ASSUME RInv, NEW p \in Publishers, Deploy(p)
    PROVE  CleanCallsAreCurrent' /\ CleanPublicationsMarkRight'
<1> DEFINE d == pub[p].endpoint
<1>0. /\ pub[p] \in Calls /\ d \in Endpoints /\ pub[p].phase = "confirmed"
      /\ running' = [running EXCEPT ![d] = pub[p].artifact]
      /\ pub' = [pub EXCEPT ![p].phase = "deployed"]
      /\ overlapped' = IF pub[p].clean THEN overlapped ELSE overlapped \cup {d}
      /\ UNCHANGED <<rules, updates, op>>
      /\ running \in [Endpoints -> Artifacts]
      /\ pub \in [Publishers -> {NoCall} \cup Calls]
  BY DEF Deploy, RInv, RuntimeTypeOK, Calls
<1>1. /\ running'[d] = pub[p].artifact
      /\ \A e \in Endpoints : e # d => running'[e] = running[e]
      /\ \A e \in Endpoints : Compile(e)' = Compile(e)
  BY <1>0, CompileUnchanged
<1>2. /\ pub'[p] = [pub[p] EXCEPT !.phase = "deployed"]
      /\ \A x \in Publishers : x # p => pub'[x] = pub[x]
  BY <1>0
<1>3. /\ pub'[p] # NoCall /\ pub'[p].phase = "deployed" /\ pub'[p].endpoint = d
      /\ pub'[p].apply = pub[p].apply /\ pub'[p].clean = pub[p].clean
      /\ pub'[p].artifact = pub[p].artifact
  BY <1>0, <1>2 DEF Calls, NoCall
<1>4. \A x \in Publishers, e \in Endpoints : Active(x, e)' <=> Active(x, e)
  BY <1>0, <1>2, <1>3 DEF Active, Deploy
<1>a. pub[p].apply
  BY DEF Deploy, RInv, ConfirmedCallsApply
<1>5. CleanCallsAreCurrent'
  <2> SUFFICES ASSUME NEW y \in Publishers, NEW e \in Endpoints, Active(y, e)', pub'[y].clean
               PROVE  /\ pub'[y].artifact = Compile(e)'
                      /\ \A x \in Publishers : x # y => ~Active(x, e)'
                      /\ pub'[y].phase = "deployed" => running'[e] = pub'[y].artifact
    BY DEF CleanCallsAreCurrent
  <2>1. /\ Active(y, e) /\ pub[y].clean /\ pub'[y].artifact = pub[y].artifact
    BY <1>2, <1>3, <1>4
  <2>2. /\ pub[y].artifact = Compile(e)
        /\ \A x \in Publishers : x # y => ~Active(x, e)
        /\ pub[y].phase = "deployed" => running[e] = pub[y].artifact
    BY <2>1 DEF RInv, CleanCallsAreCurrent
  <2>3. CASE y = p
    BY <1>1, <1>3, <1>4, <2>2, <2>3 DEF Active
  <2>4. CASE y # p
    <3>1. ~Active(p, e)
      BY <2>2, <2>4
    <3>2. e # d
      BY <1>0, <1>a, <3>1 DEF Active, NoCall
    <3> QED BY <1>1, <1>2, <1>4, <2>2, <2>4, <3>2
  <2> QED BY <2>3, <2>4
<1>6. CleanPublicationsMarkRight'
  <2> SUFFICES ASSUME NEW e \in Endpoints, e \notin overlapped', NEW r \in Rules,
                      Exists(r), rules[r].spec.endpoint = e, rules[r].status = "applied"
               PROVE  RunsOf(e, r)' = IF rules[r].state = "enabled"
                                      THEN {<<r, rules[r].spec>>} ELSE {}
    BY <1>0 DEF CleanPublicationsMarkRight, MarkerIsTrue, Exists
  <2>1. CASE e # d
    BY <1>0, <1>1, <2>1 DEF RInv, CleanPublicationsMarkRight, MarkerIsTrue, RunsOf
  <2>2. CASE e = d
    <3>1. Active(p, e) /\ pub[p].clean
      BY <1>0, <1>a, <2>2 DEF Active, NoCall
    <3>2. running'[e] = Compile(e)'
      BY <1>1, <2>2, <3>1 DEF RInv, CleanCallsAreCurrent
    <3> QED BY <1>0, <3>2 DEF RunsOf, Compile, Exists
  <2> QED BY <2>1, <2>2
<1> QED BY <1>5, <1>6

LEMMA MarkKeepsClean ==
    ASSUME RInv, NEW p \in Publishers, NEW x \in Rules, MarkApplied(p, x)
    PROVE  CleanCallsAreCurrent' /\ CleanPublicationsMarkRight'
<1> DEFINE d == pub[p].endpoint
<1>0. /\ pub[p] \in Calls /\ d \in Endpoints /\ pub[p].phase = "deployed"
      /\ MarkRuntimeRulesApplied(d, x)
      /\ pub' \in [Publishers -> {NoCall} \cup Calls]
      /\ \A y \in Publishers : y # p => pub'[y] = pub[y]
      /\ pub'[p].phase \in {"deployed", "marked"} /\ pub'[p].endpoint = pub[p].endpoint
      /\ pub'[p].artifact = pub[p].artifact /\ pub'[p].clean = pub[p].clean
      /\ \/ pub[p].clean /\ overlapped' \in {overlapped, overlapped \ {d}}
         \/ ~pub[p].clean /\ overlapped' = overlapped \cup {d}
      /\ UNCHANGED running
      /\ pub[p] # NoCall /\ pub[p].apply
  <2>1. RuntimeTypeOK
    BY DEF RInv
  <2>2. pub[p].phase = "deployed" /\ pub[p] # NoCall
    BY <2>1, MarkStep
  <2>3. pub[p].apply
    BY <2>2 DEF RInv, ConfirmedCallsApply
  <2> QED BY <2>1, <2>3, MarkStep
<1>1. /\ \A r \in Rules : /\ rules'[r].spec = rules[r].spec
                          /\ rules'[r].state = rules[r].state
                          /\ rules'[r].current = rules[r].current
      /\ \A r \in Rules : rules[r].spec.endpoint # d => rules'[r] = rules[r]
  BY <1>0 DEF MarkRuntimeRulesApplied, RInv, IInv, TypeOK, Docs
<1>2. \A e \in Endpoints : Compile(e)' = Compile(e)
  <2> SUFFICES ASSUME NEW e \in Endpoints PROVE Compile(e)' = Compile(e)
    OBVIOUS
  <2> DEFINE Bound == { r \in Rules : Exists(r) /\ rules[r].spec.endpoint = e
                                                /\ rules[r].state = "enabled" }
  <2>1. Bound' = Bound
    BY <1>1 DEF Exists
  <2>2. /\ Compile(e) = { <<r, rules[r].spec>> : r \in Bound }
        /\ Compile(e)' = { <<r, rules'[r].spec>> : r \in Bound' }
    BY DEF Compile
  <2>3. \A r \in Bound : rules'[r].spec = rules[r].spec
    BY <1>1
  <2> HIDE DEF Bound
  <2> QED BY <2>1, <2>2, <2>3
<1>4. \A y \in Publishers, e \in Endpoints :
          Active(y, e)' => /\ Active(y, e)
                           /\ pub'[y].clean = pub[y].clean
                           /\ pub'[y].artifact = pub[y].artifact
                           /\ pub'[y].phase = "deployed" => pub[y].phase = "deployed"
  BY <1>0 DEF Active
<1>5. CleanCallsAreCurrent'
  BY <1>0, <1>2, <1>4 DEF RInv, CleanCallsAreCurrent
<1>6. CleanPublicationsMarkRight'
  <2> SUFFICES ASSUME NEW e \in Endpoints, e \notin overlapped', NEW r \in Rules,
                      Exists(r), rules[r].spec.endpoint = e, rules'[r].status = "applied"
               PROVE  RunsOf(e, r) = IF rules[r].state = "enabled"
                                     THEN {<<r, rules[r].spec>>} ELSE {}
    BY <1>0, <1>1 DEF CleanPublicationsMarkRight, MarkerIsTrue, RunsOf, Exists
  <2>1. CASE e # d
    BY <1>0, <1>1, <2>1 DEF RInv, CleanPublicationsMarkRight, MarkerIsTrue
  <2>2. CASE e = d
    <3>1. Active(p, e) /\ pub[p].clean
      BY <1>0, <2>2 DEF Active
    <3>2. running[e] = Compile(e)
      BY <1>0, <3>1 DEF RInv, CleanCallsAreCurrent
    <3> QED BY <3>2, CurrentArtifactIsTrue
  <2> QED BY <2>1, <2>2
<1> QED BY <1>5, <1>6

\* Every other step of a publisher is quiet.
LEMMA OtherStepsKeepClean ==
    ASSUME RInv, NEW p \in Publishers,
           \/ Preview(p) \/ Confirm(p) \/ FindRuntime(p) \/ UpsertRuntime(p) \/ Fail(p)
    PROVE  CleanCallsAreCurrent' /\ CleanPublicationsMarkRight'
<1>0. pub \in [Publishers -> {NoCall} \cup Calls]
  BY DEF RInv, RuntimeTypeOK
<1>1. UNCHANGED <<rules, running, overlapped>>
  BY DEF Preview, Confirm, FindRuntime, UpsertRuntime, Fail
<1>2. \A x \in Publishers : x # p => pub'[x] = pub[x]
  BY <1>0 DEF Preview, Confirm, FindRuntime, UpsertRuntime, Fail
<1>3. CASE Confirm(p)
  <2>1. /\ pub[p].phase = "compiled" /\ pub[p] # NoCall
        /\ pub'[p] = [pub[p] EXCEPT !.phase = "confirmed"] /\ pub[p] \in Calls
    BY <1>0, <1>3 DEF Confirm
  <2>2. /\ pub'[p].phase = "confirmed" /\ pub'[p].endpoint = pub[p].endpoint
        /\ pub'[p].artifact = pub[p].artifact /\ pub'[p].apply = pub[p].apply
        /\ pub'[p].clean = pub[p].clean
    BY <2>1 DEF Calls
  <2>3. \A x \in Publishers, e \in Endpoints :
            Active(x, e)' => /\ Active(x, e)
                             /\ pub'[x].clean => pub[x].clean
                             /\ pub'[x].artifact = pub[x].artifact
                             /\ pub'[x].phase = "deployed" => pub[x].phase = "deployed"
    BY <1>2, <2>1, <2>2 DEF Active
  <2> QED BY <1>1, <2>3, QuietStep
<1>4. CASE Preview(p) \/ FindRuntime(p) \/ UpsertRuntime(p) \/ Fail(p)
  <2>1. pub'[p] = NoCall \/ pub'[p].phase \in {"previewed", "noting"}
    BY <1>0, <1>4 DEF Preview, FindRuntime, UpsertRuntime, Fail, Calls
  <2>2. \A e \in Endpoints : ~Active(p, e)'
    BY <2>1 DEF Active
  <2>3. \A x \in Publishers, e \in Endpoints :
            Active(x, e)' => /\ Active(x, e)
                             /\ pub'[x].clean => pub[x].clean
                             /\ pub'[x].artifact = pub[x].artifact
                             /\ pub'[x].phase = "deployed" => pub[x].phase = "deployed"
    BY <1>2, <2>2 DEF Active
  <2> QED BY <1>1, <2>3, QuietStep
<1> QED BY <1>3, <1>4

LEMMA ConfirmedStep ==
    ASSUME RInv, RuntimeNext
    PROVE  ConfirmedCallsApply'
<1>0. pub \in [Publishers -> {NoCall} \cup Calls]
  BY DEF RInv, RuntimeTypeOK
<1>1. CASE ChangeRules
  <2>1. \A p \in Publishers : /\ pub'[p] = NoCall <=> pub[p] = NoCall
                              /\ pub[p] # NoCall => /\ pub'[p].phase = pub[p].phase
                                                    /\ pub[p].apply => pub'[p].apply
    BY <1>1, MetFacts DEF ChangeRules, RInv
  <2> QED BY <2>1 DEF RInv, ConfirmedCallsApply
<1>2. ASSUME NEW p \in Publishers, NEW e \in Endpoints, NEW apply \in BOOLEAN,
             CompileRules(p, e, apply)
      PROVE  ConfirmedCallsApply'
  <2> DEFINE old == IF apply THEN Met(Publishers, {e}) ELSE pub
  <2>1. old \in [Publishers -> {NoCall} \cup Calls]
    BY <1>0, MetType DEF RInv
  <2>2. pub'[p].phase = "compiled" /\ \A x \in Publishers : x # p => pub'[x] = old[x]
    BY <1>2, <2>1 DEF CompileRules
  <2>3. \A x \in Publishers : /\ old[x] = NoCall <=> pub[x] = NoCall
                              /\ pub[x] # NoCall => /\ old[x].phase = pub[x].phase
                                                    /\ pub[x].apply => old[x].apply
    BY MetFacts DEF RInv
  <2> HIDE DEF old
  <2> QED BY <2>2, <2>3 DEF RInv, ConfirmedCallsApply
<1>3. ASSUME NEW p \in Publishers,
             \/ Preview(p) \/ Confirm(p) \/ Deploy(p) \/ Marks(p)
             \/ FindRuntime(p) \/ UpsertRuntime(p) \/ Fail(p)
      PROVE  ConfirmedCallsApply'
  <2>1. \A x \in Publishers : x # p => pub'[x] = pub[x]
    <3>1. CASE Marks(p)
      BY <3>1, MarkStep DEF Marks, RInv
    <3> QED BY <1>0, <1>3, <3>1 DEF Preview, Confirm, Deploy, FindRuntime, UpsertRuntime, Fail
  <2>2. \/ pub'[p] = NoCall
        \/ pub'[p].phase \in {"previewed", "noting"}
        \/ pub[p].apply /\ pub'[p].apply = pub[p].apply
    <3>1. CASE Preview(p) \/ FindRuntime(p) \/ UpsertRuntime(p) \/ Fail(p)
      BY <1>0, <3>1 DEF Preview, FindRuntime, UpsertRuntime, Fail, Calls
    <3>2. CASE Confirm(p) \/ Deploy(p)
      <4>1. pub[p].apply /\ pub[p] \in Calls
        BY <1>0, <3>2 DEF Confirm, Deploy, RInv, ConfirmedCallsApply
      <4>2. pub'[p].apply = pub[p].apply
        BY <1>0, <3>2, <4>1 DEF Confirm, Deploy, Calls
      <4> QED BY <4>1, <4>2
    <3>3. CASE Marks(p)
      <4>1. pub[p].phase = "deployed" /\ pub[p] # NoCall /\ pub'[p].apply = pub[p].apply
        BY <3>3, MarkStep DEF Marks, RInv
      <4> QED BY <4>1 DEF RInv, ConfirmedCallsApply
    <3> QED BY <1>3, <3>1, <3>2, <3>3
  <2> QED BY <2>1, <2>2 DEF RInv, ConfirmedCallsApply
<1> QED BY <1>1, <1>2, <1>3 DEF RuntimeNext, PublishStep, Marks

-----------------------------------------------------------------------------
(* What a call remembers: previews, deployments and saved rules.           *)

\* Every rule of artifact A was saved, enabled, for endpoint e in history h.
Saved(h, e, A) ==
    \A x \in A :
        \E i \in DOMAIN h :
            /\ h[i].rule = x[1]
            /\ h[i].spec = x[2]
            /\ h[i].state = "enabled"
            /\ x[2].endpoint = e

Previewed(T, e, A) == \E t \in T : t.endpoint = e /\ t.after = A

\* Call q under history h, previews T and deployments d.
Remembers(q, h, T, d) ==
    /\ Saved(h, q.endpoint, q.artifact)
    /\ q.phase = "confirmed" => Previewed(T, q.endpoint, q.artifact)
    /\ q.phase = "previewed" => ~q.apply
    /\ q.apply /\ q.phase \in {"deployed", "marked", "noting"} => q.artifact \in d[q.endpoint]
    /\ q.phase = "noting" /\ q.found => d[q.endpoint] # {}

CallsRemember ==
    \A p \in Publishers : pub[p] # NoCall => Remembers(pub[p], updates, previews, deploys)

PInv ==
    /\ RInv
    /\ CallsRemember
    /\ OnlyPreviewedRulesRun
    /\ RecordFollowsDeployment

\* Histories, previews and deployments only grow.
LEMMA MemoryGrows ==
    ASSUME RInv, RuntimeNext
    PROVE  /\ \A e \in Endpoints : \A A : Saved(updates, e, A) => Saved(updates', e, A)
           /\ previews \subseteq previews'
           /\ \A e \in Endpoints : deploys[e] \subseteq deploys'[e]
<1>1. ASSUME NEW e \in Endpoints, NEW A, Saved(updates, e, A) PROVE Saved(updates', e, A)
  <2>1. updates \in Seq(UpdateRecords)
    BY DEF RInv, IInv, TypeOK
  <2>2. \A i \in DOMAIN updates : i \in DOMAIN updates' /\ updates'[i] = updates[i]
    <3>1. [Next]_ruleVars
      BY RuntimeStepIsRuleStep DEF RInv
    <3>2. CASE updates' = updates
      BY <3>2
    <3>3. ASSUME NEW u \in UpdateRecords, updates' = Append(updates, u)
          PROVE  \A i \in DOMAIN updates : i \in DOMAIN updates' /\ updates'[i] = updates[i]
      BY <2>1, <3>3, AppendFacts
    <3> QED BY <3>1, <3>2, <3>3, HistoryGrows DEF RInv
  <2> QED BY <1>1, <2>2 DEF Saved
<1>2. previews \subseteq previews'
  BY DEF RuntimeNext, ChangeRules, PublishStep, CompileRules, Preview, Confirm, Deploy,
         MarkApplied, FindRuntime, UpsertRuntime, Fail
<1>3. \A e \in Endpoints : deploys[e] \subseteq deploys'[e]
  <2>1. ASSUME NEW p \in Publishers, Deploy(p)
        PROVE  \A e \in Endpoints : deploys[e] \subseteq deploys'[e]
    BY <2>1 DEF Deploy, RInv, RuntimeTypeOK
  <2>2. CASE ~ \E p \in Publishers : Deploy(p)
    BY <2>2 DEF RuntimeNext, ChangeRules, PublishStep, CompileRules, Preview, Confirm,
                MarkApplied, FindRuntime, UpsertRuntime, Fail
  <2> QED BY <2>1, <2>2
<1> QED BY <1>1, <1>2, <1>3

\* A call that a step leaves alone, but perhaps for its clean mark.
LEMMA CallStillRemembers ==
    ASSUME PInv, RuntimeNext, NEW p \in Publishers, pub[p] # NoCall, NEW q,
           q.phase = pub[p].phase, q.endpoint = pub[p].endpoint,
           q.artifact = pub[p].artifact, q.apply <=> pub[p].apply, q.found <=> pub[p].found
    PROVE  Remembers(q, updates', previews', deploys')
<1>1. pub[p].endpoint \in Endpoints
  BY DEF PInv, RInv, RuntimeTypeOK, Calls
<1>2. Remembers(pub[p], updates, previews, deploys)
  BY DEF PInv, CallsRemember
<1>3. Saved(updates', q.endpoint, q.artifact)
  BY <1>1, <1>2, MemoryGrows DEF PInv, Remembers
<1>4. previews \subseteq previews' /\ deploys[q.endpoint] \subseteq deploys'[q.endpoint]
  BY <1>1, MemoryGrows DEF PInv
<1> QED BY <1>2, <1>3, <1>4 DEF Remembers, Previewed

\* What compiling gives was saved, for a document is a copy of a record.
LEMMA CompiledIsSaved ==
    ASSUME RInv, NEW e \in Endpoints
    PROVE  Saved(updates, e, Compile(e))
<1> SUFFICES ASSUME NEW r \in Rules, Exists(r), rules[r].spec.endpoint = e,
                    rules[r].state = "enabled"
             PROVE  \E i \in DOMAIN updates : /\ updates[i].rule = r
                                              /\ updates[i].spec = rules[r].spec
                                              /\ updates[i].state = "enabled"
  BY DEF Saved, Compile
<1> QED BY ReadFacts DEF RInv

\* A step of publisher p that moves its own call on.
LEMMA OwnCallRemembers ==
    ASSUME PInv, NEW p \in Publishers, pub'[p] # NoCall, RuntimeNext,
           Preview(p) \/ Confirm(p) \/ Deploy(p) \/ Marks(p) \/ FindRuntime(p)
    PROVE  Remembers(pub'[p], updates', previews', deploys')
<1> DEFINE q == pub[p]
           e == q.endpoint
<1>1. pub \in [Publishers -> {NoCall} \cup Calls] /\ q # NoCall /\ q \in Calls
  BY DEF PInv, RInv, RuntimeTypeOK, Preview, Confirm, Deploy, Marks, MarkApplied, FindRuntime
<1>2. e \in Endpoints /\ Remembers(q, updates, previews, deploys)
  BY <1>1 DEF PInv, CallsRemember, Calls
<1>3. Saved(updates', e, q.artifact) /\ deploys[e] \subseteq deploys'[e]
  BY <1>2, MemoryGrows DEF PInv, Remembers
<1>4. CASE Preview(p)
  <2>1. pub'[p] = [q EXCEPT !.phase = "previewed"] /\ ~q.apply
    BY <1>1, <1>4 DEF Preview
  <2>2. pub'[p].phase = "previewed" /\ pub'[p].endpoint = e /\ pub'[p].artifact = q.artifact
          /\ (pub'[p].apply <=> q.apply)
    BY <1>1, <2>1 DEF Calls
  <2> QED BY <1>3, <2>1, <2>2 DEF Remembers
<1>5. CASE Confirm(p)
  <2>1. pub'[p] = [q EXCEPT !.phase = "confirmed"] /\ TokenMatches(q) /\ previews' = previews
    BY <1>1, <1>5 DEF Confirm
  <2>2. pub'[p].phase = "confirmed" /\ pub'[p].endpoint = e /\ pub'[p].artifact = q.artifact
    BY <1>1, <2>1 DEF Calls
  <2>3. Previewed(previews, e, q.artifact)
    BY <2>1 DEF TokenMatches, Token, Previewed
  <2> QED BY <1>3, <2>1, <2>2, <2>3 DEF Remembers
<1>6. CASE Deploy(p)
  <2>1. pub'[p] = [q EXCEPT !.phase = "deployed"] /\ q.artifact \in deploys'[e]
    BY <1>1, <1>2, <1>6 DEF Deploy, PInv, RInv, RuntimeTypeOK
  <2>2. pub'[p].phase = "deployed" /\ pub'[p].endpoint = e /\ pub'[p].artifact = q.artifact
    BY <1>1, <2>1 DEF Calls
  <2> QED BY <1>3, <2>1, <2>2 DEF Remembers
<1>7. CASE Marks(p)
  <2>1. /\ q.phase = "deployed" /\ pub'[p].phase \in {"deployed", "marked"}
        /\ pub'[p].endpoint = e /\ pub'[p].artifact = q.artifact /\ pub'[p].apply = q.apply
    BY <1>7, MarkStep DEF Marks, PInv, RInv
  <2> QED BY <1>2, <1>3, <2>1 DEF Remembers
<1>8. CASE FindRuntime(p)
  <2>1. /\ pub'[p] = [q EXCEPT !.phase = "noting", !.found = record[e].published]
        /\ q.phase \in {"marked", "previewed"}
    BY <1>1, <1>8 DEF FindRuntime
  <2>2. /\ pub'[p].phase = "noting" /\ pub'[p].endpoint = e
        /\ pub'[p].artifact = q.artifact
        /\ pub'[p].apply = q.apply /\ pub'[p].found = record[e].published
    BY <1>1, <2>1 DEF Calls
  <2>3. record[e].published => deploys[e] # {}
    BY <1>2 DEF PInv, RecordFollowsDeployment
  <2>4. q.apply => q.artifact \in deploys[e]
    BY <1>2, <2>1 DEF Remembers
  <2> QED BY <1>3, <2>2, <2>3, <2>4 DEF Remembers
<1> QED BY <1>4, <1>5, <1>6, <1>7, <1>8

LEMMA CallsKeepRemembering ==
    ASSUME PInv, RuntimeNext
    PROVE  CallsRemember'
<1>0. pub \in [Publishers -> {NoCall} \cup Calls]
  BY DEF PInv, RInv, RuntimeTypeOK
<1> SUFFICES ASSUME NEW p \in Publishers, pub'[p] # NoCall
             PROVE  Remembers(pub'[p], updates', previews', deploys')
  BY DEF CallsRemember, Remembers, Saved, Previewed
<1>1. ASSUME NEW P, NEW E, pub'[p] = Met(P, E)[p]
      PROVE  Remembers(pub'[p], updates', previews', deploys')
  <2>1. /\ pub[p] # NoCall
        /\ pub'[p].phase = pub[p].phase
        /\ pub'[p].endpoint = pub[p].endpoint
        /\ pub'[p].artifact = pub[p].artifact
        /\ pub'[p].apply <=> pub[p].apply
        /\ pub'[p].found <=> pub[p].found
    BY <1>1, MetFacts DEF PInv, RInv
  <2> QED BY <2>1, CallStillRemembers
<1>2. CASE pub'[p] = pub[p]
  BY <1>2, CallStillRemembers
<1>3. CASE ChangeRules
  BY <1>1, <1>3 DEF ChangeRules
<1>4. ASSUME NEW x \in Publishers, NEW e \in Endpoints, NEW apply \in BOOLEAN,
             CompileRules(x, e, apply)
      PROVE  Remembers(pub'[p], updates', previews', deploys')
  <2> DEFINE old == IF apply THEN Met(Publishers, {e}) ELSE pub
             c == [phase |-> "compiled", endpoint |-> e, artifact |-> Compile(e),
                   apply |-> apply, clean |-> \A y \in Publishers : ~Active(y, e),
                   found |-> FALSE, left |-> Rules]
  <2>1. old \in [Publishers -> {NoCall} \cup Calls]
    BY <1>0, MetType DEF PInv, RInv
  <2>2. pub' = [old EXCEPT ![x] = c] /\ updates' = updates
    BY <1>4 DEF CompileRules
  <2>3. CASE p = x
    <3>1. pub'[p] = c
      BY <2>1, <2>2, <2>3
    <3>2. Saved(updates', e, Compile(e))
      BY <2>2, CompiledIsSaved DEF PInv
    <3> QED BY <3>1, <3>2 DEF Remembers
  <2>4. CASE p # x
    <3>1. pub'[p] = Met(Publishers, {e})[p] \/ pub'[p] = pub[p]
      BY <2>1, <2>2, <2>4
    <3> QED BY <3>1, <1>1, <1>2
  <2> QED BY <2>3, <2>4
<1>5. ASSUME NEW x \in Publishers,
             \/ Preview(x) \/ Confirm(x) \/ Deploy(x) \/ Marks(x)
             \/ FindRuntime(x) \/ UpsertRuntime(x) \/ Fail(x)
      PROVE  Remembers(pub'[p], updates', previews', deploys')
  <2>1. p # x => pub'[p] = pub[p]
    <3>1. CASE Marks(x)
      BY <3>1, MarkStep DEF Marks, PInv, RInv
    <3> QED BY <1>0, <1>5, <3>1 DEF Preview, Confirm, Deploy, FindRuntime, UpsertRuntime, Fail
  <2>2. CASE p = x
    <3>1. ~(UpsertRuntime(x) \/ Fail(x))
      BY <1>0, <2>2 DEF UpsertRuntime, Fail
    <3> QED BY <2>2, <3>1, <1>5, OwnCallRemembers
  <2> QED BY <2>1, <2>2, <1>2
<1> QED BY <1>3, <1>4, <1>5 DEF RuntimeNext, PublishStep, Marks

\* Only a confirmed call changes what runs.
LEMMA OnlyPreviewedStaysRunning ==
    ASSUME PInv, RuntimeNext
    PROVE  OnlyPreviewedRulesRun'
<1>1. ASSUME NEW e \in Endpoints
      PROVE  /\ running'[e] # {} => Previewed(previews', e, running'[e])
             /\ Saved(updates', e, running'[e])
  <2>1. CASE running'[e] = running[e]
    <3>1. Saved(updates, e, running[e])
      BY DEF PInv, OnlyPreviewedRulesRun, Saved
    <3>2. running[e] # {} => Previewed(previews, e, running[e])
      BY DEF PInv, OnlyPreviewedRulesRun, Previewed
    <3> QED BY <2>1, <3>1, <3>2, MemoryGrows DEF PInv, Previewed
  <2>2. ASSUME NEW p \in Publishers, Deploy(p), e = pub[p].endpoint
        PROVE  /\ Previewed(previews', e, running'[e])
               /\ Saved(updates', e, running'[e])
    <3>1. running'[e] = pub[p].artifact
      BY <2>2 DEF Deploy, PInv, RInv, RuntimeTypeOK
    <3>2. Remembers(pub[p], updates, previews, deploys) /\ pub[p].phase = "confirmed"
      BY <2>2 DEF Deploy, PInv, CallsRemember
    <3>3. Saved(updates, e, pub[p].artifact) /\ Previewed(previews, e, pub[p].artifact)
      BY <2>2, <3>2 DEF Remembers
    <3> QED BY <3>1, <3>3, MemoryGrows DEF PInv, Previewed
  <2>3. ASSUME NEW p \in Publishers, Deploy(p), e # pub[p].endpoint
        PROVE  running'[e] = running[e]
    BY <2>3 DEF Deploy, PInv, RInv, RuntimeTypeOK
  <2>4. CASE ~ \E p \in Publishers : Deploy(p)
    BY <2>4, <2>1 DEF RuntimeNext, ChangeRules, PublishStep, CompileRules, Preview, Confirm,
                      MarkApplied, FindRuntime, UpsertRuntime, Fail
  <2> QED BY <2>1, <2>2, <2>3, <2>4
<1> QED BY <1>1 DEF OnlyPreviewedRulesRun, Saved, Previewed

\* Only a call that remembers its deployment makes a document ready.
LEMMA RecordStaysTrue ==
    ASSUME PInv, RuntimeNext
    PROVE  RecordFollowsDeployment'
<1> SUFFICES ASSUME NEW e \in Endpoints
             PROVE  /\ record'[e].status = "ready" => record'[e].artifact \in deploys'[e]
                    /\ record'[e].published => deploys'[e] # {}
  BY DEF RecordFollowsDeployment
<1>1. deploys[e] \subseteq deploys'[e]
  BY MemoryGrows DEF PInv
<1>2. CASE record'[e] = record[e]
  BY <1>1, <1>2 DEF PInv, RecordFollowsDeployment
<1>3. ASSUME NEW p \in Publishers, UpsertRuntime(p), e = pub[p].endpoint
      PROVE  /\ record'[e].status = "ready" => record'[e].artifact \in deploys'[e]
             /\ record'[e].published => deploys'[e] # {}
  <2>1. record'[e] = RecordAfter(pub[p]) /\ pub[p].phase = "noting"
    BY <1>3 DEF UpsertRuntime, PInv, RInv, RuntimeTypeOK
  <2>2. Remembers(pub[p], updates, previews, deploys)
    BY <1>3 DEF UpsertRuntime, PInv, CallsRemember
  <2>3. /\ pub[p].apply => pub[p].artifact \in deploys[e]
        /\ pub[p].found => deploys[e] # {}
    BY <1>3, <2>1, <2>2 DEF Remembers
  <2>4. /\ record'[e].status = "ready" => pub[p].apply
        /\ record'[e].artifact = pub[p].artifact
    BY <2>1 DEF RecordAfter
  <2>5. record'[e].published = (pub[p].apply \/ pub[p].found)
    BY <2>1 DEF RecordAfter
  <2> QED BY <1>1, <2>3, <2>4, <2>5
<1>4. ASSUME NEW p \in Publishers, UpsertRuntime(p), e # pub[p].endpoint
      PROVE  record'[e] = record[e]
  BY <1>4 DEF UpsertRuntime, PInv, RInv, RuntimeTypeOK
<1>5. CASE ~ \E p \in Publishers : UpsertRuntime(p)
  BY <1>5, <1>2 DEF RuntimeNext, ChangeRules, PublishStep, CompileRules, Preview, Confirm,
                    Deploy, MarkApplied, FindRuntime, Fail
<1> QED BY <1>2, <1>3, <1>4, <1>5

-----------------------------------------------------------------------------
(* The theorems.                                                           *)

LEMMA RInvInit == RuntimeInit => RInv
<1> SUFFICES ASSUME RuntimeInit PROVE RInv
  OBVIOUS
<1>1. IInv
  BY InvInit DEF RuntimeInit
<1>2. RuntimeTypeOK
  BY DEF RuntimeInit, RuntimeTypeOK, Artifacts, NoRecord, RuntimeRecords
<1>3. \A p \in Publishers : pub[p] = NoCall
  BY DEF RuntimeInit
<1>4. ConfirmedCallsApply /\ CleanCallsAreCurrent
  BY <1>3 DEF ConfirmedCallsApply, CleanCallsAreCurrent, Active
<1>5. CleanPublicationsMarkRight
  BY DEF RuntimeInit, Init, CleanPublicationsMarkRight, MarkerIsTrue, Exists, NoDoc
<1> QED BY <1>1, <1>2, <1>4, <1>5 DEF RInv

LEMMA RInvNext == RInv /\ [RuntimeNext]_runtimeVars => RInv'
<1> SUFFICES ASSUME RInv, [RuntimeNext]_runtimeVars PROVE RInv'
  OBVIOUS
<1>1. IInv'
  BY RuntimeStepIsRuleStep, InvNext DEF RInv
<1>2. RuntimeTypeOK'
  BY RuntimeTypeStep DEF RInv
<1>3. CASE RuntimeNext
  <2>1. ConfirmedCallsApply'
    BY <1>3, ConfirmedStep
  <2>2. CleanCallsAreCurrent' /\ CleanPublicationsMarkRight'
    BY <1>3, ChangeKeepsClean, CompileKeepsClean, DeployKeepsClean, MarkKeepsClean,
       OtherStepsKeepClean DEF RuntimeNext, PublishStep
  <2> QED BY <1>1, <1>2, <2>1, <2>2 DEF RInv
<1>4. CASE UNCHANGED runtimeVars
  <2>1. ConfirmedCallsApply'
    BY <1>4 DEF runtimeVars, RInv, ConfirmedCallsApply
  <2>2. \A p \in Publishers, e \in Endpoints :
           Active(p, e)' => /\ Active(p, e)
                            /\ pub'[p].clean => pub[p].clean
                            /\ pub'[p].artifact = pub[p].artifact
                            /\ pub'[p].phase = "deployed" => pub[p].phase = "deployed"
    BY <1>4 DEF runtimeVars, Active
  <2>3. CleanCallsAreCurrent' /\ CleanPublicationsMarkRight'
    BY <1>4, <2>2, QuietStep DEF runtimeVars
  <2> QED BY <1>1, <1>2, <2>1, <2>3 DEF RInv
<1> QED BY <1>3, <1>4

\* Every reachable state of the composition satisfies the inductive invariant.
THEOREM RuntimeInvariance == RuntimeSpec => []RInv
BY RInvInit, RInvNext, PTL DEF RuntimeSpec

\* Cluster, calls and runtime documents are always well formed.
THEOREM RuntimeTypeCorrect == RuntimeSpec => []RuntimeTypeOK
<1>1. RInv => RuntimeTypeOK
  BY DEF RInv
<1> QED BY <1>1, RuntimeInvariance, PTL

\* A publication that no change of its endpoint and no other publication met
\* leaves markers that say exactly what runs.
THEOREM CleanPublicationIsRight == RuntimeSpec => []CleanPublicationsMarkRight
<1>1. RInv => CleanPublicationsMarkRight
  BY DEF RInv
<1> QED BY <1>1, RuntimeInvariance, PTL

LEMMA PInvInit == RuntimeInit => PInv
<1> SUFFICES ASSUME RuntimeInit PROVE PInv
  OBVIOUS
<1>1. RInv
  BY RInvInit
<1>2. CallsRemember
  BY DEF RuntimeInit, CallsRemember
<1>3. OnlyPreviewedRulesRun /\ RecordFollowsDeployment
  BY DEF RuntimeInit, OnlyPreviewedRulesRun, RecordFollowsDeployment, NoRecord
<1> QED BY <1>1, <1>2, <1>3 DEF PInv

LEMMA PInvNext == PInv /\ [RuntimeNext]_runtimeVars => PInv'
<1> SUFFICES ASSUME PInv, [RuntimeNext]_runtimeVars PROVE PInv'
  OBVIOUS
<1>1. RInv'
  BY RInvNext DEF PInv
<1>2. CASE RuntimeNext
  BY <1>1, <1>2, CallsKeepRemembering, OnlyPreviewedStaysRunning, RecordStaysTrue DEF PInv
<1>3. CASE UNCHANGED runtimeVars
  BY <1>1, <1>3 DEF runtimeVars, PInv, CallsRemember, Remembers, Saved, Previewed,
                    OnlyPreviewedRulesRun, RecordFollowsDeployment
<1> QED BY <1>2, <1>3

THEOREM MemoryInvariance == RuntimeSpec => []PInv
BY PInvInit, PInvNext, PTL DEF RuntimeSpec

\* Whatever publishers and operators do, an endpoint only runs what was
\* previewed for it, and only rules that were saved, enabled, for it.
THEOREM OnlyPreviewsRun == RuntimeSpec => []OnlyPreviewedRulesRun
<1>1. PInv => OnlyPreviewedRulesRun
  BY DEF PInv
<1> QED BY <1>1, MemoryInvariance, PTL

\* A runtime document is ready only with an artifact that was deployed.
THEOREM RecordIsTrue == RuntimeSpec => []RecordFollowsDeployment
<1>1. PInv => RecordFollowsDeployment
  BY DEF PInv
<1> QED BY <1>1, MemoryInvariance, PTL

\* Both together (RuntimeIsSound).
THEOREM RuntimeIsRight == RuntimeSpec => []RuntimeIsSound
<1>1. PInv => RuntimeIsSound
  BY DEF PInv, RuntimeIsSound
<1> QED BY <1>1, MemoryInvariance, PTL

=============================================================================
