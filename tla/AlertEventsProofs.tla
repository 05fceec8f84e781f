------------------------- MODULE AlertEventsProofs -------------------------
(***************************************************************************)
(* What ingestion records is right for every number of rules, services,    *)
(* payloads and concurrent calls.                                          *)
(*                                                                         *)
(* The argument.  A call that passed the rule check saw the newest record  *)
(* of its rule, for the document is a copy of it (AlertRulesProofs); the   *)
(* history only grows, so that version stays one that was live after the   *)
(* call came in, whatever happens before the event is written.  Events and *)
(* instances are written together, so each instance has its event and each *)
(* event has an instance, which gives the previous states.                 *)
(***************************************************************************)
EXTENDS AlertEvents, AlertRulesProofs

\* What a call holds between its two steps for one alert.
CallsAreChecked ==
    \A c \in Calls :
        call[c] # NoCall =>
            /\ call[c].since <= Len(updates)
            /\ call[c].phase = "apply" =>
                  LiveIn(updates, Head(call[c].batch), call[c].since)

EventsAreDated == \A i \in DOMAIN events : events[i].since <= Len(updates)

EventsHaveInstances ==
    \A i \in DOMAIN events : instances[Fingerprint(events[i].alert)] # NoInstance

EInv ==
    /\ IInv
    /\ EventsTypeOK
    /\ CallsAreChecked
    /\ EventsAreDated
    /\ EventsHaveInstances
    /\ InstanceHasEvent
    /\ HistoryIsConnected
    /\ EventsComeFromLiveRules

-----------------------------------------------------------------------------
(* The rule store underneath.                                              *)

LEMMA EventStepIsRuleStep == [EventsNext]_eventVars => [Next]_ruleVars
BY DEF EventsNext, IngestStep, Tick, Receive, CheckRule, Refuse, ApplyEvent, Fail,
       eventVars, ruleVars

\* A version that was live after length n of the history stays one.
LEMMA LiveVersionsStay ==
    ASSUME NEW S, NEW h \in Seq(S), NEW u \in S, NEW a, NEW n \in Nat,
           n <= Len(h), LiveIn(h, a, n)
    PROVE  LiveIn(Append(h, u), a, n)
<1> DEFINE g == Append(h, u)
<1>1. /\ DOMAIN h = 1 .. Len(h)
      /\ DOMAIN g = 1 .. Len(h) + 1
      /\ \A k \in 1 .. Len(h) : g[k] = h[k]
  OBVIOUS
<1>2. PICK j \in DOMAIN h :
        /\ h[j].rule = a.rule
        /\ h[j].state = "enabled"
        /\ h[j].spec.scope = a.service
        /\ \A k \in j + 1 .. n : h[k].rule # a.rule
  BY DEF LiveIn
<1>3. \A k \in j + 1 .. n : g[k].rule # a.rule
  BY <1>1, <1>2
<1> HIDE DEF g
<1>4. LiveIn(g, a, n)
  BY <1>1, <1>2, <1>3 DEF LiveIn
<1> QED BY <1>4 DEF g

\* Changes of rules keep everything that ingestion recorded.
LEMMA RuleChangeKeeps ==
    ASSUME EInv, [Next]_ruleVars, UNCHANGED ingestVars
    PROVE  EInv'
<1>1. IInv'
  BY InvNext DEF EInv
<1>2. EventsTypeOK' /\ EventsHaveInstances' /\ InstanceHasEvent' /\ HistoryIsConnected'
  BY DEF EInv, ingestVars, EventsTypeOK, EventsHaveInstances, InstanceHasEvent,
         HistoryIsConnected
<1>3. updates \in Seq(UpdateRecords) /\ Len(updates) \in Nat
  BY DEF EInv, IInv, TypeOK
<1>4. \A a, n : n \in Nat /\ n <= Len(updates) /\ LiveIn(updates, a, n)
                  => n <= Len(updates') /\ LiveIn(updates', a, n)
  <2> SUFFICES ASSUME NEW a, NEW n \in Nat, n <= Len(updates), LiveIn(updates, a, n)
               PROVE  n <= Len(updates') /\ LiveIn(updates', a, n)
    OBVIOUS
  <2>1. CASE updates' = updates
    BY <2>1
  <2>2. ASSUME NEW u \in UpdateRecords, updates' = Append(updates, u)
        PROVE  n <= Len(updates') /\ LiveIn(updates', a, n)
    BY <2>2, <1>3, LiveVersionsStay
  <2> QED BY <2>1, <2>2, HistoryGrows DEF EInv
<1>5. Len(updates) <= Len(updates') /\ Len(updates') \in Nat
  BY <1>3, HistoryGrows DEF EInv
<1>6. EventsAreDated' /\ EventsComeFromLiveRules'
  <2> SUFFICES ASSUME NEW i \in DOMAIN events
               PROVE  /\ events[i].since <= Len(updates')
                      /\ LiveIn(updates', events[i].alert, events[i].since)
    BY DEF EventsAreDated, EventsComeFromLiveRules, ingestVars
  <2>1. events[i].since \in Nat
    <3>1. events \in Seq(Events)
      BY DEF EInv, EventsTypeOK
    <3>2. events[i] \in Events
      BY <3>1
    <3> QED BY <3>2 DEF Events
  <2>2. events[i].since <= Len(updates) /\ LiveIn(updates, events[i].alert, events[i].since)
    BY DEF EInv, EventsAreDated, EventsComeFromLiveRules
  <2> QED BY <2>1, <2>2, <1>4
<1>7. CallsAreChecked'
  <2> SUFFICES ASSUME NEW c \in Calls, call[c] # NoCall
               PROVE  /\ call[c].since <= Len(updates')
                      /\ call[c].phase = "apply" =>
                            LiveIn(updates', Head(call[c].batch), call[c].since)
    BY DEF CallsAreChecked, ingestVars
  <2>1. call[c].since \in Nat /\ call[c].since <= Len(updates)
    BY DEF EInv, EventsTypeOK, CallsAreChecked, Ingests
  <2>2. call[c].phase = "apply" => LiveIn(updates, Head(call[c].batch), call[c].since)
    BY DEF EInv, CallsAreChecked
  <2> QED BY <2>1, <2>2, <1>3, <1>4, <1>5
<1> QED BY <1>1, <1>2, <1>6, <1>7 DEF EInv

-----------------------------------------------------------------------------
(* Steps of a call.                                                        *)

\* A step that only changes one call keeps everything but what that call
\* holds, which is to be shown.
LEMMA CallStep ==
    ASSUME EInv, NEW c \in Calls, NEW q \in {NoCall} \cup Ingests,
           call' = [call EXCEPT ![c] = q],
           UNCHANGED <<rules, updates, op, now, instances, events>>,
           q # NoCall => /\ q.since <= Len(updates)
                         /\ q.phase = "apply" => LiveIn(updates, Head(q.batch), q.since)
    PROVE  EInv'
<1>1. IInv'
  BY InvNext DEF EInv, ruleVars
<1>2. EventsTypeOK'
  BY DEF EInv, EventsTypeOK
<1>3. EventsHaveInstances' /\ InstanceHasEvent' /\ HistoryIsConnected'
        /\ EventsAreDated' /\ EventsComeFromLiveRules'
  BY DEF EInv, EventsHaveInstances, InstanceHasEvent, HistoryIsConnected, EventsAreDated,
         EventsComeFromLiveRules
<1>4. CallsAreChecked'
  <2> SUFFICES ASSUME NEW d \in Calls, call'[d] # NoCall
               PROVE  /\ call'[d].since <= Len(updates)
                      /\ call'[d].phase = "apply" =>
                            LiveIn(updates, Head(call'[d].batch), call'[d].since)
    BY DEF CallsAreChecked
  <2>1. CASE d = c
    BY <2>1 DEF EInv, EventsTypeOK
  <2>2. CASE d # c
    BY <2>2 DEF EInv, EventsTypeOK, CallsAreChecked
  <2> QED BY <2>1, <2>2
<1> QED BY <1>1, <1>2, <1>3, <1>4 DEF EInv

LEMMA CallFacts ==
    ASSUME EInv, NEW c \in Calls, call[c] # NoCall
    PROVE  /\ call[c] \in Ingests
           /\ Head(call[c].batch) \in Alerts
           /\ Tail(call[c].batch) \in Seq(Alerts)
           /\ Len(call[c].batch) # 1 => Tail(call[c].batch) # <<>>
<1>1. call[c] \in Ingests
  BY DEF EInv, EventsTypeOK
<1>2. call[c].batch \in Seq(Alerts) /\ call[c].batch # <<>>
  BY <1>1 DEF Ingests
<1>3. Head(call[c].batch) \in Alerts /\ Tail(call[c].batch) \in Seq(Alerts)
  BY <1>2
<1>4. Len(call[c].batch) # 1 => Tail(call[c].batch) # <<>>
  <2> SUFFICES ASSUME Tail(call[c].batch) = <<>> PROVE Len(call[c].batch) = 1
    OBVIOUS
  <2>1. Len(Tail(call[c].batch)) = 0
    <3>1. \A x : x = <<>> => Len(x) = 0
      OBVIOUS
    <3> QED BY <3>1
  <2>2. Len(Tail(call[c].batch)) = Len(call[c].batch) - 1 /\ Len(call[c].batch) \in Nat
    BY <1>2
  <2> QED BY <2>1, <2>2
<1> QED BY <1>1, <1>3, <1>4

LEMMA ReceiveKeeps ==
    ASSUME EInv, NEW c \in Calls, NEW b \in Batches, Receive(c, b)
    PROVE  EInv'
<1> DEFINE q == [phase |-> "rule", batch |-> b, received |-> now, since |-> Len(updates)]
<1>1. b \in Seq(Alerts) \ {<<>>}
  <2>1. PICK n \in 1 .. MaxBatch : b \in [1 .. n -> Alerts]
    BY DEF Batches
  <2>2. b \in Seq(Alerts) /\ DOMAIN b # {}
    BY <2>1, EventBounds
  <2> QED BY <2>2
<1>2. q \in Ingests /\ q.since <= Len(updates)
  BY <1>1 DEF EInv, IInv, TypeOK, EventsTypeOK, Ingests
<1> QED BY <1>2, CallStep DEF Receive

\* The document the rule check reads is a copy of the rule's newest record.
LEMMA CheckRuleKeeps ==
    ASSUME EInv, NEW c \in Calls, CheckRule(c)
    PROVE  EInv'
<1> DEFINE q == [call[c] EXCEPT !.phase = "apply"]
           a == Head(call[c].batch)
<1>1. call[c] \in Ingests /\ a \in Alerts /\ call[c] # NoCall
  BY CallFacts DEF CheckRule
<1>2. q \in Ingests /\ q.since = call[c].since /\ q.batch = call[c].batch
  BY <1>1 DEF Ingests
<1>3. call[c].since <= Len(updates) /\ call[c].since \in Nat
  BY <1>1 DEF EInv, CallsAreChecked, Ingests
<1>4. LiveIn(updates, a, call[c].since)
  <2> DEFINE j == rules[a.rule].current
  <2>1. a.rule \in Rules
    BY <1>1, AlertsAssumption
  <2>2. Exists(a.rule) /\ rules[a.rule].state = "enabled"
          /\ rules[a.rule].spec.scope = a.service
    BY DEF CheckRule, Accepts
  <2>3. /\ j \in DOMAIN updates
        /\ updates[j].rule = a.rule
        /\ updates[j].state = "enabled"
        /\ updates[j].spec.scope = a.service
        /\ \A k \in DOMAIN updates : k > j => updates[k].rule # a.rule
    <3>1. j # NoUpdate /\ j = rules[a.rule].current
      BY <2>2 DEF Exists
    <3>2. /\ j \in DOMAIN updates /\ updates[j].rule = a.rule
          /\ \A k \in DOMAIN updates : k > j => updates[k].rule # a.rule
      BY <2>1, <2>2, <3>1 DEF EInv, IInv, DocumentIsHead, History!IsHead, History!NoUpdate,
                              Exists, NoUpdate
    <3>3. updates[j].state = rules[a.rule].state /\ updates[j].spec = rules[a.rule].spec
      BY <2>1, <2>2 DEF EInv, IInv, DocumentIsHead, Exists
    <3> QED BY <2>2, <3>2, <3>3
  <2>4. \A k \in j + 1 .. call[c].since : k \in DOMAIN updates /\ k > j
    <3>1. Len(updates) \in Nat /\ DOMAIN updates = 1 .. Len(updates)
      <4>1. updates \in Seq(UpdateRecords)
        BY DEF EInv, IInv, TypeOK
      <4> QED BY <4>1
    <3>2. j \in DOMAIN updates
      BY <2>3
    <3>3. call[c].since \in Nat /\ call[c].since <= Len(updates)
      BY <1>3
    <3> DEFINE s == call[c].since
    <3> HIDE DEF j, s
    <3>4. \A k \in j + 1 .. s : k \in DOMAIN updates /\ k > j
      BY <3>1, <3>2, <3>3 DEF s
    <3> QED BY <3>4 DEF s
  <2> HIDE DEF j
  <2> QED BY <2>3, <2>4 DEF LiveIn
<1> HIDE DEF a
<1>5. call' = [call EXCEPT ![c] = q]
  BY <1>1 DEF CheckRule, EInv, EventsTypeOK
<1> QED BY <1>2, <1>3, <1>4, <1>5, CallStep DEF CheckRule, a

LEMMA GiveUpKeeps ==
    ASSUME EInv, NEW c \in Calls, Refuse(c) \/ Fail(c)
    PROVE  EInv'
BY CallStep DEF Refuse, Fail

-----------------------------------------------------------------------------
(* Writing an event and its instance.                                      *)

\* What one application writes is well formed.
LEMMA ApplyFacts ==
    ASSUME EInv, NEW c \in Calls, call[c] # NoCall
    PROVE  /\ EventOf(call[c]) \in Events
           /\ Fingerprint(EventOf(call[c]).alert) \in Fingerprints
           /\ Rest(call[c]) \in {NoCall} \cup Ingests
           /\ Rest(call[c]) # NoCall => /\ Rest(call[c]).since = call[c].since
                                        /\ Rest(call[c]).phase = "rule"
<1> DEFINE q == call[c]
           a == Head(q.batch)
<1>1. /\ q \in Ingests
      /\ a \in Alerts
      /\ Tail(q.batch) \in Seq(Alerts)
      /\ Len(q.batch) # 1 => Tail(q.batch) # <<>>
  BY CallFacts
<1>2. Fingerprint(a) \in Fingerprints
  BY <1>1, AlertsAssumption DEF Fingerprint, Fingerprints
<1>3. PreviousState(q) \in AlertStates \cup {"none"}
  <2>1. instances[Fingerprint(a)] \in {NoInstance} \cup Instances
    BY <1>2 DEF EInv, EventsTypeOK
  <2> QED BY <2>1 DEF PreviousState, NoInstance, Instances
<1>4. StateOf(a, q.received) \in AlertStates
  BY DEF StateOf, AlertStates
<1>5. EventOf(q) \in Events /\ EventOf(q).alert = a
  BY <1>1, <1>3, <1>4 DEF EventOf, Events, Ingests
<1>6. /\ Rest(q) \in {NoCall} \cup Ingests
      /\ Rest(q) # NoCall => Rest(q).since = q.since /\ Rest(q).phase = "rule"
  BY <1>1 DEF Rest, Ingests
<1> QED BY <1>2, <1>5, <1>6

LEMMA ApplyKeeps ==
    ASSUME EInv, NEW c \in Calls, ApplyEvent(c)
    PROVE  EInv'
<1> DEFINE q == call[c]
           e == EventOf(q)
           f == Fingerprint(e.alert)
           n == Len(events)
           inst == [state |-> e.state, alert |-> e.alert, received |-> q.received]
           new == ~Known(e.alert, e.state)
<1>0. q # NoCall /\ q.phase = "apply"
  BY DEF ApplyEvent
<1>1. /\ UNCHANGED <<rules, updates, op, now>>
      /\ new => events' = Append(events, e)
      /\ ~new => events' = events
      /\ instances' = [instances EXCEPT ![f] = inst]
      /\ call' = [call EXCEPT ![c] = Rest(q)]
  BY DEF ApplyEvent
<1>2. e \in Events /\ f \in Fingerprints /\ e.alert = Head(q.batch) /\ e.since = q.since
        /\ e.previous = instances[f].state /\ q \in Ingests
  BY <1>0, ApplyFacts, CallFacts DEF EventOf, PreviousState
<1>3. inst \in Instances /\ inst # NoInstance
  BY <1>2 DEF Events, Instances, Ingests, NoInstance
<1>4. /\ events \in Seq(Events)
      /\ events' \in Seq(Events)
      /\ n \in Nat
      /\ DOMAIN events = 1 .. n
      /\ new => DOMAIN events' = 1 .. n + 1 /\ events'[n + 1] = e
      /\ \A i \in 1 .. n : events'[i] = events[i] /\ i \in DOMAIN events'
      /\ instances \in [Fingerprints -> {NoInstance} \cup Instances]
  <2>1. events \in Seq(Events) /\ instances \in [Fingerprints -> {NoInstance} \cup Instances]
    BY DEF EInv, EventsTypeOK
  <2> HIDE DEF e, new, f, inst
  <2>2. CASE new
    <3>1. events' = Append(events, e) /\ e \in Events
      BY <2>2, <1>1, <1>2
    <3>2. /\ events' \in Seq(Events)
          /\ DOMAIN events' = 1 .. n + 1
          /\ events'[n + 1] = e
          /\ \A i \in 1 .. n : events'[i] = events[i]
      BY <2>1, <3>1, AppendFacts
    <3>3. n \in Nat /\ DOMAIN events = 1 .. n
      BY <2>1
    <3> QED BY <2>1, <3>2, <3>3
  <2>3. CASE ~new
    BY <2>1, <2>3, <1>1
  <2> QED BY <2>1, <2>2, <2>3
<1>5. \A i \in DOMAIN events' : i \in 1 .. n \/ (new /\ i = n + 1)
  <2> HIDE DEF e, new
  <2>1. CASE new
    <3>1. DOMAIN events' = 1 .. n + 1 /\ n \in Nat
      BY <2>1, <1>4
    <3> QED BY <2>1, <3>1
  <2>2. CASE ~new
    BY <2>2, <1>1, <1>4
  <2> QED BY <2>1, <2>2
<1>6. IInv'
  BY <1>1, InvNext DEF EInv, ruleVars
<1>7. EventsTypeOK'
  <2>1. Rest(q) \in {NoCall} \cup Ingests
    BY <1>0, ApplyFacts
  <2> HIDE DEF q, inst, f
  <2> QED BY <2>1, <1>1, <1>3, <1>4 DEF EInv, EventsTypeOK
<1>8. CallsAreChecked'
  <2> SUFFICES ASSUME NEW d \in Calls, call'[d] # NoCall
               PROVE  /\ call'[d].since <= Len(updates)
                      /\ call'[d].phase = "apply" =>
                            LiveIn(updates, Head(call'[d].batch), call'[d].since)
    BY <1>1 DEF CallsAreChecked
  <2>1. CASE d = c
    <3>1. call'[d] = Rest(q)
      BY <2>1, <1>1 DEF EInv, EventsTypeOK
    <3>2. Rest(q).since = q.since /\ Rest(q).phase = "rule"
      BY <3>1, <1>0, ApplyFacts
    <3> QED BY <3>1, <3>2, <1>0 DEF EInv, CallsAreChecked
  <2>2. CASE d # c
    BY <2>2, <1>1 DEF EInv, EventsTypeOK, CallsAreChecked
  <2> QED BY <2>1, <2>2
<1>9. EventsAreDated' /\ EventsComeFromLiveRules'
  <2>1. e.since <= Len(updates) /\ LiveIn(updates, e.alert, e.since)
    BY <1>0, <1>2 DEF EInv, CallsAreChecked
  <2> HIDE DEF e, new
  <2>2. ASSUME NEW i \in DOMAIN events'
        PROVE  events'[i].since <= Len(updates)
                 /\ LiveIn(updates, events'[i].alert, events'[i].since)
    BY <2>1, <1>4, <1>5 DEF EInv, EventsAreDated, EventsComeFromLiveRules
  <2> QED BY <2>2, <1>1 DEF EventsAreDated, EventsComeFromLiveRules
<1>10. EventsHaveInstances'
  <2> SUFFICES ASSUME NEW i \in DOMAIN events'
               PROVE  instances'[Fingerprint(events'[i].alert)] # NoInstance
    BY DEF EventsHaveInstances, Fingerprint
  <2>1. instances'[f] = inst
    BY <1>1, <1>2, <1>4
  <2>2. CASE i \in 1 .. n
    <3>1. instances[Fingerprint(events[i].alert)] # NoInstance
      BY <2>2, <1>4 DEF EInv, EventsHaveInstances
    <3> HIDE DEF f, inst
    <3>2. instances'[Fingerprint(events[i].alert)] # NoInstance
      BY <3>1, <2>1, <1>1, <1>3, <1>4
    <3> QED BY <3>2, <2>2, <1>4
  <2>3. CASE new /\ i = n + 1
    BY <2>1, <2>3, <1>3, <1>4
  <2> QED BY <2>2, <2>3, <1>5
<1>11. InstanceHasEvent'
  <2>1. \E i \in DOMAIN events' :
          /\ Identity(events'[i].alert, events'[i].state) = Identity(e.alert, e.state)
          /\ events'[i].state = e.state
    <3>1. CASE new
      BY <3>1, <1>4
    <3>2. CASE ~new
      <4>1. PICK i \in DOMAIN events :
              Identity(events[i].alert, events[i].state) = Identity(e.alert, e.state)
        BY <3>2 DEF Known
      <4>2. events[i].state = e.state
        BY <4>1 DEF Identity
      <4> HIDE DEF e
      <4> QED BY <4>1, <4>2, <1>4
    <3> QED BY <3>1, <3>2
  <2>2. ASSUME NEW g \in Fingerprints, instances'[g] # NoInstance
        PROVE  /\ Fingerprint(instances'[g].alert) = g
               /\ \E i \in DOMAIN events' :
                    /\ Identity(events'[i].alert, events'[i].state)
                         = Identity(instances'[g].alert, instances'[g].state)
                    /\ events'[i].state = instances'[g].state
    <3>1. CASE g = f
      <4>1. instances'[g] = inst
        BY <3>1, <1>1, <1>2, <1>4
      <4> QED BY <4>1, <3>1, <2>1
    <3>2. CASE g # f
      <4>1. instances'[g] = instances[g]
        BY <3>2, <1>1, <1>4
      <4>2. /\ Fingerprint(instances[g].alert) = g
            /\ \E i \in DOMAIN events :
                 /\ Identity(events[i].alert, events[i].state)
                      = Identity(instances[g].alert, instances[g].state)
                 /\ events[i].state = instances[g].state
        BY <4>1, <2>2 DEF EInv, InstanceHasEvent
      <4> QED BY <4>1, <4>2, <1>4
    <3> QED BY <3>1, <3>2
  <2> QED BY <2>2 DEF InstanceHasEvent, Fingerprint, Identity
<1>12. HistoryIsConnected'
  <2> DEFINE Before(i) == { j \in 1 .. i - 1 :
                              Fingerprint(events'[j].alert) = Fingerprint(events'[i].alert) }
  <2> SUFFICES ASSUME NEW i \in DOMAIN events'
               PROVE  IF Before(i) = {} THEN events'[i].previous = "none"
                      ELSE \E j \in Before(i) : events'[j].state = events'[i].previous
    BY DEF HistoryIsConnected, Fingerprint
  <2>1. CASE i \in 1 .. n
    <3> DEFINE Old == { j \in 1 .. i - 1 :
                          Fingerprint(events[j].alert) = Fingerprint(events[i].alert) }
    <3>1. events'[i] = events[i] /\ \A j \in 1 .. i - 1 : events'[j] = events[j]
      BY <2>1, <1>4
    <3>2. Before(i) = Old
      BY <3>1
    <3>3. IF Old = {} THEN events[i].previous = "none"
          ELSE \E j \in Old : events[j].state = events[i].previous
      BY <2>1, <1>4 DEF EInv, HistoryIsConnected
    <3> QED BY <3>1, <3>2, <3>3
  <2>2. CASE new /\ i = n + 1
    <3>1. events'[i] = e /\ i - 1 = n
      BY <2>2, <1>4
    <3>2. CASE instances[f] = NoInstance
      <4>1. e.previous = "none"
        BY <3>2, <1>2 DEF NoInstance
      <4>2. \A j \in 1 .. n : Fingerprint(events'[j].alert) # f
        BY <3>2, <1>4 DEF EInv, EventsHaveInstances
      <4> QED BY <3>1, <4>1, <4>2
    <3>3. CASE instances[f] # NoInstance
      <4>1. PICK j \in DOMAIN events :
              /\ Identity(events[j].alert, events[j].state)
                   = Identity(instances[f].alert, instances[f].state)
              /\ events[j].state = instances[f].state
        BY <3>3, <1>2 DEF EInv, InstanceHasEvent
      <4>2. Fingerprint(events[j].alert) = f
        BY <3>3, <4>1, <1>2 DEF EInv, InstanceHasEvent, Identity
      <4>3. events'[j] = events[j] /\ j \in Before(i)
        BY <4>2, <3>1, <1>4
      <4>4. events'[j].state = events'[i].previous
        BY <4>1, <4>3, <3>1, <1>2
      <4> QED BY <4>3, <4>4
    <3> QED BY <3>2, <3>3
  <2> QED BY <2>1, <2>2, <1>5
<1> QED BY <1>6, <1>7, <1>8, <1>9, <1>10, <1>11, <1>12 DEF EInv

-----------------------------------------------------------------------------
(* The theorems.                                                           *)

LEMMA EventsStart == EventsInit => EInv
<1> SUFFICES ASSUME EventsInit PROVE EInv
  OBVIOUS
<1>1. IInv
  BY InvInit DEF EventsInit
<1>2. /\ events = <<>>
      /\ DOMAIN events = {}
      /\ \A c \in Calls : call[c] = NoCall
      /\ \A f \in Fingerprints : instances[f] = NoInstance
  BY DEF EventsInit
<1>3. EventsTypeOK
  BY DEF EventsInit, EventsTypeOK
<1> QED BY <1>1, <1>2, <1>3 DEF EInv, CallsAreChecked, EventsAreDated, EventsHaveInstances,
              InstanceHasEvent, HistoryIsConnected, EventsComeFromLiveRules

LEMMA TickKeeps ==
    ASSUME EInv, Tick \/ UNCHANGED eventVars
    PROVE  EInv'
<1>1. UNCHANGED <<rules, updates, op, call, instances, events>> /\ now' \in Nat
  BY DEF Tick, eventVars, EInv, EventsTypeOK
<1>2. IInv'
  BY <1>1, InvNext DEF EInv, ruleVars
<1> QED BY <1>1, <1>2 DEF EInv, EventsTypeOK, CallsAreChecked, EventsAreDated,
              EventsHaveInstances, InstanceHasEvent, HistoryIsConnected, EventsComeFromLiveRules

LEMMA EventsStep == EInv /\ [EventsNext]_eventVars => EInv'
<1> SUFFICES ASSUME EInv, [EventsNext]_eventVars PROVE EInv'
  OBVIOUS
<1>1. CASE Next /\ UNCHANGED ingestVars
  BY <1>1, RuleChangeKeeps
<1>2. CASE IngestStep
  BY <1>2, ReceiveKeeps, CheckRuleKeeps, GiveUpKeeps, ApplyKeeps DEF IngestStep
<1>3. CASE Tick \/ UNCHANGED eventVars
  BY <1>3, TickKeeps
<1> QED BY <1>1, <1>2, <1>3 DEF EventsNext

THEOREM EventInvariance == EventsSpec => []EInv
BY EventsStart, EventsStep, PTL DEF EventsSpec

\* Clock, calls, instances and events are always well formed.
THEOREM EventsTypeCorrect == EventsSpec => []EventsTypeOK
<1>1. EInv => EventsTypeOK
  BY DEF EInv
<1> QED BY <1>1, EventInvariance, PTL

\* Every instance shows a state that a recorded event brought, however calls
\* repeat, overlap or fail.
THEOREM InstancesFollowEvents == EventsSpec => []InstanceHasEvent
<1>1. EInv => InstanceHasEvent
  BY DEF EInv
<1> QED BY <1>1, EventInvariance, PTL

\* The previous states of the events of one fingerprint form a chain.
THEOREM HistoryConnected == EventsSpec => []HistoryIsConnected
<1>1. EInv => HistoryIsConnected
  BY DEF EInv
<1> QED BY <1>1, EventInvariance, PTL

\* A call that comes in after its rule was disabled or moved away records no
\* event, although the rule is read in a step before the event is written.
THEOREM OnlyLiveRulesRaiseEvents == EventsSpec => []EventsComeFromLiveRules
<1>1. EInv => EventsComeFromLiveRules
  BY DEF EInv
<1> QED BY <1>1, EventInvariance, PTL

\* Seen from the rule store, ingestion does nothing: the rules evolve as module
\* AlertRules says.
THEOREM EventsKeepRules == EventsSpec => Spec
<1>1. EventsInit => Init
  BY DEF EventsInit
<1> QED BY <1>1, EventStepIsRuleStep, PTL DEF EventsSpec, Spec
=============================================================================
