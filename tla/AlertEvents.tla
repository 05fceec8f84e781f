---------------------------- MODULE AlertEvents ----------------------------
(***************************************************************************)
(* Alert ingestion: EventIngestor.IngestAlerts over the rule store of      *)
(* module AlertRules.                                                      *)
(*                                                                         *)
(* vmalert, which is outside this code, posts batches of alerts.  It may   *)
(* post the same alert again, late, or after a newer one, so every payload *)
(* of Alerts may arrive at any time and any number of times.  A call takes *)
(* its batch alert by alert: it reads the rule the alert names, and then   *)
(* writes event and instance in one transaction; the first alert that is   *)
(* refused ends the call and keeps what the earlier ones wrote.            *)
(***************************************************************************)
EXTENDS AlertRules

CONSTANTS
    Services,       \* values of the label service_id
    Alerts,         \* payloads that may be posted
    Calls,          \* concurrent calls of the ingest endpoint
    MaxBatch,       \* bound: alerts in one call
    MaxEvents,      \* bound: events recorded in all
    MaxTime         \* bound: the server's clock

ASSUME AlertsAssumption ==
    Alerts \subseteq [rule : Rules, service : Services,
                      status : STRING, starts : Nat, ends : Nat]

ASSUME EventBounds == MaxBatch \in Nat /\ MaxEvents \in Nat /\ MaxTime \in Nat

VARIABLES
    now,            \* the server's clock
    call,           \* call[c]: the request call c is executing
    instances,      \* collection alert_instances, by fingerprint
    events          \* collection alert_events, in the order of insertion

ingestVars == <<now, call, instances, events>>
eventVars == <<rules, updates, op, now, call, instances, events>>

NoTime == 0
NoCall == [phase |-> "none"]
NoInstance == [state |-> "none"]
AlertStates == {"firing", "resolved"}
Statuses == {"", "firing", "resolved"}

\* Alerts posted by vmalert carry no fingerprint, so it is derived from the
\* rule and the labels that identify the series: here one series per service.
Fingerprint(a) == <<a.rule, a.service>>
Fingerprints == Rules \X Services

\* An alert without a status has resolved when its end is not after the
\* moment the request was received.
StateOf(a, received) ==
    IF \/ a.status = "resolved"
       \/ a.status = "" /\ a.ends # NoTime /\ a.ends <= received
    THEN "resolved" ELSE "firing"

\* MUTANT: the identity of an event leaves out its state.
IdentityWithoutState(a, state) == <<Fingerprint(a), a.starts, a.ends>>

\* eventIdentity: a digest is what it was computed from.
Identity(a, state) == <<Fingerprint(a), state, a.starts, a.ends>>

Batches == UNION { [1 .. n -> Alerts] : n \in 1 .. MaxBatch }

\* since (history): the length of the rule history when the call came in.
Ingests == [phase : {"rule", "apply"}, batch : Seq(Alerts) \ {<<>>},
            received : Nat, since : Nat]

Instances == [state : AlertStates, alert : Alerts, received : Nat]

\* An event keeps the labels of its alert; since is history.
Events == [alert : Alerts, previous : AlertStates \cup {"none"},
           state : AlertStates, received : Nat, since : Nat]

EventsInit ==
    /\ Init
    /\ now = 1
    /\ call = [c \in Calls |-> NoCall]
    /\ instances = [f \in Fingerprints |-> NoInstance]
    /\ events = <<>>

-----------------------------------------------------------------------------
(* One call.                                                               *)

\* receivedAt is read once, for the whole batch.
Receive(c, b) ==
    /\ call[c] = NoCall
    /\ call' = [call EXCEPT ![c] = [phase |-> "rule", batch |-> b, received |-> now,
                                    since |-> Len(updates)]]
    /\ UNCHANGED <<rules, updates, op, now, instances, events>>

\* normalizeAlertIngestEvent and validateRule.
Accepts(a) ==
    /\ a.status \in Statuses
    /\ Exists(a.rule)
    /\ rules[a.rule].state = "enabled"
    /\ rules[a.rule].spec.scope = a.service

CheckRule(c) ==
    /\ call[c] # NoCall
    /\ call[c].phase = "rule"
    /\ Accepts(Head(call[c].batch))
    /\ call' = [call EXCEPT ![c].phase = "apply"]
    /\ UNCHANGED <<rules, updates, op, now, instances, events>>

\* The rest of the batch is dropped with the alert that is refused.
Refuse(c) ==
    /\ call[c] # NoCall
    /\ call[c].phase = "rule"
    /\ ~Accepts(Head(call[c].batch))
    /\ call' = [call EXCEPT ![c] = NoCall]
    /\ UNCHANGED <<rules, updates, op, now, instances, events>>

\* MUTANT: only the first alert of a batch is checked.
RestUnchecked(q) ==
    IF Len(q.batch) = 1 THEN NoCall ELSE [q EXCEPT !.batch = Tail(q.batch)]

\* The call after its first alert was applied.
Rest(q) ==
    IF Len(q.batch) = 1 THEN NoCall
    ELSE [q EXCEPT !.phase = "rule", !.batch = Tail(q.batch)]

\* MUTANT: the instance is replaced before it is read.
PreviousIsNew(q) == StateOf(Head(q.batch), q.received)

PreviousState(q) == instances[Fingerprint(Head(q.batch))].state

EventOf(q) ==
    [alert |-> Head(q.batch), previous |-> PreviousState(q),
     state |-> StateOf(Head(q.batch), q.received), received |-> q.received,
     since |-> q.since]

Known(a, state) ==
    \E i \in DOMAIN events : Identity(events[i].alert, events[i].state) = Identity(a, state)

\* ApplyAlertEvent, one transaction: an event with a known identity is not
\* inserted again, the instance is replaced either way.
ApplyEvent(c) ==
    /\ call[c] # NoCall
    /\ call[c].phase = "apply"
    /\ LET q == call[c]
           e == EventOf(q)
       IN  /\ \/ Known(e.alert, e.state) /\ UNCHANGED events
              \/ /\ ~Known(e.alert, e.state)
                 /\ Len(events) < MaxEvents
                 /\ events' = Append(events, e)
           /\ instances' = [instances EXCEPT ![Fingerprint(e.alert)] =
                [state |-> e.state, alert |-> e.alert, received |-> q.received]]
           /\ call' = [call EXCEPT ![c] = Rest(q)]
    /\ UNCHANGED <<rules, updates, op, now>>

\* The database fails, a transaction is aborted, the client goes away, or the
\* server stops: what earlier alerts of the batch wrote stays.
Fail(c) ==
    /\ call[c] # NoCall
    /\ call' = [call EXCEPT ![c] = NoCall]
    /\ UNCHANGED <<rules, updates, op, now, instances, events>>

Tick ==
    /\ now < MaxTime
    /\ now' = now + 1
    /\ UNCHANGED <<rules, updates, op, call, instances, events>>

IngestStep ==
    \E c \in Calls :
        \/ \E b \in Batches : Receive(c, b)
        \/ CheckRule(c)
        \/ Refuse(c)
        \/ ApplyEvent(c)
        \/ Fail(c)

EventsNext ==
    \/ Next /\ UNCHANGED ingestVars
    \/ IngestStep
    \/ Tick

EventsSpec == EventsInit /\ [][EventsNext]_eventVars

-----------------------------------------------------------------------------
(* Properties.                                                             *)

\* Clock, calls, instances and events are well formed; a call in progress
\* always has an alert left to take.
EventsTypeOK ==
    /\ now \in Nat
    /\ call \in [Calls -> {NoCall} \cup Ingests]
    /\ instances \in [Fingerprints -> {NoInstance} \cup Instances]
    /\ events \in Seq(Events)

\* An instance never shows a state the history does not explain: the event it
\* names as its last one is recorded, with that fingerprint and that state.
InstanceHasEvent ==
    \A f \in Fingerprints :
        instances[f] # NoInstance =>
            /\ Fingerprint(instances[f].alert) = f
            /\ \E i \in DOMAIN events :
                /\ Identity(events[i].alert, events[i].state)
                     = Identity(instances[f].alert, instances[f].state)
                /\ events[i].state = instances[f].state

\* The previous states chain the history of a fingerprint: its first event has
\* none, and any other takes over a state that an earlier event brought.
HistoryIsConnected ==
    \A i \in DOMAIN events :
        LET Before == { j \in 1 .. i - 1 :
                          Fingerprint(events[j].alert) = Fingerprint(events[i].alert) }
        IN  IF Before = {} THEN events[i].previous = "none"
            ELSE \E j \in Before : events[j].state = events[i].previous

\* Some version of the rule an alert names is enabled in the alert's service,
\* and was the rule's newest one in the history h at or after its length n.
LiveIn(h, a, n) ==
    \E j \in DOMAIN h :
        /\ h[j].rule = a.rule
        /\ h[j].state = "enabled"
        /\ h[j].spec.scope = a.service
        /\ \A k \in j + 1 .. n : h[k].rule # a.rule

\* Although rule and event are read and written in separate steps, a call that
\* comes in after a rule was disabled or moved records no event for it.
EventsComeFromLiveRules ==
    \A i \in DOMAIN events : LiveIn(updates, events[i].alert, events[i].since)

\* A payload whose event is already recorded has been delivered before.
Delivered(a) == \E i \in DOMAIN events : events[i].alert = a

\* What the design document promises of ingestion: writes are idempotent, so an
\* alert delivered once more changes neither the history nor any state.
DeliveryIsIdempotent ==
    [][\A c \in Calls :
          ApplyEvent(c) /\ Delivered(Head(call[c].batch)) =>
              /\ UNCHANGED events
              /\ \A f \in Fingerprints : instances'[f].state = instances[f].state
      ]_eventVars
=============================================================================
