------------------------ MODULE ObservabilityEndpoints ------------------------
(***************************************************************************)
(* The endpoints of the observability back ends: one collection that two      *)
(* services write, internal/observability/endpoint those for metrics, and        *)
(* internal/logs those for logs.  Any of them can be tested while it is edited.    *)
(* Of an endpoint its kind, its name, its status and its health are kept; the          *)
(* addresses and the rest of its configuration travel with the status.                   *)
(***************************************************************************)
EXTENDS Naturals, Sequences, TLC

CONSTANTS
    EndpointCallers,
    EndpointNames,     \* without regard to case
    MaxEndpoints       \* bound

VARIABLES
    endpoints,         \* the documents; IDs are positions
    endpointCalls,
    intended,          \* history: the documents as they were edited and tested, until overlapped
    overlapped          \* history: something was written between the read and the write of another

endpointVars == <<endpoints, endpointCalls, intended, overlapped>>

EndpointStatuses == {"active", "disabled"}

EndpointKinds == {"metrics", "logs"}

NoHealth == "unknown"

NoEndpointCall == [phase |-> "ended"]

EndpointsInit ==
    /\ endpoints = <<>>
    /\ endpointCalls = [c \in EndpointCallers |-> NoEndpointCall]
    /\ intended = <<>>
    /\ overlapped = FALSE

-------------------------------------------------------------------------------
EndpointBegins(c) == endpointCalls[c].phase = "ended"

EndpointStep(c, call) ==
    /\ endpointCalls' = [endpointCalls EXCEPT ![c] = call]
    /\ UNCHANGED <<endpoints, intended, overlapped>>

\* A write, and what it is meant to leave; those that have read something for a write of
\* theirs may not know.
EndpointsWritten(c, documents, meant) ==
    /\ endpoints' = documents
    /\ endpointCalls' = [endpointCalls EXCEPT ![c] = NoEndpointCall]
    /\ overlapped' = (overlapped \/ \E d \in EndpointCallers \ {c} :
                        endpointCalls[d].phase \in {"insert", "unique", "replace", "record"})
    /\ intended' = IF overlapped' THEN <<>> ELSE meant

\* Among all endpoints, those of the other service too.
NameExists(name, id) == \E i \in (DOMAIN endpoints) \ {id} : endpoints[i].name = name

ProposeEndpoint(c, kind, name) ==
    /\ EndpointBegins(c)
    /\ ~NameExists(name, 0)
    /\ EndpointStep(c, [phase |-> "insert", kind |-> kind, name |-> name])

CreateEndpoint(c, name) == ProposeEndpoint(c, "metrics", name)

\* The service of logs takes any kind, for a sink it knows.
CreateLogEndpoint(c, kind, name) == ProposeEndpoint(c, kind, name)

InsertEndpoint(c, status) ==
    /\ endpointCalls[c].phase = "insert"
    /\ Len(endpoints) < MaxEndpoints
    /\ LET endpoint == [kind |-> endpointCalls[c].kind, name |-> endpointCalls[c].name,
                         status |-> status, health |-> NoHealth]
       IN  EndpointsWritten(c, Append(endpoints, endpoint), Append(intended, endpoint))

UpdateReadsEndpoint(c, id) ==
    /\ EndpointBegins(c)
    /\ EndpointStep(c, [phase |-> "unique", id |-> id, current |-> endpoints[id]])

\* The kind stays.
ReviseEndpoint(c, endpoint) ==
    LET call == endpointCalls[c]
    IN  /\ ~NameExists(endpoint.name, call.id)
        /\ EndpointStep(c, [phase |-> "replace", id |-> call.id, endpoint |-> endpoint])

\* The service of metrics keeps the health it read, even when the address is another.
UpdateEndpoint(c, name, status) ==
    /\ endpointCalls[c].phase = "unique" /\ endpointCalls[c].current.kind = "metrics"
    /\ ReviseEndpoint(c, [endpointCalls[c].current EXCEPT !.name = name, !.status = status])

\* The service of logs stores the request, which knows no health.
UpdateLogEndpoint(c, name, status) ==
    /\ endpointCalls[c].phase = "unique"
    /\ ReviseEndpoint(c, [endpointCalls[c].current EXCEPT !.name = name, !.status = status,
                                                          !.health = NoHealth])

ReplaceEndpoint(c) ==
    /\ endpointCalls[c].phase = "replace"
    /\ LET id == endpointCalls[c].id
           endpoint == endpointCalls[c].endpoint
       IN  EndpointsWritten(c, [endpoints EXCEPT ![id] = endpoint],
                            [endpoints EXCEPT ![id].name = endpoint.name, ![id].status = endpoint.status,
                                ![id].health = IF endpoint.health = NoHealth THEN NoHealth ELSE @])

-------------------------------------------------------------------------------
\* Tests

TestReadsEndpoint(c, id) ==
    /\ EndpointBegins(c)
    /\ EndpointStep(c, [phase |-> "probe", id |-> id, endpoint |-> endpoints[id]])

\* A query for a constant.
testVictoriaMetrics == {"healthy", "failed"}

\* Only an enabled back end for metrics is asked.
testEndpoint(endpoint) ==
    CASE endpoint.status = "disabled" -> {"failed"}
      [] endpoint.status # "disabled" /\ endpoint.kind = "metrics" -> testVictoriaMetrics
      [] OTHER -> {"pending"}

\* MUTANT: the document that was read before the probe is written back.
PersistsWhatWasProbed(c) ==
    /\ endpointCalls[c].phase = "probe"
    /\ \E status \in testEndpoint(endpointCalls[c].endpoint) :
           EndpointStep(c, [phase |-> "record", id |-> endpointCalls[c].id,
                            endpoint |-> [endpointCalls[c].endpoint EXCEPT !.health = status]])

\* After the probe the document is read once more.
persistHealth(c) ==
    /\ endpointCalls[c].phase = "probe"
    /\ \E status \in testEndpoint(endpointCalls[c].endpoint) :
           EndpointStep(c, [phase |-> "record", id |-> endpointCalls[c].id,
                            endpoint |-> [endpoints[endpointCalls[c].id] EXCEPT !.health = status]])

RecordHealth(c) ==
    /\ endpointCalls[c].phase = "record"
    /\ LET id == endpointCalls[c].id
           endpoint == endpointCalls[c].endpoint
       IN  EndpointsWritten(c, [endpoints EXCEPT ![id] = endpoint],
                            [endpoints EXCEPT ![id].health = endpoint.health])

\* A check refuses, the store fails, or the process stops.  When the audit event of a change
\* cannot be written the caller is told of a failure, but the change stays.
EndpointCallFails(c) ==
    /\ endpointCalls[c].phase # "ended"
    /\ EndpointStep(c, NoEndpointCall)

EndpointsNext ==
    \E c \in EndpointCallers :
        \/ \E name \in EndpointNames :
               \/ CreateEndpoint(c, name)
               \/ \E kind \in EndpointKinds : CreateLogEndpoint(c, kind, name)
               \/ \E status \in EndpointStatuses :
                      UpdateEndpoint(c, name, status) \/ UpdateLogEndpoint(c, name, status)
        \/ \E status \in EndpointStatuses : InsertEndpoint(c, status)
        \/ \E id \in DOMAIN endpoints : UpdateReadsEndpoint(c, id) \/ TestReadsEndpoint(c, id)
        \/ ReplaceEndpoint(c) \/ persistHealth(c) \/ RecordHealth(c)
        \/ EndpointCallFails(c)

EndpointsSpec == EndpointsInit /\ [][EndpointsNext]_endpointVars

-------------------------------------------------------------------------------
\* However long a probe takes, a test changes nothing but the health, and an update leaves
\* the health as it is or clears it: unless something was written in the short time between a
\* read and the write it was for, every endpoint is what the edits and the tests were meant to
\* leave, applied to what was there at that moment, and no two of them have one name.
EditsSurviveTests ==
    ~overlapped =>
        /\ endpoints = intended
        /\ \A i, j \in DOMAIN endpoints : endpoints[i].name = endpoints[j].name => i = j
===============================================================================
