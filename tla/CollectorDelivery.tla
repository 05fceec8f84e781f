------------------------- MODULE CollectorDelivery -------------------------
(***************************************************************************)
(* Delivering a Collector Group's configuration over OpAMP: opamp.Manager, *)
(* the state sink that copies agent states to the database, the publish    *)
(* handler and the handlers that move a collector between groups, over the *)
(* group record of module GroupRecord.                                     *)
(*                                                                         *)
(* Each WebSocket connection has a goroutine.  It handles one message at a *)
(* time: under the manager's lock it updates the agent's state and decides *)
(* what to offer; then, without the lock, it runs the sink (two writes to  *)
(* the database) and at last sends the response.  A connection whose agent *)
(* has gone runs the sink once more.  An agent may be back on a new        *)
(* connection long before the goroutine of the old one notices.            *)
(*                                                                         *)
(* The collectors (link, wire, agent) are external: an agent works through *)
(* the offers of its connection in order, ignores an offer of the          *)
(* configuration it already has, and reports the outcome of the others.    *)
(***************************************************************************)
EXTENDS GroupRecord

CONSTANTS
    Agents,         \* instance UIDs
    Connections,    \* WebSocket connections, each used once
    Publishers,     \* publish handlers
    Movers,         \* register/unregister handlers
    Owner,          \* Owner[c]: the agent that opens connection c
    Declared,       \* Declared[u]: group in u's agent description, or NoGroup
    NoGroup, NoConn,
    Capable,        \* agents that accept remote configuration
    Rejected,       \* configurations that collectors fail to apply
    Scenarios,      \* bounds: who takes part, and how often; see Scenario
    MaxWire         \* bound: offers on their way on one connection

ASSUME DeliveryAssumption ==
    /\ Connections \cup Publishers \subseteq Callers
    /\ Connections \cap Publishers = {}
    /\ NoGroup \notin Groups /\ NoConn \notin Connections
    /\ Owner \in [Connections -> Agents] /\ Capable \subseteq Agents
    /\ Declared \in [Agents -> Groups \cup {NoGroup}]

\* A bounded part of the system: the connections that are opened, the handlers
\* that run, what they may deploy and where, and how many deployments, changes
\* by operators and faults there are.
Scenario == [connections : SUBSET Connections, publishers : SUBSET Publishers,
             movers : SUBSET Movers, groups : SUBSET Groups, hashes : SUBSET Hashes,
             sends : Nat, changes : Nat, faults : Nat]

ASSUME ScenarioAssumption == \A s \in Scenarios : s \in Scenario

VARIABLES
    scenario,       \* the bounds of this behaviour
    mgr,            \* manager.agents
    assigned,       \* manager.instanceGroups
    offered,        \* manager.groupPending: the hash of the deployment
    uidConn,        \* manager.uidConnections
    conn,           \* conn[c]: the goroutine of connection c
    link,           \* link[u]: the connection agent u itself uses
    wire,           \* wire[c]: offers sent on c and not received yet
    agent,          \* agent[u]: last configuration u received and its outcome
    instances,      \* instances[u]: the document of collector_instances
    pubs,           \* pubs[p]: the deployment publisher p is sending
    moves,          \* moves[m]: the reassignment m is making
    used,           \* how much of the scenario's bounds is used
    newest,         \* history: last deployment of g since the server started
    sentTo,         \* history: all hashes ever deployed to g
    member,         \* history: groups u was ever in
    ran             \* history: configurations u ever applied

managerVars == <<mgr, assigned, offered, uidConn>>
agentVars == <<link, wire, agent>>
handlerVars == <<pubs, moves, used, scenario>>
historyVars == <<newest, sentTo, member, ran>>
deliveryVars == <<recordVars, managerVars, conn, agentVars, instances,
                  handlerVars, historyVars>>

SomeGroup == Groups \cup {NoGroup}
SomeHash == Hashes \cup {NoHash}

AgentStates == [group : SomeGroup, online : BOOLEAN, hash : SomeHash,
                status : {"unset"} \cup Statuses]
NewState == [group |-> NoGroup, online |-> FALSE, hash |-> NoHash, status |-> "unset"]
NoInstance == [group |-> "none"]

\* snap: the state handed to the sink; offer: what the response will offer.
\* A connection in phase "upsert", "mark" or "respond" is inside the sink.
Goroutines == [phase : {"unused", "open", "upsert", "mark", "respond", "closed"},
               bound : BOOLEAN, snap : AgentStates, offer : SomeHash]
NewGoroutine == [phase |-> "unused", bound |-> FALSE, snap |-> NewState, offer |-> NoHash]

NoDeployment == [phase |-> "none"]
Deployments == [phase : {"sending"}, group : Groups, hash : Hashes,
                targets : SUBSET Connections]
NoMove == [phase |-> "none"]
Moves == [phase : {"write", "register"}, agent : Agents, group : SomeGroup,
          doc : AgentStates]

DeliveryInit ==
    /\ RecordInit
    /\ mgr = [u \in Agents |-> NewState]
    /\ assigned = [u \in Agents |-> NoGroup]
    /\ offered = [g \in Groups |-> NoHash]
    /\ uidConn = [u \in Agents |-> NoConn]
    /\ scenario \in Scenarios
    /\ conn = [c \in Connections |->
                  [NewGoroutine EXCEPT !.phase =
                     IF c \in scenario.connections THEN "unused" ELSE "closed"]]
    /\ link = [u \in Agents |-> NoConn]
    /\ wire = [c \in Connections |-> <<>>]
    /\ agent = [u \in Agents |-> [hash |-> NoHash, status |-> "unset"]]
    /\ instances = [u \in Agents |-> NoInstance]
    /\ pubs = [p \in Publishers |-> NoDeployment]
    /\ moves = [m \in Movers |-> NoMove]
    /\ used = [sends |-> 0, changes |-> 0, faults |-> 0]
    /\ newest = [g \in Groups |-> NoHash]
    /\ sentTo = [g \in Groups |-> {}]
    /\ member = [u \in Agents |-> {}]
    /\ ran = [u \in Agents |-> {}]

JoinHistory(u, g) ==
    member' = IF g = NoGroup THEN member ELSE [member EXCEPT ![u] = @ \cup {g}]

-----------------------------------------------------------------------------
(* The collectors.                                                         *)

Unused(u) == { c \in Connections : Owner[c] = u /\ conn[c].phase = "unused" }

Connect(c) ==
    /\ link[Owner[c]] = NoConn
    /\ conn[c].phase = "unused"
    /\ link' = [link EXCEPT ![Owner[c]] = c]
    /\ conn' = [conn EXCEPT ![c].phase = "open"]
    /\ UNCHANGED <<recordVars, managerVars, wire, agent, instances, handlerVars, historyVars>>

\* The network breaks a connection; what was on its way is lost.  (Bound: an
\* agent keeps a connection to come back with.)
Disconnect(u) ==
    /\ link[u] # NoConn
    /\ Unused(u) # {}
    /\ link' = [link EXCEPT ![u] = NoConn]
    /\ wire' = [wire EXCEPT ![link[u]] = <<>>]
    /\ UNCHANGED <<recordVars, managerVars, conn, agent, instances, handlerVars, historyVars>>

Receive(u) ==
    /\ link[u] # NoConn
    /\ wire[link[u]] # <<>>
    /\ agent[u].status # "applying"
    /\ agent' = IF Head(wire[link[u]]) = agent[u].hash THEN agent
                ELSE [agent EXCEPT ![u] = [hash |-> Head(wire[link[u]]),
                                           status |-> "applying"]]
    /\ wire' = [wire EXCEPT ![link[u]] = Tail(@)]
    /\ UNCHANGED <<recordVars, managerVars, conn, link, instances, handlerVars, historyVars>>

Finish(u) ==
    /\ agent[u].status = "applying"
    /\ agent' = [agent EXCEPT ![u].status =
                   IF agent[u].hash \in Rejected THEN "failed" ELSE "applied"]
    /\ ran' = IF agent[u].hash \in Rejected THEN ran
              ELSE [ran EXCEPT ![u] = @ \cup {agent[u].hash}]
    /\ UNCHANGED <<recordVars, managerVars, conn, link, wire, instances, handlerVars,
                   newest, sentTo, member>>

-----------------------------------------------------------------------------
(* A connection's goroutine.                                               *)

\* MUTANT: any "applied" ends the offer.
AcknowledgesAnyHash(g, reported, report) ==
    reported /\ report.status = "applied" /\ g # NoGroup

\* "applied" for the hash on offer ends the offer, for the whole group.
Acknowledges(g, reported, report) ==
    /\ reported
    /\ report.status = "applied"
    /\ g # NoGroup
    /\ report.hash = offered[g]

\* The part of HandleConnectionMessage under the lock.  The first message of a
\* connection is complete; later ones may omit the description, and the
\* remote config status when the manager has it already.
HandleMessage(c, described, reported) ==
    /\ conn[c].phase = "open"
    /\ link[Owner[c]] = c
    /\ LET u == Owner[c]
           report == IF reported THEN agent[u] ELSE [hash |-> mgr[u].hash, status |-> mgr[u].status]
           g == IF described /\ Declared[u] # NoGroup THEN Declared[u] ELSE assigned[u]
           state == [group |-> g, online |-> TRUE, hash |-> report.hash, status |-> report.status]
           left == IF Acknowledges(g, reported, report) THEN [offered EXCEPT ![g] = NoHash]
                   ELSE offered
       IN  /\ ~conn[c].bound => described /\ reported
           /\ reported \/ report = agent[u]
           /\ mgr' = [mgr EXCEPT ![u] = state]
           /\ assigned' = [assigned EXCEPT ![u] = g]
           /\ offered' = left
           /\ uidConn' = [uidConn EXCEPT ![u] = c]
           /\ conn' = [conn EXCEPT ![c] =
                         [phase |-> "upsert", bound |-> TRUE, snap |-> state,
                          offer |-> IF g = NoGroup THEN NoHash ELSE left[g]]]
           /\ JoinHistory(u, g)
    /\ UNCHANGED <<recordVars, agentVars, instances, handlerVars, newest, sentTo, ran>>

Offline(s) == [s EXCEPT !.online = FALSE]

\* MUTANT: only connectionUIDs is cleaned up.
KeepsConnection(u) == uidConn

WithoutConnection(u) == [uidConn EXCEPT ![u] = NoConn]

\* MarkConnectionClosed: the agent is offline now, whichever connection is
\* its newest.
MarkConnectionClosed(c) ==
    /\ conn[c].phase = "open"
    /\ link[Owner[c]] # c
    /\ LET u == Owner[c]
           state == Offline(mgr[u])
       IN  IF conn[c].bound
           THEN /\ mgr' = [mgr EXCEPT ![u] = state]
                /\ uidConn' = WithoutConnection(u)
                /\ conn' = [conn EXCEPT ![c].phase = "upsert", ![c].snap = state,
                                        ![c].offer = NoHash]
           ELSE /\ conn' = [conn EXCEPT ![c].phase = "closed"]
                /\ UNCHANGED <<mgr, uidConn>>
    /\ UNCHANGED <<recordVars, assigned, offered, agentVars, instances, handlerVars, historyVars>>

AfterUpsert(s) == IF s.group # NoGroup /\ s.hash # NoHash THEN "mark" ELSE "respond"

\* MUTANT: the group of an existing document is kept.
UpsertKeepsGroup(c) ==
    /\ conn[c].phase = "upsert"
    /\ instances' = [instances EXCEPT ![Owner[c]] =
                       IF @ = NoInstance THEN conn[c].snap
                       ELSE [conn[c].snap EXCEPT !.group = instances[Owner[c]].group]]
    /\ conn' = [conn EXCEPT ![c].phase = AfterUpsert(conn[c].snap)]
    /\ UNCHANGED <<recordVars, managerVars, agentVars, handlerVars, historyVars>>

\* The sink, first half: UpsertInstance writes the state it was handed.  Agents
\* keep one identity here, so no report is of an instance another one replaced.
UpsertInstance(c) ==
    /\ conn[c].phase = "upsert"
    /\ instances' = [instances EXCEPT ![Owner[c]] = conn[c].snap]
    /\ conn' = [conn EXCEPT ![c].phase = AfterUpsert(conn[c].snap)]
    /\ UNCHANGED <<recordVars, managerVars, agentVars, handlerVars, historyVars>>

\* The sink, second half: MarkGroupConfigStatus, whose steps are GroupRecord's.
MarkGroupConfigStatus(c) ==
    /\ conn[c].phase = "mark"
    /\ StatusReads(c, conn[c].snap.group, conn[c].snap.hash, conn[c].snap.status)
    /\ conn' = [conn EXCEPT ![c].phase = "respond"]
    /\ UNCHANGED <<managerVars, agentVars, instances, handlerVars, historyVars>>

\* The response to a message, or the end of a closed connection.
Respond(c) ==
    /\ conn[c].phase = "respond"
    /\ calls[c] = NoOperation
    /\ conn' = [conn EXCEPT ![c] = IF conn[c].snap.online
                                   THEN [NewGoroutine EXCEPT !.phase = "open", !.bound = TRUE]
                                   ELSE [NewGoroutine EXCEPT !.phase = "closed"]]
    /\ IF conn[c].offer # NoHash /\ Owner[c] \in Capable /\ link[Owner[c]] = c
       THEN /\ Len(wire[c]) < MaxWire
            /\ wire' = [wire EXCEPT ![c] = Append(@, conn[c].offer)]
       ELSE wire' = wire
    /\ UNCHANGED <<recordVars, managerVars, link, agent, instances, handlerVars, historyVars>>

\* The sink ignores errors of the database.
SinkFails(c) ==
    /\ used.faults < scenario.faults
    /\ used' = [used EXCEPT !.faults = @ + 1]
    /\ \/ /\ conn[c].phase = "upsert"
          /\ conn' = [conn EXCEPT ![c].phase = AfterUpsert(conn[c].snap)]
          /\ UNCHANGED recordVars
       \/ /\ conn[c].phase = "mark"
          /\ conn' = [conn EXCEPT ![c].phase = "respond"]
          /\ UNCHANGED recordVars
       \/ Drop(c) /\ conn' = conn
    /\ UNCHANGED <<scenario, managerVars, agentVars, instances, pubs, moves, historyVars>>

-----------------------------------------------------------------------------
(* The publish handler.                                                    *)

\* MUTANT: every capable agent online is a target.
TargetsEverywhere(g) ==
    { uidConn[u] : u \in { x \in Capable : mgr[x].online /\ uidConn[x] # NoConn } }

Targets(g) ==
    { uidConn[u] : u \in
        { x \in Capable : mgr[x].group = g /\ mgr[x].online /\ uidConn[x] # NoConn } }

\* MUTANT: the deployment is only sent, not kept for whoever comes later.
OnlySending(g, h) == offered

Offering(g, h) == [offered EXCEPT ![g] = h]

\* SendGroupDeployment under the lock: keep the deployment, collect targets.
StartDeployment(p, g, h) ==
    /\ p \in scenario.publishers /\ g \in scenario.groups /\ h \in scenario.hashes
    /\ pubs[p] = NoDeployment
    /\ calls[p] = NoOperation
    /\ used.sends < scenario.sends
    /\ used' = [used EXCEPT !.sends = @ + 1]
    /\ offered' = Offering(g, h)
    /\ pubs' = [pubs EXCEPT ![p] = [phase |-> "sending", group |-> g, hash |-> h,
                                    targets |-> Targets(g)]]
    /\ newest' = [newest EXCEPT ![g] = h]
    /\ sentTo' = [sentTo EXCEPT ![g] = @ \cup {h}]
    /\ UNCHANGED <<scenario, recordVars, mgr, assigned, uidConn, conn, agentVars, instances, moves,
                   member, ran>>

\* One Send.  On a broken connection it may still succeed, into the void.
SendTo(p, c) ==
    /\ pubs[p] # NoDeployment
    /\ c \in pubs[p].targets
    /\ IF link[Owner[c]] = c
       THEN /\ Len(wire[c]) < MaxWire
            /\ wire' = [wire EXCEPT ![c] = Append(@, pubs[p].hash)]
       ELSE /\ conn[c].phase # "closed"
            /\ wire' = wire
    /\ pubs' = [pubs EXCEPT ![p].targets = @ \ {c}]
    /\ UNCHANGED <<scenario, recordVars, managerVars, conn, link, agent, instances, moves, used, historyVars>>

\* The first error ends the handler: the deployment stays on offer, and
\* neither the group document nor the version records hear of it.
SendFails(p, c) ==
    /\ pubs[p] # NoDeployment
    /\ c \in pubs[p].targets
    /\ link[Owner[c]] # c
    /\ pubs' = [pubs EXCEPT ![p] = NoDeployment]
    /\ UNCHANGED <<scenario, recordVars, managerVars, conn, agentVars, instances, moves, used, historyVars>>

MarkGroupPublishPending(p) ==
    /\ pubs[p] # NoDeployment
    /\ pubs[p].targets = {}
    /\ PublishReads(p, pubs[p].group, pubs[p].hash)
    /\ pubs' = [pubs EXCEPT ![p] = NoDeployment]
    /\ UNCHANGED <<scenario, managerVars, conn, agentVars, instances, moves, used, historyVars>>

\* An operator changes something else about the group.
UpdateGroup(p, g) ==
    /\ p \in scenario.publishers /\ g \in scenario.groups
    /\ used.changes < scenario.changes
    /\ used' = [used EXCEPT !.changes = @ + 1]
    /\ EditReads(p, g)
    /\ UNCHANGED <<scenario, managerVars, conn, agentVars, instances, pubs, moves, historyVars>>

\* Replacements and records of the operations in flight.
RecordStep(c) ==
    /\ \/ PublishWrites(c) \/ CreateConfigVersion(c)
       \/ StatusWrites(c) \/ StampVersion(c)
       \/ EditWrites(c)
    /\ UNCHANGED <<managerVars, conn, agentVars, instances, handlerVars, historyVars>>

PublishFails(p) ==
    /\ used.faults < scenario.faults
    /\ used' = [used EXCEPT !.faults = @ + 1]
    /\ Drop(p)
    /\ UNCHANGED <<scenario, managerVars, conn, agentVars, instances, pubs, moves, historyVars>>

-----------------------------------------------------------------------------
(* The handlers that assign a collector to a group, or (NoGroup) to none.  *)

AssignReads(m, u, g) ==
    /\ m \in scenario.movers
    /\ moves[m] = NoMove
    /\ used.changes < scenario.changes
    /\ instances[u] # NoInstance
    /\ used' = [used EXCEPT !.changes = @ + 1]
    /\ moves' = [moves EXCEPT ![m] = [phase |-> "write", agent |-> u, group |-> g,
                                      doc |-> instances[u]]]
    /\ UNCHANGED <<scenario, recordVars, managerVars, conn, agentVars, instances, pubs, historyVars>>

AssignWrites(m) ==
    /\ moves[m].phase = "write"
    /\ instances' = [instances EXCEPT ![moves[m].agent] =
                       [moves[m].doc EXCEPT !.group = moves[m].group]]
    /\ moves' = [moves EXCEPT ![m].phase = "register"]
    /\ UNCHANGED <<scenario, recordVars, managerVars, conn, agentVars, pubs, used, historyVars>>

RegisterInstanceGroup(m) ==
    /\ moves[m].phase = "register"
    /\ LET u == moves[m].agent
           g == moves[m].group
       IN  /\ assigned' = [assigned EXCEPT ![u] = g]
           /\ mgr' = [mgr EXCEPT ![u].group = g]
           /\ JoinHistory(u, g)
    /\ moves' = [moves EXCEPT ![m] = NoMove]
    /\ UNCHANGED <<scenario, recordVars, offered, uidConn, conn, agentVars, instances, pubs, used,
                   newest, sentTo, ran>>

\* The server stops and starts again: the manager's maps, the goroutines and
\* the connections are gone, the database and the collectors stay.  (Bound:
\* every agent that takes part keeps a connection to come back with.)
Restart ==
    /\ used.faults < scenario.faults
    /\ \A u \in Agents : Unused(u) # {} \/ \A c \in scenario.connections : Owner[c] # u
    /\ DropAll
    /\ used' = [used EXCEPT !.faults = @ + 1]
    /\ mgr' = [u \in Agents |-> NewState]
    /\ assigned' = [u \in Agents |-> NoGroup]
    /\ offered' = [g \in Groups |-> NoHash]
    /\ uidConn' = [u \in Agents |-> NoConn]
    /\ conn' = [c \in Connections |->
                  IF conn[c].phase = "unused" THEN conn[c]
                  ELSE [NewGoroutine EXCEPT !.phase = "closed"]]
    /\ link' = [u \in Agents |-> NoConn]
    /\ wire' = [c \in Connections |-> <<>>]
    /\ pubs' = [p \in Publishers |-> NoDeployment]
    /\ moves' = [m \in Movers |-> NoMove]
    /\ newest' = [g \in Groups |-> NoHash]
    /\ UNCHANGED <<scenario, agent, instances, sentTo, member, ran>>

AgentStep ==
    \/ \E c \in Connections : Connect(c)
    \/ \E u \in Agents : Disconnect(u) \/ Receive(u) \/ Finish(u)

ConnectionStep(c) ==
    \/ \E described, reported \in BOOLEAN : HandleMessage(c, described, reported)
    \/ MarkConnectionClosed(c)
    \/ UpsertInstance(c)
    \/ MarkGroupConfigStatus(c)
    \/ Respond(c)
    \/ RecordStep(c)

PublisherStep(p) ==
    \/ \E c \in Connections : SendTo(p, c) \/ SendFails(p, c)
    \/ MarkGroupPublishPending(p)
    \/ RecordStep(p)

MoverStep(m) == AssignWrites(m) \/ RegisterInstanceGroup(m)

DeliveryNext ==
    \/ AgentStep
    \/ \E c \in Connections : ConnectionStep(c) \/ SinkFails(c)
    \/ \E p \in Publishers :
          \/ PublisherStep(p)
          \/ PublishFails(p)
          \/ \E g \in Groups, h \in Hashes : StartDeployment(p, g, h)
          \/ \E g \in Groups : UpdateGroup(p, g)
    \/ \E m \in Movers :
          \/ MoverStep(m)
          \/ \E u \in Agents, g \in SomeGroup : AssignReads(m, u, g)
    \/ Restart

DeliverySpec == DeliveryInit /\ [][DeliveryNext]_deliveryVars

\* Go schedules every goroutine, an agent reconnects, works through its
\* offers and sends heartbeats.  Nobody has to publish or to move anything.
FairDeliverySpec ==
    /\ DeliverySpec
    /\ \A c \in Connections : WF_deliveryVars(Connect(c))
    /\ \A u \in Agents : WF_deliveryVars(Receive(u)) /\ WF_deliveryVars(Finish(u))
    /\ \A c \in Connections : WF_deliveryVars(ConnectionStep(c))
    /\ \A p \in Publishers : WF_deliveryVars(PublisherStep(p))
    /\ \A m \in Movers : WF_deliveryVars(MoverStep(m))

-----------------------------------------------------------------------------
(* Properties.                                                             *)

DeliveryTypeOK ==
    /\ mgr \in [Agents -> AgentStates]
    /\ assigned \in [Agents -> SomeGroup]
    /\ offered \in [Groups -> SomeHash]
    /\ uidConn \in [Agents -> Connections \cup {NoConn}]
    /\ conn \in [Connections -> Goroutines]
    /\ link \in [Agents -> Connections \cup {NoConn}]
    /\ wire \in [Connections -> Seq(Hashes)]
    /\ agent \in [Agents -> [hash : SomeHash, status : {"unset"} \cup Statuses]]
    /\ instances \in [Agents -> AgentStates \cup {NoInstance}]
    /\ pubs \in [Publishers -> {NoDeployment} \cup Deployments]
    /\ moves \in [Movers -> {NoMove} \cup Moves]

\* A collector only ever gets configurations deployed to a group it was in,
\* although offers are decided under the lock and sent after it is released,
\* when the collector may have been moved.
OffersFollowMembership ==
    \A u \in Agents :
        agent[u].hash # NoHash => \E g \in member[u] : agent[u].hash \in sentTo[g]

\* A group shows a configuration as applied only when it was deployed to the
\* group and some collector that was in the group really applied it.
AppliedRanSomewhere ==
    \A g \in Groups :
        groups[g].applied # NoHash =>
            /\ groups[g].applied \in sentTo[g]
            /\ \E u \in Agents : g \in member[u] /\ groups[g].applied \in ran[u]

\* The newest deployment of a group is still on offer, or some collector that
\* was in the group applied it: until then no message, close, move or other
\* deployment takes it off.
NewestStaysOnOffer ==
    \A g \in Groups :
        newest[g] # NoHash =>
            \/ offered[g] = newest[g]
            \/ \E u \in Agents : g \in member[u] /\ newest[g] \in ran[u]

\* Whoever the manager takes for online can be sent to: the connection it
\* keeps is the agent's, and its goroutine has not ended.
OnlineIsReachable ==
    \A u \in Agents :
        /\ mgr[u].online <=> uidConn[u] # NoConn
        /\ uidConn[u] # NoConn =>
              /\ Owner[uidConn[u]] = u
              /\ conn[uidConn[u]].bound
              /\ conn[uidConn[u]].phase # "closed"
              /\ conn[uidConn[u]].phase # "open" => conn[uidConn[u]].snap.online

\* The manager's picture is true: it takes for online whom it can reach, sends a configuration
\* only to members of its group, and hears of one as applied only when a member applied it.
DeliveryIsSound ==
    DeliveryTypeOK /\ OnlineIsReachable /\ OffersFollowMembership /\ AppliedRanSomewhere

\* A published configuration that collectors accept is shown as applied in the
\* end, even when a collector reports it before the handler has recorded it.
PublishedIsApplied ==
    \A g \in Groups : \A h \in Hashes \ Rejected :
        groups[g].desired = h ~> groups[g].desired # h \/ groups[g].publish = "applied"

\* A close that is noticed after the agent is back does not leave the agent
\* offline, unreachable, or in the database under another group for good.
InstanceSettles ==
    \A u \in Agents :
        (\E c \in scenario.connections : Owner[c] = u) =>
        <>[](/\ mgr[u].online /\ uidConn[u] = link[u]
             /\ instances[u] # NoInstance
             /\ instances[u].online /\ instances[u].group = assigned[u])
=============================================================================
