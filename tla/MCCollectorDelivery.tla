------------------------ MODULE MCCollectorDelivery ------------------------
(* Small fleets: connections a1, a2 belong to agent a, b1 to b, c1 and c2   *)
(* to c.  Agents a and b name g1 in their description, c names no group.    *)
EXTENDS CollectorDelivery, TLC

CONSTANTS a, b, c, a1, a2, b1, c1, c2, p1, p2, m1, m2, g1, g2, h1, h2, h3

MCCallers == Connections \cup Publishers
MCOwner == (a1 :> a) @@ (a2 :> a) @@ (b1 :> b) @@ (c1 :> c) @@ (c2 :> c)
MCDeclared == (a :> g1) @@ (b :> g1) @@ (c :> NoGroup)

\* One group, one publisher, one configuration, unless said otherwise.
Small == [connections |-> {a1}, publishers |-> {p1}, movers |-> {}, groups |-> {g1},
          hashes |-> {h1}, sends |-> 2, changes |-> 0, faults |-> 0]

\* Two publishers deploy two configurations, the group is edited meanwhile.
Overlap == [Small EXCEPT !.publishers = {p1, p2}, !.hashes = {h1, h3}]
Edited == [Small EXCEPT !.publishers = {p1, p2}, !.sends = 1, !.changes = 1]
\* Two collectors of one group.
Fleet == [Small EXCEPT !.connections = {a1, b1}, !.sends = 1]
\* A collector comes back, with a fault, and may reject the configuration (h2).
Reconnect == [Small EXCEPT !.connections = {a1, a2}, !.hashes = {h1, h2}, !.sends = 1,
                           !.faults = 1]
\* A collector is moved between two groups, one of which is deployed to.
Moved == [Small EXCEPT !.connections = {c1}, !.movers = {m1}, !.groups = {g1, g2},
                       !.sends = 1, !.changes = 2]
SafetyScenarios == {Overlap, Edited, Fleet, Reconnect, Moved}

\* For the liveness properties: one publication with a reconnect, and two
\* concurrent reassignments with a reconnect.
Settles == [Reconnect EXCEPT !.hashes = {h1}, !.faults = 0]
Reassigned == [Small EXCEPT !.connections = {c1, c2}, !.movers = {m1, m2},
                            !.publishers = {}, !.groups = {g1, g2}, !.sends = 0,
                            !.changes = 2]
LivenessScenarios == {Settles, Reassigned}

PublisherSymmetry == Permutations(Publishers)
=============================================================================
