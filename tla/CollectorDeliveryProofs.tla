---------------------- MODULE CollectorDeliveryProofs ----------------------
(*************************************************************************************************)
(* The record of a group stays sound under everything the OpAMP delivery does, whoever is online *)
(* can be sent to, configurations come from groups a collector was in, and the newest deployment *)
(* stays on offer until somebody applied it.                                                     *)
(*                                                                                               *)
(* The argument.  TInv: types, and whoever names a configuration names its status; with it every *)
(* step of the delivery is a step of GroupRecord or leaves the record alone, so that the record's *)
(* own invariant carries over.  ReachNext: the connection of an agent that is online is one that *)
(* knows it.  HInv: the configurations that agents, goroutines, wires and deployments hold were  *)
(* sent to a group the agent was in.  It follows from Effect, which says what any step may do to *)
(* memberships, offers and outcomes.  BInv: the documents, stored or held by a call, show as     *)
(* applied only what some collector of the group ran.                                            *)
(*************************************************************************************************)
EXTENDS CollectorDelivery, TLAPS

(***************************************************************************)
(* However calls overwrite each other, a group document stays the document *)
(* of one publication; and as long as nothing was overwritten unread, the  *)
(* version records follow the group.                                       *)
(*                                                                         *)
(* The argument.  A document is replaced by one that was read before and   *)
(* changed since, so the documents that calls hold must be as consistent   *)
(* as the stored ones (CallsAreSound).  A number that a publication has    *)
(* taken and not yet recorded counts like a recorded one                   *)
(* (InsertsFollowGroup).                                                   *)
(***************************************************************************)
CallIsSound(q) ==
    /\ ConsistentDoc(q.group, q.doc)
    /\ q.kind = "edit" => q.phase = "write"
    /\ q.kind = "publish" =>
          /\ q.hash \in Hashes
          /\ q.phase \in {"write", "insert"}
          /\ q.phase = "insert" => q.doc.desired = q.hash
    /\ q.kind = "status" =>
          /\ q.hash \in Hashes
          /\ q.status \in Statuses
          /\ q.phase \in {"write", "stamp"}
          /\ q.doc.desired = q.hash
          /\ <<q.group, q.hash, q.status>> \in reports

CallsAreSound == \A c \in Callers : calls[c] # NoOperation => CallIsSound(calls[c])

InsertsFollowGroup ==
    \A c \in Callers :
        calls[c].phase = "insert" /\ calls[c].group \notin lost =>
            /\ calls[c].doc.version \in 1 .. groups[calls[c].group].version
            /\ calls[c].doc.version = groups[calls[c].group].version =>
                  calls[c].hash = groups[calls[c].group].desired
            /\ \A i \in DOMAIN versions :
                  versions[i].group = calls[c].group =>
                      versions[i].number # calls[c].doc.version
            /\ \A d \in Callers \ {c} :
                  calls[d].phase = "insert" /\ calls[d].group = calls[c].group =>
                      calls[d].doc.version # calls[c].doc.version

GInv ==
    /\ RecordTypeOK
    /\ StatusWasReported
    /\ CallsAreSound
    /\ VersionsFollowGroup
    /\ InsertsFollowGroup

-----------------------------------------------------------------------------
(* Reports are never taken back.                                           *)

LEMMA ConsistentStays ==
    ASSUME NEW g, NEW d, ConsistentDoc(g, d), reports \subseteq reports'
    PROVE  /\ d.publish = "none" <=> d.desired = NoHash
           /\ d.publish = "applied" => d.applied = d.desired
           /\ d.publish \in Statuses => <<g, d.desired, d.publish>> \in reports'
           /\ d.applied # NoHash => <<g, d.applied, "applied">> \in reports'
BY DEF ConsistentDoc

\* A step that only changes the call of c, and not to one that inserts.
LEMMA CallChanges ==
    ASSUME GInv, NEW c \in Callers, NEW q \in {NoOperation} \cup Operations,
           calls' = [calls EXCEPT ![c] = q], q.phase # "insert",
           UNCHANGED <<groups, versions, lost>>,
           reports \subseteq reports', reports' \subseteq Groups \X Hashes \X Statuses,
           q # NoOperation => CallIsSound(q)'
    PROVE  GInv'
<1>1. RecordTypeOK'
  BY DEF GInv, RecordTypeOK
<1>2. StatusWasReported'
  BY ConsistentStays DEF GInv, StatusWasReported, ConsistentDoc
<1>3. CallsAreSound'
  <2> SUFFICES ASSUME NEW d \in Callers, calls'[d] # NoOperation
               PROVE  CallIsSound(calls[d])'
    BY DEF CallsAreSound
  <2>1. CASE d = c
    <3>1. calls'[d] = q
      BY <2>1 DEF GInv, RecordTypeOK
    <3> QED BY <3>1 DEF CallIsSound, ConsistentDoc
  <2>2. CASE d # c
    <3>1. calls'[d] = calls[d] /\ CallIsSound(calls[d])
      BY <2>2 DEF GInv, RecordTypeOK, CallsAreSound
    <3> QED BY <3>1, ConsistentStays DEF CallIsSound, ConsistentDoc
  <2> QED BY <2>1, <2>2
<1>4. VersionsFollowGroup'
  BY DEF GInv, VersionsFollowGroup
<1>5. InsertsFollowGroup'
  <2>1. \A d \in Callers : calls'[d].phase = "insert" => d # c /\ calls'[d] = calls[d]
    BY DEF GInv, RecordTypeOK
  <2> QED BY <2>1 DEF GInv, InsertsFollowGroup
<1> QED BY <1>1, <1>2, <1>3, <1>4, <1>5 DEF GInv

LEMMA ReadsKeep ==
    ASSUME GInv, NEW c \in Callers, NEW g \in Groups,
           \/ \E h \in Hashes : PublishReads(c, g, h)
           \/ EditReads(c, g)
    PROVE  GInv'
<1>1. PICK h \in Hashes \cup {NoHash}, kind \in {"publish", "edit"} :
         /\ kind = "publish" => h \in Hashes
         /\ calls' = [calls EXCEPT ![c] = Operation(kind, g, h, "pending")]
         /\ UNCHANGED <<groups, versions, reports, lost>>
  <2>1. CASE EditReads(c, g)
    BY <2>1 DEF EditReads
  <2>2. CASE \E h \in Hashes : PublishReads(c, g, h)
    BY <2>2 DEF PublishReads
  <2> QED BY <2>1, <2>2
<1>q. PICK q : q = Operation(kind, g, h, "pending")
  OBVIOUS
<1>2. groups[g] \in GroupDocs /\ ConsistentDoc(g, groups[g])
  BY DEF GInv, RecordTypeOK, StatusWasReported
<1>3. q \in Operations /\ q.phase = "write"
  BY <1>q, <1>2 DEF Operation, Operations
<1>4. CallIsSound(q)'
  BY <1>1, <1>q, <1>2 DEF Operation, CallIsSound, ConsistentDoc
<1>5. reports' \subseteq Groups \X Hashes \X Statuses
  BY <1>1 DEF GInv, RecordTypeOK
<1> QED BY <1>1, <1>q, <1>3, <1>4, <1>5, CallChanges

LEMMA StatusReadsKeeps ==
    ASSUME GInv, NEW c \in Callers, NEW g \in Groups, NEW h \in Hashes,
           NEW status \in Statuses, StatusReads(c, g, h, status)
    PROVE  GInv'
<1>1. /\ reports \subseteq reports' /\ <<g, h, status>> \in reports'
      /\ reports' \subseteq Groups \X Hashes \X Statuses
      /\ UNCHANGED <<groups, versions, lost>>
  BY DEF StatusReads, GInv, RecordTypeOK
<1>2. CASE IsForDesired(g, h)
  <2>q. PICK q : q = Operation("status", g, h, status)
    OBVIOUS
  <2>1. groups[g] \in GroupDocs /\ ConsistentDoc(g, groups[g])
    BY DEF GInv, RecordTypeOK, StatusWasReported
  <2>2. q \in Operations /\ q.phase = "write"
    BY <2>q, <2>1 DEF Operation, Operations
  <2>3. CallIsSound(q)'
    BY <1>1, <1>2, <2>q, <2>1, ConsistentStays
       DEF Operation, CallIsSound, ConsistentDoc, IsForDesired
  <2>4. calls' = [calls EXCEPT ![c] = q]
    BY <1>2, <2>q DEF StatusReads
  <2> QED BY <1>1, <2>2, <2>3, <2>4, CallChanges
<1>3. CASE ~IsForDesired(g, h)
  <2>1. calls[c] = NoOperation
    BY DEF StatusReads
  <2>2. calls' = [calls EXCEPT ![c] = NoOperation]
    BY <1>3, <2>1 DEF StatusReads, GInv, RecordTypeOK
  <2>3. NoOperation.phase # "insert"
    BY DEF NoOperation
  <2> QED BY <1>1, <2>2, <2>3, CallChanges
<1> QED BY <1>2, <1>3

LEMMA DropKeeps ==
    ASSUME GInv, NEW c \in Callers, Drop(c)
    PROVE  GInv'
<1>1. /\ calls' = [calls EXCEPT ![c] = NoOperation]
      /\ UNCHANGED <<groups, versions, reports, lost>>
      /\ NoOperation.phase # "insert"
      /\ reports' \subseteq Groups \X Hashes \X Statuses
  BY DEF Drop, NoOperation, GInv, RecordTypeOK
<1> QED BY <1>1, CallChanges

LEMMA DropAllKeeps ==
    ASSUME GInv, DropAll
    PROVE  GInv'
<1>1. \A c \in Callers : calls'[c] = NoOperation /\ calls'[c].phase # "insert"
  BY DEF DropAll, NoOperation
<1>2. UNCHANGED <<groups, versions, reports, lost>>
  BY DEF DropAll
<1>3. RecordTypeOK'
  BY <1>2 DEF GInv, RecordTypeOK, DropAll
<1>4. StatusWasReported' /\ VersionsFollowGroup'
  BY <1>2 DEF GInv, StatusWasReported, ConsistentDoc, VersionsFollowGroup
<1>5. CallsAreSound' /\ InsertsFollowGroup'
  BY <1>1 DEF CallsAreSound, InsertsFollowGroup
<1> QED BY <1>3, <1>4, <1>5 DEF GInv

-----------------------------------------------------------------------------
(* Steps that replace a document.                                          *)

\* What a call holds when it is about to write.
LEMMA WriteFacts ==
    ASSUME GInv, NEW c \in Callers, calls[c].phase \in {"write", "insert", "stamp"}
    PROVE  calls[c] \in Operations /\ CallIsSound(calls[c])
<1>1. calls[c] # NoOperation
  BY DEF NoOperation
<1> QED BY <1>1 DEF GInv, RecordTypeOK, CallsAreSound

LEMMA VersionFacts ==
    ASSUME GInv, NEW i \in DOMAIN versions
    PROVE  /\ versions[i] \in VersionRecords
           /\ versions[i].group \in Groups
           /\ versions[i].number \in Nat
<1>1. versions[i] \in VersionRecords
  BY DEF GInv, RecordTypeOK
<1> QED BY <1>1 DEF VersionRecords

\* The parts that no replacement of a document by a consistent one disturbs.
LEMMA ReplaceKeepsConsistency ==
    ASSUME GInv, NEW c \in Callers, NEW q \in {NoOperation} \cup Operations,
           NEW new \in GroupDocs,
           calls[c].phase = "write", Replace(calls[c], new),
           ConsistentDoc(calls[c].group, new),
           calls' = [calls EXCEPT ![c] = q], UNCHANGED <<versions, reports>>,
           q # NoOperation => CallIsSound(q)
    PROVE  RecordTypeOK' /\ StatusWasReported' /\ CallsAreSound'
<1>0. calls[c] \in Operations
  BY WriteFacts
<1>1. RecordTypeOK'
  BY <1>0 DEF GInv, RecordTypeOK, Replace, Operations
<1>2. StatusWasReported'
  BY <1>0 DEF GInv, RecordTypeOK, StatusWasReported, ConsistentDoc, Replace
<1>3. CallsAreSound'
  <2> SUFFICES ASSUME NEW d \in Callers, calls'[d] # NoOperation
               PROVE  CallIsSound(calls[d])'
    BY DEF CallsAreSound
  <2>1. CallIsSound(calls'[d])
    BY DEF GInv, RecordTypeOK, CallsAreSound
  <2> QED BY <2>1 DEF CallIsSound, ConsistentDoc
<1> QED BY <1>1, <1>2, <1>3

\* A replacement that keeps version and desired hash keeps the numbering; one
\* from a document that is not the current one gives the group up as lost.
LEMMA SameVersionKeepsNumbers ==
    ASSUME GInv, NEW c \in Callers, NEW q, NEW new,
           calls[c].phase = "write", Replace(calls[c], new),
           new.version = calls[c].doc.version, new.desired = calls[c].doc.desired,
           calls' = [calls EXCEPT ![c] = q], q.phase # "insert", UNCHANGED versions
    PROVE  VersionsFollowGroup' /\ InsertsFollowGroup'
<1>0. calls[c] \in Operations /\ calls[c].group \in Groups
  BY WriteFacts DEF Operations
<1>1. \A g \in Groups : g \notin lost' =>
         /\ g \notin lost
         /\ groups'[g].version = groups[g].version
         /\ groups'[g].desired = groups[g].desired
  BY <1>0 DEF Replace, GInv, RecordTypeOK
<1>2. \A d \in Callers : calls'[d].phase = "insert" =>
         d # c /\ calls'[d] = calls[d] /\ calls[d].group \in Groups
  <2> SUFFICES ASSUME NEW d \in Callers, calls'[d].phase = "insert"
               PROVE  d # c /\ calls'[d] = calls[d] /\ calls[d].group \in Groups
    OBVIOUS
  <2>1. d # c /\ calls'[d] = calls[d]
    BY DEF GInv, RecordTypeOK
  <2> QED BY <2>1, WriteFacts DEF Operations
<1>3. \A i \in DOMAIN versions : versions[i].group \in Groups
  BY VersionFacts
<1>4. VersionsFollowGroup'
  BY <1>1, <1>3 DEF GInv, VersionsFollowGroup
<1>5. InsertsFollowGroup'
  <2> SUFFICES ASSUME NEW d \in Callers, calls'[d].phase = "insert", calls'[d].group \notin lost'
               PROVE  /\ calls'[d].doc.version \in 1 .. groups'[calls'[d].group].version
                      /\ calls'[d].doc.version = groups'[calls'[d].group].version =>
                            calls'[d].hash = groups'[calls'[d].group].desired
                      /\ \A i \in DOMAIN versions :
                            versions[i].group = calls'[d].group =>
                                versions[i].number # calls'[d].doc.version
                      /\ \A e \in Callers \ {d} :
                            calls'[e].phase = "insert" /\ calls'[e].group = calls'[d].group =>
                                calls'[e].doc.version # calls'[d].doc.version
    BY DEF InsertsFollowGroup
  <2>1. calls'[d] = calls[d] /\ calls[d].group \in Groups
    BY <1>2
  <2>2. /\ calls[d].group \notin lost
        /\ groups'[calls[d].group].version = groups[calls[d].group].version
        /\ groups'[calls[d].group].desired = groups[calls[d].group].desired
    BY <1>1, <2>1
  <2> QED BY <1>2, <2>1, <2>2 DEF GInv, InsertsFollowGroup
<1> QED BY <1>4, <1>5

LEMMA StatusWritesKeeps ==
    ASSUME GInv, NEW c \in Callers, StatusWrites(c)
    PROVE  GInv'
<1> DEFINE q == [calls[c] EXCEPT !.phase = "stamp", !.doc = AsReported(calls[c])]
<1>1. calls[c] \in Operations /\ CallIsSound(calls[c]) /\ calls[c].kind = "status"
  BY WriteFacts DEF StatusWrites
<1>2. /\ AsReported(calls[c]) \in GroupDocs
      /\ ConsistentDoc(calls[c].group, AsReported(calls[c]))
      /\ AsReported(calls[c]).version = calls[c].doc.version
      /\ AsReported(calls[c]).desired = calls[c].doc.desired
  BY <1>1, HashAssumption
     DEF AsReported, Operations, GroupDocs, CallIsSound, ConsistentDoc, Statuses
<1>3. q \in Operations /\ q.phase # "insert"
  BY <1>1, <1>2 DEF Operations
<1>4. CallIsSound(q)
  BY <1>1, <1>2 DEF CallIsSound, Operations
<1>5. calls' = [calls EXCEPT ![c] = q] /\ UNCHANGED <<versions, reports>>
  BY DEF StatusWrites
<1> QED BY <1>2, <1>3, <1>4, <1>5, ReplaceKeepsConsistency, SameVersionKeepsNumbers
        DEF StatusWrites, GInv

LEMMA EditWritesKeeps ==
    ASSUME GInv, NEW c \in Callers, EditWrites(c)
    PROVE  GInv'
<1>1. calls[c] \in Operations /\ CallIsSound(calls[c])
  BY WriteFacts DEF EditWrites
<1>2. calls[c].doc \in GroupDocs /\ ConsistentDoc(calls[c].group, calls[c].doc)
  BY <1>1 DEF Operations, CallIsSound
<1>3. NoOperation.phase # "insert"
  BY DEF NoOperation
<1>4. calls' = [calls EXCEPT ![c] = NoOperation] /\ UNCHANGED <<versions, reports>>
  BY DEF EditWrites
<1> QED BY <1>2, <1>3, <1>4, ReplaceKeepsConsistency, SameVersionKeepsNumbers
        DEF EditWrites, GInv

LEMMA PublishWritesKeeps ==
    ASSUME GInv, NEW c \in Callers, PublishWrites(c)
    PROVE  GInv'
<1> DEFINE g == calls[c].group
           new == AsPublished(calls[c])
           q == [calls[c] EXCEPT !.phase = "insert", !.doc = new]
<1>1. calls[c] \in Operations /\ CallIsSound(calls[c]) /\ calls[c].kind = "publish"
  BY WriteFacts DEF PublishWrites
<1>2. /\ new \in GroupDocs
      /\ ConsistentDoc(g, new)
      /\ new.version = calls[c].doc.version + 1
      /\ new.desired = calls[c].hash
      /\ calls[c].doc.version \in Nat
  <2>1. calls[c].doc \in GroupDocs /\ calls[c].hash \in Hashes
    BY <1>1 DEF Operations, CallIsSound
  <2>2. calls[c].doc.version \in Nat
    BY <2>1 DEF GroupDocs
  <2>3. /\ new.version = calls[c].doc.version + 1
        /\ new.desired = calls[c].hash
        /\ new.publish = "pending"
        /\ new.applied = calls[c].doc.applied
    BY <2>1 DEF AsPublished, GroupDocs
  <2>4. new \in GroupDocs
    <3>1. \A d \in GroupDocs, n \in Nat, h \in Hashes :
             [d EXCEPT !.version = n, !.desired = h, !.publish = "pending"] \in GroupDocs
      BY DEF GroupDocs
    <3>2. calls[c].doc.version + 1 \in Nat
      BY <2>2
    <3> QED BY <2>1, <3>1, <3>2 DEF AsPublished
  <2>5. ConsistentDoc(g, new)
    BY <1>1, <2>1, <2>3, HashAssumption DEF CallIsSound, ConsistentDoc, Statuses
  <2> QED BY <2>2, <2>3, <2>4, <2>5
<1>3. q \in Operations /\ q.phase = "insert" /\ q.group = g /\ q.doc = new /\ q.hash = calls[c].hash
  BY <1>1, <1>2 DEF Operations
<1>4. CallIsSound(q)
  BY <1>1, <1>2 DEF CallIsSound, Operations
<1>5. calls' = [calls EXCEPT ![c] = q] /\ UNCHANGED <<versions, reports>>
  BY DEF PublishWrites
<1>6. RecordTypeOK' /\ StatusWasReported' /\ CallsAreSound'
  BY <1>2, <1>3, <1>4, <1>5, ReplaceKeepsConsistency DEF PublishWrites
<1>7. g \in Groups /\ groups[g] \in GroupDocs /\ groups[g].version \in Nat
  BY <1>1 DEF Operations, GInv, RecordTypeOK, GroupDocs
<1>8. /\ \A x \in Groups \ {g} : groups'[x] = groups[x]
      /\ groups'[g] = new
      /\ lost \subseteq lost'
      /\ \A x \in lost' : x \in lost \/ x = g
      /\ g \notin lost' => groups[g] = calls[c].doc
  BY <1>7 DEF PublishWrites, Replace, GInv, RecordTypeOK
<1>9. g \notin lost' => new.version = groups[g].version + 1
  BY <1>2, <1>8
<1>10. VersionsFollowGroup'
  <2> SUFFICES ASSUME NEW i \in DOMAIN versions, versions[i].group \notin lost'
               PROVE  /\ versions[i].number \in 1 .. groups'[versions[i].group].version
                      /\ versions[i].number = groups'[versions[i].group].version =>
                            versions[i].hash = groups'[versions[i].group].desired
                      /\ \A j \in DOMAIN versions :
                            versions[j].group = versions[i].group
                            /\ versions[j].number = versions[i].number => i = j
    BY <1>5 DEF VersionsFollowGroup
  <2>1. versions[i].group \in Groups /\ versions[i].number \in Nat
    BY VersionFacts
  <2>2. versions[i].group \notin lost
    BY <1>8
  <2>3. CASE versions[i].group # g
    BY <1>8, <2>1, <2>2, <2>3 DEF GInv, VersionsFollowGroup
  <2>4. CASE versions[i].group = g
    <3>1. versions[i].number \in 1 .. groups[g].version
      BY <2>2, <2>4 DEF GInv, VersionsFollowGroup
    <3>2. versions[i].number < groups'[g].version
      BY <1>7, <1>8, <1>9, <2>4, <3>1
    <3>3. groups'[g].version \in Nat
      BY <1>2, <1>8 DEF GroupDocs
    <3>4. versions[i].number \in 1 .. groups'[g].version
      BY <3>1, <3>2, <3>3
    <3> QED BY <2>1, <2>2, <2>4, <3>2, <3>4 DEF GInv, VersionsFollowGroup
  <2> QED BY <2>3, <2>4
<1>11. InsertsFollowGroup'
  <2> SUFFICES ASSUME NEW d \in Callers, calls'[d].phase = "insert", calls'[d].group \notin lost'
               PROVE  /\ calls'[d].doc.version \in 1 .. groups'[calls'[d].group].version
                      /\ calls'[d].doc.version = groups'[calls'[d].group].version =>
                            calls'[d].hash = groups'[calls'[d].group].desired
                      /\ \A i \in DOMAIN versions :
                            versions[i].group = calls'[d].group =>
                                versions[i].number # calls'[d].doc.version
                      /\ \A e \in Callers \ {d} :
                            calls'[e].phase = "insert" /\ calls'[e].group = calls'[d].group =>
                                calls'[e].doc.version # calls'[d].doc.version
    BY <1>5 DEF InsertsFollowGroup
  <2>1. \A e \in Callers : calls'[e] = IF e = c THEN q ELSE calls[e]
    BY <1>5 DEF GInv, RecordTypeOK
  <2>2. \A e \in Callers \ {c} : calls[e].phase = "insert" /\ calls[e].group = g /\ g \notin lost' =>
           calls[e].doc.version \in 1 .. groups[g].version
    BY <1>8 DEF GInv, InsertsFollowGroup
  <2>3. \A i \in DOMAIN versions : versions[i].group = g /\ g \notin lost' =>
           versions[i].number \in 1 .. groups[g].version
    BY <1>8 DEF GInv, VersionsFollowGroup
  <2>4. CASE d = c
    <3>1. calls'[d] = q /\ g \notin lost' /\ new.version = groups[g].version + 1
      BY <1>3, <1>9, <2>1, <2>4
    <3>2. \A n \in 1 .. groups[g].version : n # new.version
      BY <1>7, <3>1
    <3>3. new.version \in 1 .. groups'[g].version /\ groups'[g].desired = q.hash
      BY <1>2, <1>3, <1>7, <1>8, <3>1
    <3>4. calls'[d].doc.version = new.version /\ calls'[d].group = g /\ calls'[d].hash = q.hash
      BY <1>3, <3>1
    <3>5. \A i \in DOMAIN versions : versions[i].group = g => versions[i].number # new.version
      BY <2>3, <3>1, <3>2
    <3>6. ASSUME NEW e \in Callers \ {d}, calls'[e].phase = "insert", calls'[e].group = g
          PROVE  calls'[e].doc.version # new.version
      <4>1. calls'[e] = calls[e] /\ e \in Callers \ {c}
        BY <2>1, <2>4
      <4>2. calls[e].doc.version \in 1 .. groups[g].version
        BY <2>2, <3>1, <3>6, <4>1
      <4> QED BY <3>2, <4>1, <4>2
    <3>7. /\ calls'[d].doc.version \in 1 .. groups'[calls'[d].group].version
          /\ calls'[d].hash = groups'[calls'[d].group].desired
      BY <3>3, <3>4
    <3>8. \A i \in DOMAIN versions :
             versions[i].group = calls'[d].group => versions[i].number # calls'[d].doc.version
      BY <3>4, <3>5
    <3>9. \A e \in Callers \ {d} :
             calls'[e].phase = "insert" /\ calls'[e].group = calls'[d].group =>
                 calls'[e].doc.version # calls'[d].doc.version
      BY <3>4, <3>6
    <3> QED BY <3>7, <3>8, <3>9
  <2>5. CASE d # c
    <3>1. calls'[d] = calls[d] /\ calls[d].group \notin lost /\ calls[d].phase = "insert"
      BY <1>8, <2>1, <2>5
    <3>2. calls[d].group \in Groups
      BY <3>1, WriteFacts DEF Operations
    <3>3. /\ calls[d].doc.version \in 1 .. groups[calls[d].group].version
          /\ calls[d].doc.version = groups[calls[d].group].version =>
                calls[d].hash = groups[calls[d].group].desired
          /\ \A i \in DOMAIN versions :
                versions[i].group = calls[d].group =>
                    versions[i].number # calls[d].doc.version
          /\ \A e \in Callers \ {d} :
                calls[e].phase = "insert" /\ calls[e].group = calls[d].group =>
                    calls[e].doc.version # calls[d].doc.version
      BY <3>1 DEF GInv, InsertsFollowGroup
    <3>4. CASE calls[d].group # g
      <4>1. groups'[calls[d].group] = groups[calls[d].group]
        BY <1>8, <3>2, <3>4
      <4>2. \A e \in Callers \ {d} :
               calls'[e].phase = "insert" /\ calls'[e].group = calls[d].group =>
                   calls'[e].doc.version # calls[d].doc.version
        BY <1>3, <2>1, <3>3, <3>4
      <4> QED BY <3>1, <3>3, <4>1, <4>2
    <3>5. CASE calls[d].group = g
      <4>1. new.version = groups[g].version + 1
        BY <1>9, <3>1, <3>5
      <4>2. calls[d].doc.version < new.version /\ calls[d].doc.version \in 1 .. new.version
        BY <1>7, <3>3, <3>5, <4>1
      <4>3. calls[d].doc.version # new.version
        BY <1>2, <3>3, <4>2
      <4>4. \A e \in Callers \ {d} :
               calls'[e].phase = "insert" /\ calls'[e].group = g =>
                   calls'[e].doc.version # calls[d].doc.version
        BY <1>3, <2>1, <3>3, <3>5, <4>3
      <4> QED BY <1>8, <3>1, <3>3, <3>5, <4>2, <4>3, <4>4
    <3> QED BY <3>4, <3>5
  <2> QED BY <2>4, <2>5
<1> QED BY <1>6, <1>10, <1>11 DEF GInv

\* Recording a publication: the number it took becomes a recorded one.
LEMMA CreateKeeps ==
    ASSUME GInv, NEW c \in Callers, CreateConfigVersion(c)
    PROVE  GInv'
<1> DEFINE q == calls[c]
           n == Len(versions) + 1
           v == [group |-> q.group, number |-> q.doc.version, hash |-> q.hash,
                 status |-> "pending"]
<1>1. q \in Operations /\ CallIsSound(q) /\ q.phase = "insert"
  BY WriteFacts DEF CreateConfigVersion
<1>2. q.group \in Groups /\ q.doc.version \in Nat /\ q.hash \in Hashes
  <2>1. q.kind = "publish" /\ q.doc \in GroupDocs
    BY <1>1 DEF Operations, CallIsSound
  <2> QED BY <1>1, <2>1 DEF Operations, GroupDocs, CallIsSound
<1>3. v \in VersionRecords
  BY <1>2 DEF VersionRecords
<1>4. versions \in Seq(VersionRecords) /\ Len(versions) \in Nat
  BY DEF GInv, RecordTypeOK
<1>5. /\ versions' = Append(versions, v)
      /\ calls' = [calls EXCEPT ![c] = NoOperation]
      /\ UNCHANGED <<groups, reports, lost>>
  BY DEF CreateConfigVersion
<1>6. /\ versions' \in Seq(VersionRecords)
      /\ DOMAIN versions' = DOMAIN versions \cup {n}
      /\ \A i \in DOMAIN versions : versions'[i] = versions[i] /\ i # n
      /\ versions'[n] = v
  BY <1>3, <1>4, <1>5
<1>7. RecordTypeOK'
  BY <1>5, <1>6 DEF GInv, RecordTypeOK
<1>8. StatusWasReported'
  BY <1>5, <1>6 DEF GInv, StatusWasReported, ConsistentDoc
<1>9. \A d \in Callers : calls'[d] # NoOperation => d # c /\ calls'[d] = calls[d]
  BY <1>5 DEF GInv, RecordTypeOK
<1>10. CallsAreSound'
  BY <1>5, <1>9 DEF GInv, CallsAreSound, CallIsSound, ConsistentDoc
<1>11. q.group \notin lost =>
          /\ q.doc.version \in 1 .. groups[q.group].version
          /\ q.doc.version = groups[q.group].version => q.hash = groups[q.group].desired
          /\ \A i \in DOMAIN versions :
                versions[i].group = q.group => versions[i].number # q.doc.version
          /\ \A d \in Callers \ {c} :
                calls[d].phase = "insert" /\ calls[d].group = q.group =>
                    calls[d].doc.version # q.doc.version
  BY <1>1 DEF GInv, InsertsFollowGroup
<1>12. VersionsFollowGroup'
  BY <1>5, <1>6, <1>11 DEF GInv, VersionsFollowGroup
<1>13. InsertsFollowGroup'
  <2>1. \A d \in Callers : calls'[d].phase = "insert" => d # c /\ calls'[d] = calls[d]
    BY <1>9 DEF NoOperation
  <2> QED BY <1>5, <1>6, <1>11, <2>1 DEF GInv, InsertsFollowGroup
<1> QED BY <1>7, <1>8, <1>10, <1>12, <1>13 DEF GInv

LEMMA StampKeeps ==
    ASSUME GInv, NEW c \in Callers, StampVersion(c)
    PROVE  GInv'
<1> DEFINE q == calls[c]
<1>1. q \in Operations /\ CallIsSound(q) /\ q.phase = "stamp"
  BY WriteFacts DEF StampVersion
<1>2. q.status \in Statuses /\ <<q.group, q.hash, q.status>> \in reports
  BY <1>1 DEF Operations, CallIsSound
<1>3. /\ calls' = [calls EXCEPT ![c] = NoOperation]
      /\ UNCHANGED <<groups, reports, lost>>
  BY DEF StampVersion
<1>4. /\ versions' \in Seq(VersionRecords)
      /\ DOMAIN versions' = DOMAIN versions
      /\ \A i \in DOMAIN versions :
            /\ versions'[i].group = versions[i].group
            /\ versions'[i].number = versions[i].number
            /\ versions'[i].hash = versions[i].hash
            /\ \/ versions'[i].status = versions[i].status
               \/ /\ versions'[i].status = q.status
                  /\ versions[i].group = q.group
                  /\ versions[i].hash = q.hash
  <2>1. CASE versions' = versions
    BY <2>1 DEF GInv, RecordTypeOK
  <2>2. CASE \E i \in Matching(q) : versions' = [versions EXCEPT ![i].status = q.status]
    <3>1. PICK i \in DOMAIN versions :
             /\ versions[i].group = q.group
             /\ versions[i].hash = q.hash
             /\ versions' = [versions EXCEPT ![i].status = q.status]
      BY <2>2 DEF Matching
    <3>2. versions \in Seq(VersionRecords) /\ versions[i] \in VersionRecords
      BY DEF GInv, RecordTypeOK
    <3>3. [versions[i] EXCEPT !.status = q.status] \in VersionRecords
      BY <1>2, <3>2 DEF VersionRecords
    <3>4. versions' = [versions EXCEPT ![i] = [versions[i] EXCEPT !.status = q.status]]
      BY <3>1
    <3>5. versions' \in Seq(VersionRecords) /\ DOMAIN versions' = DOMAIN versions
      BY <3>2, <3>3, <3>4
    <3>6. \A j \in DOMAIN versions :
             versions'[j] = IF j = i THEN [versions[i] EXCEPT !.status = q.status] ELSE versions[j]
      BY <3>2, <3>4
    <3>7. LET w == [versions[i] EXCEPT !.status = q.status]
          IN  /\ w.group = versions[i].group /\ w.number = versions[i].number
              /\ w.hash = versions[i].hash /\ w.status = q.status
      BY <3>2 DEF VersionRecords
    <3> QED BY <3>1, <3>5, <3>6, <3>7
  <2> QED BY <2>1, <2>2 DEF StampVersion
<1>5. RecordTypeOK'
  BY <1>3, <1>4 DEF GInv, RecordTypeOK
<1>6. StatusWasReported'
  <2>1. \A g \in Groups : ConsistentDoc(g, groups[g])'
    BY <1>3 DEF GInv, StatusWasReported, ConsistentDoc
  <2>2. \A i \in DOMAIN versions :
           versions'[i].status # "pending" =>
               <<versions'[i].group, versions'[i].hash, versions'[i].status>> \in reports
    BY <1>2, <1>4 DEF GInv, StatusWasReported
  <2> QED BY <1>3, <1>4, <2>1, <2>2 DEF StatusWasReported
<1>7. \A d \in Callers : calls'[d] # NoOperation => d # c /\ calls'[d] = calls[d]
  BY <1>3 DEF GInv, RecordTypeOK
<1>8. CallsAreSound'
  BY <1>3, <1>7 DEF GInv, CallsAreSound, CallIsSound, ConsistentDoc
<1>9. VersionsFollowGroup'
  BY <1>3, <1>4 DEF GInv, VersionsFollowGroup
<1>10. InsertsFollowGroup'
  <2>1. \A d \in Callers : calls'[d].phase = "insert" => d # c /\ calls'[d] = calls[d]
    BY <1>7 DEF NoOperation
  <2> QED BY <1>3, <1>4, <2>1 DEF GInv, InsertsFollowGroup
<1> QED BY <1>5, <1>6, <1>8, <1>9, <1>10 DEF GInv

-----------------------------------------------------------------------------

LEMMA GInvInit == RecordInit => GInv
<1> SUFFICES ASSUME RecordInit PROVE GInv
  OBVIOUS
<1>1. NewGroup \in GroupDocs /\ \A g \in Groups : ConsistentDoc(g, NewGroup)
  BY HashAssumption DEF NewGroup, GroupDocs, ConsistentDoc, Statuses
<1>2. RecordTypeOK
  BY <1>1 DEF RecordInit, RecordTypeOK
<1>3. StatusWasReported /\ CallsAreSound /\ VersionsFollowGroup
  BY <1>1 DEF RecordInit, StatusWasReported, CallsAreSound, VersionsFollowGroup
<1>4. InsertsFollowGroup
  BY DEF RecordInit, InsertsFollowGroup, NoOperation
<1> QED BY <1>2, <1>3, <1>4 DEF GInv

LEMMA GInvNext == GInv /\ [RecordNext]_recordVars => GInv'
<1> SUFFICES ASSUME GInv, [RecordNext]_recordVars PROVE GInv'
  OBVIOUS
<1>1. CASE UNCHANGED recordVars
  BY <1>1 DEF recordVars, GInv, RecordTypeOK, StatusWasReported, ConsistentDoc, CallsAreSound,
              CallIsSound, VersionsFollowGroup, InsertsFollowGroup
<1>2. CASE DropAll
  BY <1>2, DropAllKeeps
<1>3. ASSUME NEW c \in Callers, CallStep(c) PROVE GInv'
  <2>1. CASE \E g \in Groups, h \in Hashes : PublishReads(c, g, h)
    BY <2>1, ReadsKeep
  <2>2. CASE PublishWrites(c)
    BY <2>2, PublishWritesKeeps
  <2>3. CASE CreateConfigVersion(c)
    BY <2>3, CreateKeeps
  <2>4. CASE \E g \in Groups, h \in Hashes, status \in Statuses : StatusReads(c, g, h, status)
    BY <2>4, StatusReadsKeeps
  <2>5. CASE StatusWrites(c)
    BY <2>5, StatusWritesKeeps
  <2>6. CASE StampVersion(c)
    BY <2>6, StampKeeps
  <2>7. CASE \E g \in Groups : EditReads(c, g)
    BY <2>7, ReadsKeep
  <2>8. CASE EditWrites(c)
    BY <2>8, EditWritesKeeps
  <2>9. CASE Drop(c)
    BY <2>9, DropKeeps
  <2> QED BY <1>3, <2>1, <2>2, <2>3, <2>4, <2>5, <2>6, <2>7, <2>8, <2>9 DEF CallStep
<1> QED BY <1>1, <1>2, <1>3 DEF RecordNext

\* The strengthened invariant holds of every behaviour of the group record.
THEOREM RecordInvariance == RecordSpec => []GInv
<1> QED BY GInvInit, GInvNext, PTL DEF RecordSpec

\* Whatever the interleaving of publish calls, status reports and edits, a
\* group shows a status only of the configuration it desires, and only one
\* that was reported for it (StatusWasReported).
THEOREM StatusIsReported == RecordSpec => []StatusWasReported
<1>1. GInv => StatusWasReported
  BY DEF GInv
<1> QED BY <1>1, RecordInvariance, PTL

\* Version numbers are unique and end at the group's version as long as no
\* write was overwritten unread (VersionsFollowGroup).
THEOREM VersionsAreNumbered == RecordSpec => []VersionsFollowGroup
<1>1. GInv => VersionsFollowGroup
  BY DEF GInv
<1> QED BY <1>1, RecordInvariance, PTL

\* Both together (RecordIsSound).
THEOREM RecordIsConsistent == RecordSpec => []RecordIsSound
<1>1. GInv => RecordIsSound
  BY DEF GInv, RecordIsSound
<1> QED BY <1>1, RecordInvariance, PTL

\* Documents, version records and calls stay well formed.
THEOREM RecordTypeCorrect == RecordSpec => []RecordTypeOK
<1>1. GInv => RecordTypeOK
  BY DEF GInv
<1> QED BY <1>1, RecordInvariance, PTL

-------------------------------------------------------------------------------
(*****************************************************************************)
(* The delivery.                                                             *)
(*****************************************************************************)

StatusIsKnown(s) == s.hash # NoHash => s.status \in Statuses

\* Whoever names a configuration names its status, and the sink only marks a
\* group that it knows.
StatusesAreKnown ==
    /\ \A u \in Agents : StatusIsKnown(agent[u]) /\ StatusIsKnown(mgr[u])
    /\ \A c \in Connections :
          /\ StatusIsKnown(conn[c].snap)
          /\ conn[c].phase = "mark" => conn[c].snap.group # NoGroup /\ conn[c].snap.hash # NoHash

TInv == DeliveryTypeOK /\ StatusesAreKnown

LEMMA TInvInit == DeliveryInit => TInv
<1> SUFFICES ASSUME DeliveryInit PROVE TInv
  OBVIOUS
<1>1. NewState \in AgentStates
  BY DEF NewState, AgentStates, SomeGroup, SomeHash
<1>2. \A c \in Connections : /\ conn[c] \in Goroutines /\ conn[c].snap = NewState
                             /\ conn[c].phase # "mark"
  BY <1>1 DEF DeliveryInit, NewGoroutine, Goroutines, SomeHash
<1>3. conn \in [Connections -> Goroutines]
  BY <1>2 DEF DeliveryInit
<1>4. DeliveryTypeOK
  BY <1>1, <1>3 DEF DeliveryInit, DeliveryTypeOK, SomeGroup, SomeHash
<1>5. StatusesAreKnown
  BY <1>2 DEF DeliveryInit, StatusesAreKnown, StatusIsKnown, NewState
<1> QED BY <1>4, <1>5 DEF TInv

LEMMA AgentKeepsTypes ==
    ASSUME TInv, AgentStep
    PROVE  TInv'
<1> USE DEF managerVars, agentVars, handlerVars, historyVars
<1>1. CASE \E c \in Connections : Connect(c)
  <2>1. PICK c \in Connections : Connect(c)
    BY <1>1
  <2>2. Owner[c] \in Agents
    BY DeliveryAssumption
  <2>3. conn' \in [Connections -> Goroutines]
    BY <2>1, ZenonT(60) DEF TInv, DeliveryTypeOK, Connect, Goroutines
  <2>4. DeliveryTypeOK'
    BY <2>1, <2>2, <2>3 DEF TInv, DeliveryTypeOK, Connect
  <2>5. StatusesAreKnown'
    BY <2>1 DEF TInv, DeliveryTypeOK, Connect, StatusesAreKnown, StatusIsKnown
  <2> QED BY <2>4, <2>5 DEF TInv
<1>2. ASSUME NEW u \in Agents, Disconnect(u)
      PROVE  TInv'
  <2>1. link' \in [Agents -> Connections \cup {NoConn}]
    BY <1>2 DEF TInv, DeliveryTypeOK, Disconnect
  <2>2. wire' \in [Connections -> Seq(Hashes)]
    BY <1>2 DEF TInv, DeliveryTypeOK, Disconnect
  <2>3. DeliveryTypeOK'
    BY <1>2, <2>1, <2>2 DEF TInv, DeliveryTypeOK, Disconnect
  <2>4. StatusesAreKnown'
    BY <1>2 DEF TInv, Disconnect, StatusesAreKnown, StatusIsKnown
  <2> QED BY <2>3, <2>4 DEF TInv
<1>3. ASSUME NEW u \in Agents, Receive(u)
      PROVE  TInv'
  <2>1. link[u] \in Connections /\ wire[link[u]] \in Seq(Hashes) /\ wire[link[u]] # <<>>
    BY <1>3 DEF TInv, DeliveryTypeOK, Receive
  <2>2. Head(wire[link[u]]) \in Hashes /\ Tail(wire[link[u]]) \in Seq(Hashes)
    BY <2>1
  <2>3. agent' \in [Agents -> [hash : SomeHash, status : {"unset"} \cup Statuses]]
    BY <1>3, <2>2 DEF TInv, DeliveryTypeOK, Receive, SomeHash, Statuses
  <2>4. wire' \in [Connections -> Seq(Hashes)]
    BY <1>3, <2>2 DEF TInv, DeliveryTypeOK, Receive
  <2>5. DeliveryTypeOK'
    BY <1>3, <2>3, <2>4 DEF TInv, DeliveryTypeOK, Receive
  <2>6. StatusesAreKnown'
    BY <1>3 DEF TInv, DeliveryTypeOK, Receive, StatusesAreKnown, StatusIsKnown, Statuses
  <2> QED BY <2>5, <2>6 DEF TInv
<1>4. ASSUME NEW u \in Agents, Finish(u)
      PROVE  TInv'
  <2>1. agent' \in [Agents -> [hash : SomeHash, status : {"unset"} \cup Statuses]]
    BY <1>4 DEF TInv, DeliveryTypeOK, Finish, Statuses
  <2>2. DeliveryTypeOK'
    BY <1>4, <2>1 DEF TInv, DeliveryTypeOK, Finish
  <2>3. StatusesAreKnown'
    BY <1>4 DEF TInv, DeliveryTypeOK, Finish, StatusesAreKnown, StatusIsKnown, Statuses
  <2> QED BY <2>2, <2>3 DEF TInv
<1> QED BY <1>1, <1>2, <1>3, <1>4 DEF AgentStep

\* A step of a connection's goroutine changes conn[c] alone.
LEMMA ConnStays ==
    ASSUME TInv, NEW c \in Connections, NEW r \in Goroutines, StatusIsKnown(r.snap),
           r.phase = "mark" => r.snap.group # NoGroup /\ r.snap.hash # NoHash,
           conn' = [conn EXCEPT ![c] = r]
    PROVE  /\ conn' \in [Connections -> Goroutines]
           /\ \A d \in Connections :
                 /\ StatusIsKnown(conn'[d].snap)
                 /\ conn'[d].phase = "mark" =>
                       conn'[d].snap.group # NoGroup /\ conn'[d].snap.hash # NoHash
<1>1. conn \in [Connections -> Goroutines]
  BY DEF TInv, DeliveryTypeOK
<1>2. \A d \in Connections : conn'[d] = IF d = c THEN r ELSE conn[d]
  BY <1>1
<1> QED BY <1>1, <1>2 DEF TInv, StatusesAreKnown

LEMMA SinkKeepsTypes ==
    ASSUME TInv, NEW c \in Connections,
           UNCHANGED <<mgr, assigned, offered, uidConn, link, agent, pubs, moves>>,
           wire' \in [Connections -> Seq(Hashes)],
           instances' \in [Agents -> AgentStates \cup {NoInstance}],
           NEW r \in Goroutines,
           r.phase # "mark" \/ r.phase = AfterUpsert(r.snap),
           r.snap \in {conn[c].snap, NewState},
           conn' = [conn EXCEPT ![c] = r]
    PROVE  TInv'
<1>1. StatusIsKnown(r.snap)
  BY DEF TInv, StatusesAreKnown, StatusIsKnown, NewState
<1>2. r.phase = "mark" => r.snap.group # NoGroup /\ r.snap.hash # NoHash
  BY DEF AfterUpsert
<1>3. /\ conn' \in [Connections -> Goroutines]
      /\ \A d \in Connections :
            /\ StatusIsKnown(conn'[d].snap)
            /\ conn'[d].phase = "mark" =>
                  conn'[d].snap.group # NoGroup /\ conn'[d].snap.hash # NoHash
  BY <1>1, <1>2, ConnStays
<1>4. DeliveryTypeOK'
  BY <1>3 DEF TInv, DeliveryTypeOK
<1>5. StatusesAreKnown'
  BY <1>3 DEF TInv, StatusesAreKnown, StatusIsKnown
<1> QED BY <1>4, <1>5 DEF TInv

\* What a message changes: the new state of the agent, what is left on offer, and the goroutine.
LEMMA MessageEffect ==
    ASSUME TInv, NEW c \in Connections, NEW described \in BOOLEAN, NEW reported \in BOOLEAN,
           HandleMessage(c, described, reported)
    PROVE  \E state \in AgentStates, left \in [Groups -> SomeHash], r \in Goroutines :
              /\ StatusIsKnown(state) /\ state.online
              /\ \/ state.hash = agent[Owner[c]].hash /\ state.status = agent[Owner[c]].status
                 \/ state.hash = mgr[Owner[c]].hash /\ state.status = mgr[Owner[c]].status
              /\ \/ left = offered
                 \/ /\ state.group # NoGroup /\ state.status = "applied"
                    /\ state.hash = offered[state.group]
                    /\ left = [offered EXCEPT ![state.group] = NoHash]
              /\ r.phase = "upsert" /\ r.bound /\ r.snap = state
              /\ r.offer = IF state.group = NoGroup THEN NoHash ELSE left[state.group]
              /\ mgr' = [mgr EXCEPT ![Owner[c]] = state]
              /\ assigned' = [assigned EXCEPT ![Owner[c]] = state.group]
              /\ offered' = left
              /\ uidConn' = [uidConn EXCEPT ![Owner[c]] = c]
              /\ conn' = [conn EXCEPT ![c] = r]
              /\ JoinHistory(Owner[c], state.group)
              /\ UNCHANGED <<recordVars, agentVars, instances, handlerVars, newest, sentTo, ran>>
<1> DEFINE u == Owner[c]
           report == IF reported THEN agent[u]
                     ELSE [hash |-> mgr[u].hash, status |-> mgr[u].status]
           g == IF described /\ Declared[u] # NoGroup THEN Declared[u] ELSE assigned[u]
           state == [group |-> g, online |-> TRUE, hash |-> report.hash,
                     status |-> report.status]
           left == IF Acknowledges(g, reported, report)
                   THEN [offered EXCEPT ![g] = NoHash] ELSE offered
           r == [phase |-> "upsert", bound |-> TRUE, snap |-> state,
                 offer |-> IF g = NoGroup THEN NoHash ELSE left[g]]
<1>1. u \in Agents /\ g \in SomeGroup
  BY DeliveryAssumption DEF TInv, DeliveryTypeOK, SomeGroup
<1>2. /\ report.hash \in SomeHash /\ report.status \in {"unset"} \cup Statuses
      /\ report.hash # NoHash => report.status \in Statuses
  BY <1>1 DEF TInv, DeliveryTypeOK, AgentStates, StatusesAreKnown, StatusIsKnown
<1>3. state \in AgentStates /\ StatusIsKnown(state)
  BY <1>1, <1>2 DEF AgentStates, StatusIsKnown
<1>4. left \in [Groups -> SomeHash]
  BY DEF TInv, DeliveryTypeOK, SomeHash
<1>5. r \in Goroutines
  <2>1. (IF g = NoGroup THEN NoHash ELSE left[g]) \in SomeHash
    BY <1>1, <1>4 DEF SomeGroup, SomeHash
  <2> HIDE DEF state
  <2> QED BY <2>1, <1>3 DEF Goroutines
<1>6. \/ left = offered
      \/ /\ g # NoGroup /\ report.status = "applied" /\ report.hash = offered[g]
         /\ left = [offered EXCEPT ![g] = NoHash]
  BY DEF Acknowledges
<1>7. /\ mgr' = [mgr EXCEPT ![u] = state]
      /\ assigned' = [assigned EXCEPT ![u] = g]
      /\ offered' = left
      /\ uidConn' = [uidConn EXCEPT ![u] = c]
      /\ conn' = [conn EXCEPT ![c] = r]
      /\ JoinHistory(u, g)
      /\ UNCHANGED <<recordVars, agentVars, instances, handlerVars, newest, sentTo, ran>>
  BY DEF HandleMessage
<1>8. /\ state.group = g /\ state.hash = report.hash /\ state.status = report.status
      /\ state.online
      /\ r.phase = "upsert" /\ r.bound /\ r.snap = state
      /\ r.offer = IF g = NoGroup THEN NoHash ELSE left[g]
  OBVIOUS
<1>9. \/ report.hash = agent[u].hash /\ report.status = agent[u].status
      \/ report.hash = mgr[u].hash /\ report.status = mgr[u].status
  OBVIOUS
<1> HIDE DEF report, g, state, left, r
<1>10. \/ left = offered
       \/ /\ state.group # NoGroup /\ state.status = "applied"
          /\ state.hash = offered[state.group]
          /\ left = [offered EXCEPT ![state.group] = NoHash]
  BY <1>6, <1>8
<1>11. /\ assigned' = [assigned EXCEPT ![Owner[c]] = state.group]
       /\ r.offer = IF state.group = NoGroup THEN NoHash ELSE left[state.group]
       /\ JoinHistory(Owner[c], state.group)
  BY <1>7, <1>8
<1> USE <1>3, <1>4, <1>5
<1> WITNESS state \in AgentStates, left \in [Groups -> SomeHash], r \in Goroutines
<1> QED BY <1>7, <1>8, <1>9, <1>10, <1>11

LEMMA HandleMessageKeepsTypes ==
    ASSUME TInv, NEW c \in Connections, NEW described \in BOOLEAN, NEW reported \in BOOLEAN,
           HandleMessage(c, described, reported)
    PROVE  TInv'
<1>1. PICK state \in AgentStates, left \in [Groups -> SomeHash], r \in Goroutines :
         /\ StatusIsKnown(state)
         /\ r.phase = "upsert" /\ r.snap = state
         /\ mgr' = [mgr EXCEPT ![Owner[c]] = state]
         /\ assigned' = [assigned EXCEPT ![Owner[c]] = state.group]
         /\ offered' = left
         /\ uidConn' = [uidConn EXCEPT ![Owner[c]] = c]
         /\ conn' = [conn EXCEPT ![c] = r]
         /\ UNCHANGED <<agentVars, instances, handlerVars>>
  BY MessageEffect
<1>2. Owner[c] \in Agents /\ state.group \in SomeGroup
  BY DeliveryAssumption DEF AgentStates
<1>3. /\ conn' \in [Connections -> Goroutines]
      /\ \A d \in Connections :
            /\ StatusIsKnown(conn'[d].snap)
            /\ conn'[d].phase = "mark" =>
                  conn'[d].snap.group # NoGroup /\ conn'[d].snap.hash # NoHash
  BY <1>1, ConnStays
<1>4. DeliveryTypeOK'
  BY <1>1, <1>2, <1>3 DEF TInv, DeliveryTypeOK, agentVars, handlerVars
<1>5. StatusesAreKnown'
  BY <1>1, <1>2, <1>3 DEF TInv, DeliveryTypeOK, StatusesAreKnown, StatusIsKnown, agentVars
<1> QED BY <1>4, <1>5 DEF TInv

LEMMA ClosedKeepsTypes ==
    ASSUME TInv, NEW c \in Connections, MarkConnectionClosed(c)
    PROVE  TInv'
<1> DEFINE u == Owner[c]
           state == Offline(mgr[u])
<1>0. UNCHANGED <<assigned, offered, link, wire, agent, instances, pubs, moves>>
  BY DEF MarkConnectionClosed, agentVars, handlerVars
<1>1. u \in Agents /\ conn[c] \in Goroutines /\ mgr[u] \in AgentStates
  BY DeliveryAssumption DEF TInv, DeliveryTypeOK
<1>2. state \in AgentStates /\ StatusIsKnown(state)
  BY <1>1 DEF AgentStates, Offline, TInv, StatusesAreKnown, StatusIsKnown
<1>3. CASE conn[c].bound
  <2> DEFINE r == [conn[c] EXCEPT !.phase = "upsert", !.snap = state, !.offer = NoHash]
  <2>1. /\ mgr' = [mgr EXCEPT ![u] = state]
        /\ uidConn' = [uidConn EXCEPT ![u] = NoConn]
        /\ conn' = [conn EXCEPT ![c] = r]
    BY <1>3 DEF MarkConnectionClosed, WithoutConnection
  <2>2. r \in Goroutines /\ r.snap = state /\ r.phase # "mark"
    <3> HIDE DEF state
    <3> QED BY <1>1, <1>2 DEF Goroutines, SomeHash
  <2> HIDE DEF u, state, r
  <2>3. /\ conn' \in [Connections -> Goroutines]
        /\ \A d \in Connections :
              /\ StatusIsKnown(conn'[d].snap)
              /\ conn'[d].phase = "mark" =>
                    conn'[d].snap.group # NoGroup /\ conn'[d].snap.hash # NoHash
    BY <1>2, <2>1, <2>2, ConnStays
  <2>4. DeliveryTypeOK'
    BY <1>0, <1>1, <1>2, <2>1, <2>3 DEF TInv, DeliveryTypeOK
  <2>5. StatusesAreKnown'
    BY <1>0, <1>1, <1>2, <2>1, <2>3 DEF TInv, DeliveryTypeOK, StatusesAreKnown, StatusIsKnown
  <2> QED BY <2>4, <2>5 DEF TInv
<1>4. CASE ~conn[c].bound
  <2> DEFINE r == [conn[c] EXCEPT !.phase = "closed"]
  <2>1. conn' = [conn EXCEPT ![c] = r] /\ UNCHANGED <<mgr, uidConn>>
    BY <1>4 DEF MarkConnectionClosed
  <2>2. r \in Goroutines /\ r.snap = conn[c].snap /\ r.phase # "mark"
    BY <1>1 DEF Goroutines
  <2>3. /\ wire' \in [Connections -> Seq(Hashes)]
        /\ instances' \in [Agents -> AgentStates \cup {NoInstance}]
    BY <1>0 DEF TInv, DeliveryTypeOK
  <2> HIDE DEF r
  <2> QED BY <1>0, <2>1, <2>2, <2>3, SinkKeepsTypes
<1> QED BY <1>3, <1>4

LEMMA UpsertKeepsTypes ==
    ASSUME TInv, NEW c \in Connections, UpsertInstance(c)
    PROVE  TInv'
<1> DEFINE r == [conn[c] EXCEPT !.phase = AfterUpsert(conn[c].snap)]
<1>1. Owner[c] \in Agents /\ conn[c] \in Goroutines /\ conn[c].snap \in AgentStates
  BY DeliveryAssumption DEF TInv, DeliveryTypeOK, Goroutines
<1>2. r \in Goroutines /\ r.snap = conn[c].snap /\ r.phase = AfterUpsert(r.snap)
  BY <1>1 DEF Goroutines, AfterUpsert
<1>3. /\ wire' \in [Connections -> Seq(Hashes)]
      /\ instances' \in [Agents -> AgentStates \cup {NoInstance}]
  BY <1>1 DEF UpsertInstance, agentVars, TInv, DeliveryTypeOK
<1>4. /\ UNCHANGED <<mgr, assigned, offered, uidConn, link, agent, pubs, moves>>
      /\ conn' = [conn EXCEPT ![c] = r]
  BY DEF UpsertInstance, managerVars, agentVars, handlerVars
<1> HIDE DEF r
<1> QED BY <1>2, <1>3, <1>4, SinkKeepsTypes

LEMMA SentKeepsTypes ==
    ASSUME TInv, NEW c \in Connections, NEW h \in Hashes,
           wire' = [wire EXCEPT ![c] = Append(@, h)]
    PROVE  wire' \in [Connections -> Seq(Hashes)]
<1>1. wire \in [Connections -> Seq(Hashes)] /\ wire[c] \in Seq(Hashes)
  BY DEF TInv, DeliveryTypeOK
<1>2. Append(wire[c], h) \in Seq(Hashes)
  BY <1>1
<1> QED BY <1>1, <1>2

LEMMA RespondKeepsTypes ==
    ASSUME TInv, NEW c \in Connections, Respond(c)
    PROVE  TInv'
<1> DEFINE r == IF conn[c].snap.online
                THEN [NewGoroutine EXCEPT !.phase = "open", !.bound = TRUE]
                ELSE [NewGoroutine EXCEPT !.phase = "closed"]
<1>1. NewState \in AgentStates
  BY DEF NewState, AgentStates, SomeGroup, SomeHash
<1>2. r \in Goroutines /\ r.snap = NewState /\ r.phase # "mark"
  BY <1>1 DEF NewGoroutine, Goroutines, SomeHash
<1>3. wire' \in [Connections -> Seq(Hashes)]
  <2>1. conn[c].offer \in SomeHash
    BY DEF TInv, DeliveryTypeOK, Goroutines
  <2>2. CASE wire' = wire
    BY <2>2 DEF TInv, DeliveryTypeOK
  <2>3. CASE conn[c].offer \in Hashes /\ wire' = [wire EXCEPT ![c] = Append(@, conn[c].offer)]
    BY <2>3, SentKeepsTypes
  <2> QED BY <2>1, <2>2, <2>3 DEF Respond, SomeHash
<1>4. /\ UNCHANGED <<mgr, assigned, offered, uidConn, link, agent, pubs, moves>>
      /\ instances' \in [Agents -> AgentStates \cup {NoInstance}]
      /\ conn' = [conn EXCEPT ![c] = r]
  BY DEF Respond, managerVars, agentVars, handlerVars, TInv, DeliveryTypeOK
<1> HIDE DEF r
<1> QED BY <1>2, <1>3, <1>4, SinkKeepsTypes

\* The steps that only move a goroutine on inside the sink, or change the
\* group record alone.
LEMMA PhaseKeepsTypes ==
    ASSUME TInv, NEW c \in Connections,
           UNCHANGED <<managerVars, agentVars, instances, pubs, moves>>,
           \/ conn' = [conn EXCEPT ![c].phase = AfterUpsert(conn[c].snap)]
           \/ conn' = [conn EXCEPT ![c].phase = "respond"]
           \/ conn' = conn
    PROVE  TInv'
<1>1. PICK phase \in {AfterUpsert(conn[c].snap), "respond", conn[c].phase} :
         conn' = [conn EXCEPT ![c].phase = phase]
  BY DEF TInv, DeliveryTypeOK, Goroutines
<1> DEFINE r == [conn[c] EXCEPT !.phase = phase]
<1>2. conn[c] \in Goroutines
  BY DEF TInv, DeliveryTypeOK
<1>3. r \in Goroutines /\ r.snap = conn[c].snap /\ r.phase = phase
  BY <1>2 DEF Goroutines, AfterUpsert
<1>4. r.phase = "mark" => r.snap.group # NoGroup /\ r.snap.hash # NoHash
  BY <1>3 DEF AfterUpsert, TInv, StatusesAreKnown
<1>5. r.phase # "mark" \/ r.phase = AfterUpsert(r.snap)
  BY <1>4 DEF AfterUpsert
<1>6. /\ UNCHANGED <<mgr, assigned, offered, uidConn, link, agent, pubs, moves>>
      /\ wire' \in [Connections -> Seq(Hashes)]
      /\ instances' \in [Agents -> AgentStates \cup {NoInstance}]
      /\ conn' = [conn EXCEPT ![c] = r]
  BY <1>1 DEF managerVars, agentVars, TInv, DeliveryTypeOK
<1> HIDE DEF r
<1> QED BY <1>3, <1>5, <1>6, SinkKeepsTypes

LEMMA ConnectionKeepsTypes ==
    ASSUME TInv, NEW c \in Connections, ConnectionStep(c) \/ SinkFails(c)
    PROVE  TInv'
<1>1. CASE \E described, reported \in BOOLEAN : HandleMessage(c, described, reported)
  BY <1>1, HandleMessageKeepsTypes
<1>2. CASE MarkConnectionClosed(c)
  BY <1>2, ClosedKeepsTypes
<1>3. CASE UpsertInstance(c)
  BY <1>3, UpsertKeepsTypes
<1>4. CASE MarkGroupConfigStatus(c)
  BY <1>4, PhaseKeepsTypes DEF MarkGroupConfigStatus, handlerVars
<1>5. CASE Respond(c)
  BY <1>5, RespondKeepsTypes
<1>6. CASE RecordStep(c)
  BY <1>6, PhaseKeepsTypes DEF RecordStep, handlerVars
<1>7. CASE SinkFails(c)
  BY <1>7, PhaseKeepsTypes DEF SinkFails
<1> QED BY <1>1, <1>2, <1>3, <1>4, <1>5, <1>6, <1>7 DEF ConnectionStep

LEMMA PublisherKeepsTypes ==
    ASSUME TInv, NEW p \in Publishers,
           \/ PublisherStep(p) \/ PublishFails(p)
           \/ \E g \in Groups, h \in Hashes : StartDeployment(p, g, h)
           \/ \E g \in Groups : UpdateGroup(p, g)
    PROVE  TInv'
<1> USE DEF managerVars, agentVars, handlerVars
<1>1. CASE UNCHANGED <<managerVars, conn, agentVars, instances, pubs, moves>>
  BY <1>1 DEF TInv, DeliveryTypeOK, StatusesAreKnown, StatusIsKnown
<1>2. ASSUME UNCHANGED <<managerVars, conn, link, agent, instances, moves>>,
             wire' \in [Connections -> Seq(Hashes)],
             pubs' \in [Publishers -> {NoDeployment} \cup Deployments]
      PROVE  TInv'
  BY <1>2 DEF TInv, DeliveryTypeOK, StatusesAreKnown, StatusIsKnown
<1>3. pubs \in [Publishers -> {NoDeployment} \cup Deployments]
      /\ wire \in [Connections -> Seq(Hashes)]
  BY DEF TInv, DeliveryTypeOK
<1>4. ASSUME NEW c \in Connections, SendTo(p, c)
      PROVE  TInv'
  <2>1. pubs[p] \in Deployments /\ pubs[p].hash \in Hashes
    BY <1>3, <1>4 DEF SendTo, Deployments
  <2>2. [pubs[p] EXCEPT !.targets = @ \ {c}] \in Deployments
    BY <2>1 DEF Deployments
  <2>3. pubs' \in [Publishers -> {NoDeployment} \cup Deployments]
    BY <1>3, <1>4, <2>2 DEF SendTo
  <2>4. wire' \in [Connections -> Seq(Hashes)]
    <3>1. CASE wire' = wire
      BY <1>3, <3>1
    <3>2. CASE wire' = [wire EXCEPT ![c] = Append(@, pubs[p].hash)]
      BY <2>1, <3>2, SentKeepsTypes
    <3> QED BY <1>4, <3>1, <3>2 DEF SendTo
  <2> QED BY <1>2, <1>4, <2>3, <2>4 DEF SendTo
<1>5. ASSUME NEW c \in Connections, SendFails(p, c)
      PROVE  TInv'
  <2>1. pubs' \in [Publishers -> {NoDeployment} \cup Deployments]
    BY <1>3, <1>5 DEF SendFails
  <2> QED BY <1>2, <1>3, <1>5, <2>1 DEF SendFails
<1>6. CASE MarkGroupPublishPending(p)
  <2>1. pubs' \in [Publishers -> {NoDeployment} \cup Deployments]
    BY <1>3, <1>6 DEF MarkGroupPublishPending
  <2> QED BY <1>2, <1>3, <1>6, <2>1 DEF MarkGroupPublishPending
<1>7. ASSUME NEW g \in Groups, NEW h \in Hashes, StartDeployment(p, g, h)
      PROVE  TInv'
  <2>1. Targets(g) \subseteq Connections
    BY DeliveryAssumption DEF TInv, DeliveryTypeOK, Targets
  <2>2. PICK d : d = [phase |-> "sending", group |-> g, hash |-> h, targets |-> Targets(g)]
    OBVIOUS
  <2>3. d \in Deployments
    BY <2>1, <2>2 DEF Deployments
  <2>4. pubs' \in [Publishers -> {NoDeployment} \cup Deployments]
    BY <1>3, <1>7, <2>2, <2>3 DEF StartDeployment
  <2>5. offered' \in [Groups -> SomeHash]
    BY <1>7 DEF StartDeployment, Offering, TInv, DeliveryTypeOK, SomeHash
  <2> QED BY <1>7, <2>4, <2>5
          DEF StartDeployment, TInv, DeliveryTypeOK, StatusesAreKnown, StatusIsKnown
<1>8. CASE PublishFails(p) \/ RecordStep(p) \/ \E g \in Groups : UpdateGroup(p, g)
  BY <1>1, <1>8 DEF PublishFails, RecordStep, UpdateGroup
<1> QED BY <1>4, <1>5, <1>6, <1>7, <1>8 DEF PublisherStep

LEMMA MoverKeepsTypes ==
    ASSUME TInv, NEW m \in Movers,
           \/ MoverStep(m)
           \/ \E u \in Agents, g \in SomeGroup : AssignReads(m, u, g)
    PROVE  TInv'
<1> USE DEF managerVars, agentVars, handlerVars
<1>1. moves \in [Movers -> {NoMove} \cup Moves]
  BY DEF TInv, DeliveryTypeOK
<1>2. ASSUME NEW u \in Agents, NEW g \in SomeGroup, AssignReads(m, u, g)
      PROVE  TInv'
  <2>1. instances[u] \in AgentStates
    BY <1>2 DEF AssignReads, TInv, DeliveryTypeOK
  <2>2. PICK q : q = [phase |-> "write", agent |-> u, group |-> g, doc |-> instances[u]]
    OBVIOUS
  <2>3. q \in Moves
    BY <2>1, <2>2 DEF Moves
  <2>4. moves' \in [Movers -> {NoMove} \cup Moves]
    BY <1>1, <1>2, <2>2, <2>3 DEF AssignReads
  <2> QED BY <1>2, <2>4 DEF AssignReads, TInv, DeliveryTypeOK, StatusesAreKnown, StatusIsKnown
<1>3. CASE AssignWrites(m)
  <2>1. moves[m] \in Moves
    BY <1>1, <1>3 DEF AssignWrites, NoMove
  <2>2. PICK q : q = [moves[m] EXCEPT !.phase = "register"]
    OBVIOUS
  <2>3. q \in Moves
    BY <2>1, <2>2 DEF Moves
  <2>4. moves' \in [Movers -> {NoMove} \cup Moves]
    BY <1>1, <1>3, <2>2, <2>3 DEF AssignWrites
  <2>5. moves[m].agent \in Agents /\ moves[m].group \in SomeGroup /\ moves[m].doc \in AgentStates
    BY <2>1 DEF Moves
  <2>6. [moves[m].doc EXCEPT !.group = moves[m].group] \in AgentStates
    BY <2>5 DEF AgentStates
  <2>7. instances' \in [Agents -> AgentStates \cup {NoInstance}]
    BY <1>3, <2>5, <2>6 DEF AssignWrites, TInv, DeliveryTypeOK
  <2> QED BY <1>3, <2>4, <2>7 DEF AssignWrites, TInv, DeliveryTypeOK, StatusesAreKnown, StatusIsKnown
<1>4. CASE RegisterInstanceGroup(m)
  <2> DEFINE u == moves[m].agent
             g == moves[m].group
  <2>1. moves[m] \in Moves
    BY <1>1, <1>4 DEF RegisterInstanceGroup, NoMove
  <2>2. u \in Agents /\ g \in SomeGroup
    BY <2>1 DEF Moves
  <2>3. PICK s : s = [mgr[u] EXCEPT !.group = g]
    OBVIOUS
  <2>4. mgr[u] \in AgentStates /\ StatusIsKnown(mgr[u])
    BY <2>2 DEF TInv, DeliveryTypeOK, StatusesAreKnown
  <2>5. s \in AgentStates /\ StatusIsKnown(s)
    BY <2>2, <2>3, <2>4 DEF AgentStates, StatusIsKnown
  <2>6. /\ mgr' = [mgr EXCEPT ![u] = s]
        /\ assigned' = [assigned EXCEPT ![u] = g]
        /\ moves' = [moves EXCEPT ![m] = NoMove]
        /\ UNCHANGED <<offered, uidConn, conn, agentVars, instances, pubs>>
    BY <1>4, <2>3 DEF RegisterInstanceGroup
  <2>7. mgr' \in [Agents -> AgentStates] /\ \A v \in Agents : StatusIsKnown(mgr'[v])
    BY <2>2, <2>5, <2>6 DEF TInv, DeliveryTypeOK, StatusesAreKnown
  <2> HIDE DEF u, g
  <2>8. assigned' \in [Agents -> SomeGroup] /\ moves' \in [Movers -> {NoMove} \cup Moves]
    BY <1>1, <2>2, <2>6 DEF TInv, DeliveryTypeOK
  <2> QED BY <2>6, <2>7, <2>8 DEF TInv, DeliveryTypeOK, StatusesAreKnown, StatusIsKnown
<1> QED BY <1>2, <1>3, <1>4 DEF MoverStep

LEMMA RestartKeepsTypes ==
    ASSUME TInv, Restart
    PROVE  TInv'
<1>1. NewState \in AgentStates /\ StatusIsKnown(NewState)
  BY DEF NewState, AgentStates, SomeGroup, SomeHash, StatusIsKnown
<1>2. PICK r : r = [NewGoroutine EXCEPT !.phase = "closed"]
  OBVIOUS
<1>3. r \in Goroutines /\ r.snap = NewState /\ r.phase = "closed"
  BY <1>1, <1>2 DEF NewGoroutine, Goroutines, SomeHash
<1>4. conn' = [c \in Connections |-> IF conn[c].phase = "unused" THEN conn[c] ELSE r]
  BY <1>2 DEF Restart
<1>5. /\ conn' \in [Connections -> Goroutines]
      /\ \A d \in Connections :
            StatusIsKnown(conn'[d].snap) /\ conn'[d].phase # "mark"
  BY <1>1, <1>3, <1>4 DEF TInv, DeliveryTypeOK, StatusesAreKnown
<1>6. /\ mgr' = [u \in Agents |-> NewState]
      /\ assigned' = [u \in Agents |-> NoGroup]
      /\ offered' = [g \in Groups |-> NoHash]
      /\ uidConn' = [u \in Agents |-> NoConn]
      /\ link' = [u \in Agents |-> NoConn]
      /\ wire' = [c \in Connections |-> <<>>]
      /\ pubs' = [p \in Publishers |-> NoDeployment]
      /\ moves' = [m \in Movers |-> NoMove]
      /\ UNCHANGED <<agent, instances>>
  BY DEF Restart
<1>7. DeliveryTypeOK'
  BY <1>1, <1>5, <1>6 DEF TInv, DeliveryTypeOK, SomeGroup, SomeHash
<1>8. StatusesAreKnown'
  BY <1>1, <1>5, <1>6 DEF TInv, StatusesAreKnown, StatusIsKnown
<1> QED BY <1>7, <1>8 DEF TInv

LEMMA TInvNext == TInv /\ [DeliveryNext]_deliveryVars => TInv'
<1> SUFFICES ASSUME TInv, [DeliveryNext]_deliveryVars PROVE TInv'
  OBVIOUS
<1>1. CASE UNCHANGED deliveryVars
  BY <1>1 DEF deliveryVars, managerVars, agentVars, handlerVars, TInv, DeliveryTypeOK,
              StatusesAreKnown, StatusIsKnown
<1> QED BY <1>1, AgentKeepsTypes, ConnectionKeepsTypes, PublisherKeepsTypes, MoverKeepsTypes,
           RestartKeepsTypes DEF DeliveryNext

LEMMA TypesHold == DeliverySpec => []TInv
<1> QED BY TInvInit, TInvNext, PTL DEF DeliverySpec

-----------------------------------------------------------------------------
(* Refinement: every step of the delivery is a step of the group record.   *)

LEMMA RecordStepRefines ==
    ASSUME NEW c \in Callers, RecordStep(c)
    PROVE  RecordNext
BY DEF RecordStep, RecordNext, CallStep

LEMMA DropRefines ==
    ASSUME NEW c \in Callers, Drop(c)
    PROVE  RecordNext
BY DEF RecordNext, CallStep

LEMMA ConnectionRefines ==
    ASSUME TInv, NEW c \in Connections, ConnectionStep(c) \/ SinkFails(c)
    PROVE  RecordNext \/ UNCHANGED recordVars
<1>1. c \in Callers
  BY DeliveryAssumption
<1>2. CASE \E described, reported \in BOOLEAN : HandleMessage(c, described, reported)
  BY <1>2 DEF HandleMessage
<1>3. CASE MarkConnectionClosed(c) \/ UpsertInstance(c) \/ Respond(c)
  BY <1>3 DEF MarkConnectionClosed, UpsertInstance, Respond
<1>4. CASE MarkGroupConfigStatus(c)
  <2>1. /\ conn[c].snap \in AgentStates /\ StatusIsKnown(conn[c].snap)
        /\ conn[c].snap.group # NoGroup /\ conn[c].snap.hash # NoHash
    BY <1>4 DEF MarkGroupConfigStatus, TInv, DeliveryTypeOK, Goroutines, StatusesAreKnown
  <2>2. /\ conn[c].snap.group \in Groups /\ conn[c].snap.hash \in Hashes
        /\ conn[c].snap.status \in Statuses
    BY <2>1 DEF AgentStates, SomeGroup, SomeHash, StatusIsKnown
  <2>3. StatusReads(c, conn[c].snap.group, conn[c].snap.hash, conn[c].snap.status)
    BY <1>4 DEF MarkGroupConfigStatus
  <2> QED BY <1>1, <2>2, <2>3 DEF RecordNext, CallStep
<1>5. CASE RecordStep(c)
  BY <1>1, <1>5, RecordStepRefines
<1>6. CASE SinkFails(c)
  BY <1>1, <1>6, DropRefines DEF SinkFails
<1> QED BY <1>2, <1>3, <1>4, <1>5, <1>6 DEF ConnectionStep

LEMMA PublisherRefines ==
    ASSUME TInv, NEW p \in Publishers,
           \/ PublisherStep(p) \/ PublishFails(p)
           \/ \E g \in Groups, h \in Hashes : StartDeployment(p, g, h)
           \/ \E g \in Groups : UpdateGroup(p, g)
    PROVE  RecordNext \/ UNCHANGED recordVars
<1>1. p \in Callers
  BY DeliveryAssumption
<1>2. CASE \E c \in Connections : SendTo(p, c) \/ SendFails(p, c)
  BY <1>2 DEF SendTo, SendFails
<1>3. CASE MarkGroupPublishPending(p)
  <2>1. pubs[p].group \in Groups /\ pubs[p].hash \in Hashes
    BY <1>3 DEF MarkGroupPublishPending, TInv, DeliveryTypeOK, Deployments
  <2> QED BY <1>1, <1>3, <2>1 DEF MarkGroupPublishPending, RecordNext, CallStep
<1>4. CASE RecordStep(p)
  BY <1>1, <1>4, RecordStepRefines
<1>5. CASE PublishFails(p)
  BY <1>1, <1>5, DropRefines DEF PublishFails
<1>6. CASE \E g \in Groups, h \in Hashes : StartDeployment(p, g, h)
  BY <1>6 DEF StartDeployment
<1>7. CASE \E g \in Groups : UpdateGroup(p, g)
  BY <1>1, <1>7 DEF UpdateGroup, RecordNext, CallStep
<1> QED BY <1>2, <1>3, <1>4, <1>5, <1>6, <1>7 DEF PublisherStep

LEMMA StepRefines == TInv /\ [DeliveryNext]_deliveryVars => [RecordNext]_recordVars
<1> SUFFICES ASSUME TInv, [DeliveryNext]_deliveryVars PROVE RecordNext \/ UNCHANGED recordVars
  BY DEF recordVars
<1>1. CASE UNCHANGED deliveryVars
  BY <1>1 DEF deliveryVars
<1>2. CASE AgentStep
  BY <1>2 DEF AgentStep, Connect, Disconnect, Receive, Finish
<1>3. CASE \E c \in Connections : ConnectionStep(c) \/ SinkFails(c)
  BY <1>3, ConnectionRefines
<1>4. ASSUME NEW p \in Publishers,
             \/ PublisherStep(p) \/ PublishFails(p)
             \/ \E g \in Groups, h \in Hashes : StartDeployment(p, g, h)
             \/ \E g \in Groups : UpdateGroup(p, g)
      PROVE  RecordNext \/ UNCHANGED recordVars
  BY <1>4, PublisherRefines
<1>5. CASE \E m \in Movers : \/ MoverStep(m)
                             \/ \E u \in Agents, g \in SomeGroup : AssignReads(m, u, g)
  BY <1>5 DEF MoverStep, AssignWrites, RegisterInstanceGroup, AssignReads
<1>6. CASE Restart
  BY <1>6 DEF Restart, RecordNext
<1> QED BY <1>1, <1>2, <1>3, <1>4, <1>5, <1>6 DEF DeliveryNext

\* The delivery is written with the operations of GroupRecord: what holds of the record under
\* every order of them holds here.
LEMMA DeliveryRunsRecordOperations == DeliverySpec => RecordSpec
<1>1. DeliveryInit => RecordInit
  BY DEF DeliveryInit
<1> QED BY <1>1, StepRefines, TypesHold, PTL DEF DeliverySpec, RecordSpec

\* Whatever connections, publish handlers and moves do, a group shows only what was reported for
\* the configuration it desires, and counts its versions (RecordIsSound).
THEOREM DeliveryKeepsRecord == DeliverySpec => []RecordIsSound
<1> QED BY DeliveryRunsRecordOperations, RecordIsConsistent, PTL

-----------------------------------------------------------------------------
(* Whoever is taken for online can be reached.                             *)

\* A goroutine changes: it keeps serving its agent, or it served nobody.
LEMMA GoroutineKeepsReach ==
    ASSUME TInv, OnlineIsReachable, NEW c \in Connections, NEW r \in Goroutines,
           conn' = [conn EXCEPT ![c] = r], UNCHANGED <<mgr, uidConn>>,
           uidConn[Owner[c]] = c =>
               /\ r.bound /\ r.phase # "closed"
               /\ r.phase # "open" => r.snap.online
    PROVE  OnlineIsReachable'
<1>1. \A d \in Connections : conn'[d] = IF d = c THEN r ELSE conn[d]
  BY DEF TInv, DeliveryTypeOK
<1>2. \A u \in Agents : uidConn[u] # NoConn => uidConn[u] \in Connections
  BY DEF TInv, DeliveryTypeOK
<1> QED BY <1>1, <1>2 DEF OnlineIsReachable

LEMMA ConnectionKeepsReach ==
    ASSUME TInv, OnlineIsReachable, NEW c \in Connections, ConnectionStep(c) \/ SinkFails(c)
    PROVE  OnlineIsReachable'
<1>0. /\ Owner[c] \in Agents /\ conn[c] \in Goroutines /\ conn \in [Connections -> Goroutines]
      /\ mgr \in [Agents -> AgentStates] /\ uidConn \in [Agents -> Connections \cup {NoConn}]
      /\ NoConn \notin Connections
  BY DeliveryAssumption DEF TInv, DeliveryTypeOK
<1>1. ASSUME NEW described \in BOOLEAN, NEW reported \in BOOLEAN,
             HandleMessage(c, described, reported)
      PROVE  OnlineIsReachable'
  <2>1. PICK state \in AgentStates, r \in Goroutines :
           /\ state.online /\ r.phase = "upsert" /\ r.bound /\ r.snap = state
           /\ mgr' = [mgr EXCEPT ![Owner[c]] = state]
           /\ uidConn' = [uidConn EXCEPT ![Owner[c]] = c]
           /\ conn' = [conn EXCEPT ![c] = r]
    BY <1>1, MessageEffect
  <2>2. /\ mgr'[Owner[c]] = state /\ uidConn'[Owner[c]] = c /\ conn'[c] = r
        /\ \A u \in Agents \ {Owner[c]} : mgr'[u] = mgr[u] /\ uidConn'[u] = uidConn[u]
        /\ \A d \in Connections \ {c} : conn'[d] = conn[d]
    BY <1>0, <2>1
  <2> SUFFICES ASSUME NEW u \in Agents
               PROVE  /\ mgr'[u].online <=> uidConn'[u] # NoConn
                      /\ uidConn'[u] # NoConn =>
                            /\ Owner[uidConn'[u]] = u
                            /\ conn'[uidConn'[u]].bound
                            /\ conn'[uidConn'[u]].phase # "closed"
                            /\ conn'[uidConn'[u]].phase # "open" => conn'[uidConn'[u]].snap.online
    BY DEF OnlineIsReachable
  <2>3. CASE u = Owner[c]
    BY <1>0, <2>1, <2>2, <2>3
  <2>4. CASE u # Owner[c]
    BY <1>0, <2>2, <2>4 DEF OnlineIsReachable
  <2> QED BY <2>3, <2>4
<1>2. CASE MarkConnectionClosed(c)
  <2>1. CASE conn[c].bound
    <3>1. PICK r : /\ mgr' = [mgr EXCEPT ![Owner[c]] = Offline(mgr[Owner[c]])]
                   /\ uidConn' = [uidConn EXCEPT ![Owner[c]] = NoConn]
                   /\ conn' = [conn EXCEPT ![c] = r]
      BY <1>2, <2>1 DEF MarkConnectionClosed, WithoutConnection
    <3>2. /\ ~mgr'[Owner[c]].online /\ uidConn'[Owner[c]] = NoConn
          /\ \A u \in Agents \ {Owner[c]} : mgr'[u] = mgr[u] /\ uidConn'[u] = uidConn[u]
          /\ \A d \in Connections \ {c} : conn'[d] = conn[d]
      <4>1. mgr[Owner[c]] \in AgentStates
        BY <1>0
      <4>2. ~Offline(mgr[Owner[c]]).online
        BY <4>1 DEF Offline, AgentStates
      <4> QED BY <1>0, <3>1, <4>2
    <3>3. \A u \in Agents \ {Owner[c]} : uidConn[u] # c
      BY <1>0 DEF OnlineIsReachable
    <3> QED BY <1>0, <3>2, <3>3 DEF OnlineIsReachable
  <2>2. CASE ~conn[c].bound
    <3>1. PICK r : r = [conn[c] EXCEPT !.phase = "closed"]
      OBVIOUS
    <3>2. r \in Goroutines
      BY <1>0, <3>1 DEF Goroutines
    <3>3. conn' = [conn EXCEPT ![c] = r] /\ UNCHANGED <<mgr, uidConn>>
      BY <1>2, <2>2, <3>1 DEF MarkConnectionClosed
    <3>4. uidConn[Owner[c]] # c
      BY <1>0, <2>2 DEF OnlineIsReachable
    <3> QED BY <3>2, <3>3, <3>4, GoroutineKeepsReach
  <2> QED BY <2>1, <2>2
<1>3. CASE Respond(c)
  <2>1. PICK r : r = IF conn[c].snap.online
                     THEN [NewGoroutine EXCEPT !.phase = "open", !.bound = TRUE]
                     ELSE [NewGoroutine EXCEPT !.phase = "closed"]
    OBVIOUS
  <2>2. NewState \in AgentStates
    BY DEF NewState, AgentStates, SomeGroup, SomeHash
  <2>3. r \in Goroutines /\ (conn[c].snap.online => r.phase = "open" /\ r.bound)
    BY <2>1, <2>2 DEF NewGoroutine, Goroutines, SomeHash
  <2>4. uidConn[Owner[c]] = c => conn[c].snap.online
    BY <1>0, <1>3 DEF Respond, OnlineIsReachable
  <2>5. conn' = [conn EXCEPT ![c] = r] /\ UNCHANGED <<mgr, uidConn>>
    BY <1>3, <2>1 DEF Respond, managerVars
  <2> QED BY <2>3, <2>4, <2>5, GoroutineKeepsReach
<1>4. ASSUME NEW phase \in {AfterUpsert(conn[c].snap), "respond"},
             conn[c].phase \in {"upsert", "mark"},
             conn' = [conn EXCEPT ![c].phase = phase], UNCHANGED <<mgr, uidConn>>
      PROVE  OnlineIsReachable'
  <2>1. PICK r : r = [conn[c] EXCEPT !.phase = phase]
    OBVIOUS
  <2>2. r \in Goroutines /\ r.phase = phase /\ r.snap = conn[c].snap /\ r.bound = conn[c].bound
    BY <1>0, <2>1 DEF Goroutines, AfterUpsert
  <2>3. phase \notin {"open", "closed"}
    BY DEF AfterUpsert
  <2>4. conn' = [conn EXCEPT ![c] = r]
    BY <1>4, <2>1
  <2>5. uidConn[Owner[c]] = c => conn[c].bound /\ conn[c].snap.online
    BY <1>0, <1>4 DEF OnlineIsReachable
  <2> QED BY <1>4, <2>2, <2>3, <2>4, <2>5, GoroutineKeepsReach
<1>5. CASE conn' = conn /\ UNCHANGED <<mgr, uidConn>>
  BY <1>5 DEF OnlineIsReachable
<1>6. CASE UpsertInstance(c)
  BY <1>4, <1>6 DEF UpsertInstance, managerVars
<1>7. CASE MarkGroupConfigStatus(c)
  BY <1>4, <1>7 DEF MarkGroupConfigStatus, managerVars
<1>8. CASE RecordStep(c)
  BY <1>5, <1>8 DEF RecordStep, managerVars
<1>9. CASE SinkFails(c)
  BY <1>4, <1>5, <1>9 DEF SinkFails, managerVars
<1> QED BY <1>1, <1>2, <1>3, <1>6, <1>7, <1>8, <1>9 DEF ConnectionStep

LEMMA ReachNext ==
    TInv /\ OnlineIsReachable /\ [DeliveryNext]_deliveryVars => OnlineIsReachable'
<1> SUFFICES ASSUME TInv, OnlineIsReachable, [DeliveryNext]_deliveryVars
             PROVE  OnlineIsReachable'
  OBVIOUS
<1> USE DEF managerVars
<1>1. CASE UNCHANGED <<mgr, uidConn, conn>>
  BY <1>1 DEF OnlineIsReachable
<1>2. CASE \E c \in Connections : Connect(c)
  <2>1. PICK c \in Connections : Connect(c)
    BY <1>2
  <2>2. PICK r : r = [conn[c] EXCEPT !.phase = "open"]
    OBVIOUS
  <2>3. conn[c] \in Goroutines
    BY DEF TInv, DeliveryTypeOK
  <2>4. r \in Goroutines /\ r.bound = conn[c].bound /\ r.phase = "open"
    BY <2>2, <2>3 DEF Goroutines
  <2>5. conn' = [conn EXCEPT ![c] = r] /\ UNCHANGED <<mgr, uidConn>>
    BY <2>1, <2>2 DEF Connect
  <2>6. uidConn[Owner[c]] = c => conn[c].bound
    BY DeliveryAssumption DEF OnlineIsReachable
  <2> QED BY <2>4, <2>5, <2>6, GoroutineKeepsReach
<1>3. CASE \E u \in Agents : Disconnect(u) \/ Receive(u) \/ Finish(u)
  BY <1>1, <1>3 DEF Disconnect, Receive, Finish
<1>4. CASE \E c \in Connections : ConnectionStep(c) \/ SinkFails(c)
  BY <1>4, ConnectionKeepsReach
<1>5. CASE \E p \in Publishers :
             \/ PublisherStep(p) \/ PublishFails(p)
             \/ \E g \in Groups, h \in Hashes : StartDeployment(p, g, h)
             \/ \E g \in Groups : UpdateGroup(p, g)
  BY <1>1, <1>5 DEF PublisherStep, PublishFails, StartDeployment, UpdateGroup, SendTo, SendFails,
                    MarkGroupPublishPending, RecordStep
<1>6. CASE \E m \in Movers : RegisterInstanceGroup(m)
  <2>1. PICK m \in Movers : RegisterInstanceGroup(m)
    BY <1>6
  <2>2. moves[m].agent \in Agents
    BY <2>1 DEF RegisterInstanceGroup, TInv, DeliveryTypeOK, NoMove, Moves
  <2>3. mgr' = [mgr EXCEPT ![moves[m].agent].group = moves[m].group] /\ UNCHANGED <<uidConn, conn>>
    BY <2>1 DEF RegisterInstanceGroup
  <2>4. \A u \in Agents : mgr'[u].online = mgr[u].online
    BY <2>2, <2>3 DEF TInv, DeliveryTypeOK, AgentStates
  <2> QED BY <2>3, <2>4 DEF OnlineIsReachable
<1>7. CASE \E m \in Movers : \/ AssignWrites(m)
                             \/ \E u \in Agents, g \in SomeGroup : AssignReads(m, u, g)
  BY <1>1, <1>7 DEF AssignWrites, AssignReads
<1>8. CASE Restart
  <2>1. /\ mgr' = [u \in Agents |-> NewState]
        /\ uidConn' = [u \in Agents |-> NoConn]
    BY <1>8 DEF Restart
  <2> QED BY <2>1 DEF OnlineIsReachable, NewState
<1>9. CASE UNCHANGED deliveryVars
  BY <1>1, <1>9 DEF deliveryVars
<1> QED BY <1>2, <1>3, <1>4, <1>5, <1>6, <1>7, <1>8, <1>9 DEF DeliveryNext, AgentStep, MoverStep

LEMMA ReachHolds == DeliverySpec => []OnlineIsReachable
<1>1. DeliveryInit => OnlineIsReachable
  BY DEF DeliveryInit, OnlineIsReachable, NewState
<1> QED BY <1>1, ReachNext, TypesHold, PTL DEF DeliverySpec

-----------------------------------------------------------------------------
(* Where configurations come from.  Effect says what any step may do to    *)
(* memberships, offers and outcomes; HInv is kept by every such step.      *)

HistoryTypeOK ==
    /\ newest \in [Groups -> SomeHash]
    /\ sentTo \in [Groups -> SUBSET Hashes]
    /\ member \in [Agents -> SUBSET Groups]
    /\ ran \in [Agents -> SUBSET SomeHash]

\* u was in a group that h was deployed to.
Entitled(u, h) == \E g \in member[u] : h \in sentTo[g]

GroupIsKnown(u, g) == g # NoGroup => g \in member[u]

OutcomeIsTrue(u, s) == s.status = "applied" => s.hash \in ran[u]

AgentIsSound(u) ==
    /\ link[u] # NoConn => Owner[link[u]] = u
    /\ GroupIsKnown(u, assigned[u])
    /\ GroupIsKnown(u, mgr[u].group)
    /\ agent[u].hash # NoHash => Entitled(u, agent[u].hash)
    /\ OutcomeIsTrue(u, agent[u])
    /\ OutcomeIsTrue(u, mgr[u])

ConnIsSound(c) ==
    /\ GroupIsKnown(Owner[c], conn[c].snap.group)
    /\ OutcomeIsTrue(Owner[c], conn[c].snap)
    /\ conn[c].offer # NoHash => Entitled(Owner[c], conn[c].offer)
    /\ \A i \in DOMAIN wire[c] : Entitled(Owner[c], wire[c][i])

DeploymentIsSound(d) ==
    /\ d.hash \in sentTo[d.group]
    /\ \A c \in d.targets : d.group \in member[Owner[c]]

HInv ==
    /\ HistoryTypeOK
    /\ \A u \in Agents : AgentIsSound(u)
    /\ \A c \in Connections : ConnIsSound(c)
    /\ \A g \in Groups : offered[g] # NoHash => offered[g] \in sentTo[g]
    /\ \A p \in Publishers : pubs[p] # NoDeployment => DeploymentIsSound(pubs[p])

HistoryGrows ==
    /\ \A u \in Agents : member[u] \subseteq member'[u] /\ ran[u] \subseteq ran'[u]
    /\ \A g \in Groups : sentTo[g] \subseteq sentTo'[g]

AgentEffect(u) ==
    /\ assigned'[u] \in {assigned[u], NoGroup} \cup member'[u]
    /\ mgr'[u].group \in {mgr[u].group, NoGroup} \cup member'[u]
    /\ \/ mgr'[u].hash = mgr[u].hash /\ mgr'[u].status = mgr[u].status
       \/ mgr'[u].hash = agent[u].hash /\ mgr'[u].status = agent[u].status
       \/ mgr'[u].status = "unset"
    /\ link'[u] \in {link[u], NoConn} \/ Owner[link'[u]] = u
    /\ \/ agent'[u].hash = agent[u].hash
       \/ link[u] # NoConn /\ \E i \in DOMAIN wire[link[u]] : agent'[u].hash = wire[link[u]][i]
    /\ \/ agent'[u] = agent[u]
       \/ agent'[u].status # "applied"
       \/ agent'[u].hash \in ran'[u]

ConnEffect(c) ==
    /\ conn'[c].snap \in {conn[c].snap, NewState, mgr'[Owner[c]]}
    /\ \/ conn'[c].offer \in {conn[c].offer, NoHash}
       \/ \E g \in member'[Owner[c]] : conn'[c].offer = offered'[g]
    /\ \A i \in DOMAIN wire'[c] :
          \/ \E j \in DOMAIN wire[c] : wire'[c][i] = wire[c][j]
          \/ conn[c].offer # NoHash /\ wire'[c][i] = conn[c].offer
          \/ \E p \in Publishers : /\ pubs[p] # NoDeployment
                                   /\ c \in pubs[p].targets
                                   /\ wire'[c][i] = pubs[p].hash

GroupEffect(g) ==
    /\ offered'[g] \in {offered[g], NoHash} \cup sentTo'[g]
    /\ \/ newest'[g] \in {NoHash, offered'[g]}
       \/ newest'[g] = newest[g] /\ offered'[g] = offered[g]
       \/ /\ newest'[g] = newest[g]
          /\ \E u \in Agents : /\ g \in member'[u]
                               /\ mgr'[u].status = "applied" /\ mgr'[u].hash = offered[g]

DeploymentEffect(p) ==
    pubs'[p] # NoDeployment =>
        \/ /\ pubs[p] # NoDeployment
           /\ pubs'[p].hash = pubs[p].hash /\ pubs'[p].group = pubs[p].group
           /\ pubs'[p].targets \subseteq pubs[p].targets
        \/ /\ pubs'[p].hash \in sentTo'[pubs'[p].group]
           /\ \A c \in pubs'[p].targets : mgr[Owner[c]].group = pubs'[p].group

Effect ==
    /\ HistoryTypeOK' /\ HistoryGrows
    /\ \A u \in Agents : AgentEffect(u)
    /\ \A c \in Connections : ConnEffect(c)
    /\ \A g \in Groups : GroupEffect(g)
    /\ \A p \in Publishers : DeploymentEffect(p)

LEMMA EffectKeepsAgents ==
    ASSUME TInv, HInv, Effect, NEW u \in Agents
    PROVE  AgentIsSound(u)'
<1>1. AgentIsSound(u) /\ AgentEffect(u) /\ member[u] \subseteq member'[u] /\ ran[u] \subseteq ran'[u]
  BY DEF HInv, Effect, HistoryGrows
<1>2. \A h : Entitled(u, h) => Entitled(u, h)'
  BY DEF Entitled, Effect, HistoryGrows, HInv, HistoryTypeOK
<1>3. link[u] # NoConn => ConnIsSound(link[u]) /\ Owner[link[u]] = u
  BY <1>1 DEF TInv, DeliveryTypeOK, HInv, AgentIsSound
<1>4. (agent[u].hash # NoHash => Entitled(u, agent[u].hash))'
  BY <1>1, <1>2, <1>3 DEF AgentIsSound, AgentEffect, ConnIsSound
<1>5. OutcomeIsTrue(u, agent[u])'
  BY <1>1 DEF AgentIsSound, AgentEffect, OutcomeIsTrue
<1>6. OutcomeIsTrue(u, mgr[u])'
  BY <1>1 DEF AgentIsSound, AgentEffect, OutcomeIsTrue
<1>7. (link[u] # NoConn => Owner[link[u]] = u)'
  BY <1>1 DEF AgentIsSound, AgentEffect
<1>8. GroupIsKnown(u, assigned[u])' /\ GroupIsKnown(u, mgr[u].group)'
  BY <1>1 DEF AgentIsSound, AgentEffect, GroupIsKnown
<1> QED BY <1>4, <1>5, <1>6, <1>7, <1>8 DEF AgentIsSound

LEMMA EffectKeepsHInv ==
    ASSUME TInv, TInv', HInv, Effect
    PROVE  HInv'
<1>1. \A u \in Agents : AgentIsSound(u)'
  BY EffectKeepsAgents
<1>2. \A u \in Agents : \A h : Entitled(u, h) => Entitled(u, h)'
  BY DEF Entitled, Effect, HistoryGrows, HInv, HistoryTypeOK
<1>3. \A g \in Groups : (offered[g] # NoHash => offered[g] \in sentTo[g])'
  BY DEF HInv, Effect, GroupEffect, HistoryGrows
<1>4. ASSUME NEW c \in Connections
      PROVE  ConnIsSound(c)'
  <2>1. Owner[c] \in Agents /\ ConnIsSound(c) /\ ConnEffect(c)
    BY DeliveryAssumption DEF HInv, Effect
  <2>2. member[Owner[c]] \subseteq member'[Owner[c]] /\ ran[Owner[c]] \subseteq ran'[Owner[c]]
    BY <2>1 DEF Effect, HistoryGrows
  <2>3. GroupIsKnown(Owner[c], conn[c].snap.group)'
    BY <1>1, <2>1, <2>2 DEF ConnIsSound, ConnEffect, GroupIsKnown, AgentIsSound, NewState
  <2>4. OutcomeIsTrue(Owner[c], conn[c].snap)'
    BY <1>1, <2>1, <2>2 DEF ConnIsSound, ConnEffect, OutcomeIsTrue, AgentIsSound, NewState
  <2>5. (conn[c].offer # NoHash => Entitled(Owner[c], conn[c].offer))'
    <3>1. ASSUME NEW g \in member'[Owner[c]], conn'[c].offer = offered'[g], conn'[c].offer # NoHash
          PROVE  Entitled(Owner[c], conn[c].offer)'
      BY <1>3, <2>1, <3>1 DEF Effect, HistoryTypeOK, Entitled
    <3> QED BY <1>2, <2>1, <3>1 DEF ConnIsSound, ConnEffect
  <2>6. ASSUME NEW i \in DOMAIN wire'[c]
        PROVE  Entitled(Owner[c], wire[c][i])'
    <3>1. CASE \E j \in DOMAIN wire[c] : wire'[c][i] = wire[c][j]
      BY <1>2, <2>1, <3>1 DEF ConnIsSound
    <3>2. CASE conn[c].offer # NoHash /\ wire'[c][i] = conn[c].offer
      BY <1>2, <2>1, <3>2 DEF ConnIsSound
    <3>3. ASSUME NEW p \in Publishers, pubs[p] # NoDeployment, c \in pubs[p].targets,
                 wire'[c][i] = pubs[p].hash
          PROVE  Entitled(Owner[c], wire[c][i])'
      <4>1. pubs[p].group \in member[Owner[c]] /\ pubs[p].hash \in sentTo[pubs[p].group]
        BY <3>3 DEF HInv, DeploymentIsSound
      <4>2. Entitled(Owner[c], wire'[c][i])
        BY <3>3, <4>1 DEF Entitled
      <4> QED BY <1>2, <2>1, <4>2
    <3> QED BY <2>1, <3>1, <3>2, <3>3 DEF ConnEffect
  <2> QED BY <2>3, <2>4, <2>5, <2>6 DEF ConnIsSound
<1>5. ASSUME NEW p \in Publishers, pubs'[p] # NoDeployment
      PROVE  DeploymentIsSound(pubs[p])'
  <2>1. /\ pubs'[p].group \in Groups /\ pubs'[p].group # NoGroup
        /\ pubs'[p].targets \subseteq Connections
    BY <1>5, DeliveryAssumption DEF TInv, DeliveryTypeOK, Deployments
  <2>2. \A g \in Groups : sentTo[g] \subseteq sentTo'[g]
    BY DEF Effect, HistoryGrows
  <2>3. \A c \in Connections :
           /\ Owner[c] \in Agents /\ member[Owner[c]] \subseteq member'[Owner[c]]
           /\ GroupIsKnown(Owner[c], mgr[Owner[c]].group)
    BY DeliveryAssumption DEF Effect, HistoryGrows, HInv, AgentIsSound
  <2>4. CASE /\ pubs[p] # NoDeployment
             /\ pubs'[p].hash = pubs[p].hash /\ pubs'[p].group = pubs[p].group
             /\ pubs'[p].targets \subseteq pubs[p].targets
    BY <2>1, <2>2, <2>3, <2>4 DEF HInv, DeploymentIsSound
  <2>5. CASE /\ pubs'[p].hash \in sentTo'[pubs'[p].group]
             /\ \A c \in pubs'[p].targets : mgr[Owner[c]].group = pubs'[p].group
    BY <2>1, <2>3, <2>5 DEF GroupIsKnown, DeploymentIsSound
  <2> QED BY <1>5, <2>4, <2>5 DEF Effect, DeploymentEffect
<1> QED BY <1>1, <1>3, <1>4, <1>5 DEF HInv, Effect

\* What a step leaves alone, it has no effect on.
LEMMA NothingChanges ==
    ASSUME HInv
    PROVE  /\ UNCHANGED <<newest, sentTo, member, ran>> => HistoryTypeOK' /\ HistoryGrows
           /\ UNCHANGED <<mgr, assigned, link, agent>> => \A u \in Agents : AgentEffect(u)
           /\ UNCHANGED <<conn, wire>> => \A c \in Connections : ConnEffect(c)
           /\ UNCHANGED <<offered, newest>> => \A g \in Groups : GroupEffect(g)
           /\ UNCHANGED pubs => \A p \in Publishers : DeploymentEffect(p)
BY DEF HInv, HistoryTypeOK, HistoryGrows, AgentEffect, ConnEffect, GroupEffect,
       DeploymentEffect

LEMMA AgentHasEffect ==
    ASSUME TInv, HInv, AgentStep
    PROVE  Effect
<1> USE DEF managerVars, handlerVars, historyVars
<1>1. CASE \E c \in Connections : Connect(c)
  <2>1. PICK c \in Connections : Connect(c)
    BY <1>1
  <2>2. \A u \in Agents : AgentEffect(u)
    BY <2>1 DEF Connect, AgentEffect, TInv, DeliveryTypeOK
  <2>3. \A d \in Connections : conn'[d].snap = conn[d].snap /\ conn'[d].offer = conn[d].offer
    BY <2>1 DEF Connect, TInv, DeliveryTypeOK, Goroutines
  <2>4. \A d \in Connections : ConnEffect(d)
    BY <2>1, <2>3 DEF Connect, ConnEffect
  <2> QED BY <2>1, <2>2, <2>4, NothingChanges DEF Connect, Effect
<1>2. ASSUME NEW u \in Agents, Disconnect(u)
      PROVE  Effect
  <2>1. \A v \in Agents : AgentEffect(v)
    BY <1>2 DEF Disconnect, AgentEffect, TInv, DeliveryTypeOK
  <2>2. \A d \in Connections : ConnEffect(d)
    BY <1>2 DEF Disconnect, ConnEffect, TInv, DeliveryTypeOK
  <2> QED BY <1>2, <2>1, <2>2, NothingChanges DEF Disconnect, Effect
<1>3. ASSUME NEW u \in Agents, Receive(u)
      PROVE  Effect
  <2>1. link[u] \in Connections /\ wire[link[u]] \in Seq(Hashes) /\ wire[link[u]] # <<>>
    BY <1>3 DEF TInv, DeliveryTypeOK, Receive
  <2>2. /\ 1 \in DOMAIN wire[link[u]] /\ Head(wire[link[u]]) = wire[link[u]][1]
        /\ \A i \in DOMAIN Tail(wire[link[u]]) :
              i + 1 \in DOMAIN wire[link[u]] /\ Tail(wire[link[u]])[i] = wire[link[u]][i + 1]
    BY <2>1
  <2>3. \A v \in Agents : AgentEffect(v)
    BY <1>3, <2>1, <2>2 DEF Receive, AgentEffect, TInv, DeliveryTypeOK
  <2>4. \A d \in Connections : ConnEffect(d)
    BY <1>3, <2>1, <2>2 DEF Receive, ConnEffect, TInv, DeliveryTypeOK
  <2> QED BY <1>3, <2>3, <2>4, NothingChanges DEF Receive, Effect
<1>4. ASSUME NEW u \in Agents, Finish(u)
      PROVE  Effect
  <2>1. agent[u].hash \in SomeHash
    BY DEF TInv, DeliveryTypeOK
  <2>2. HistoryTypeOK' /\ HistoryGrows
    BY <1>4, <2>1 DEF Finish, HInv, HistoryTypeOK, HistoryGrows
  <2>3. \A v \in Agents : AgentEffect(v)
    <3> SUFFICES ASSUME NEW v \in Agents PROVE AgentEffect(v)
      OBVIOUS
    <3>1. CASE v # u
      BY <1>4, <3>1 DEF Finish, AgentEffect, TInv, DeliveryTypeOK
    <3>2. CASE v = u
      <4>1. agent'[u].hash = agent[u].hash
        BY <1>4 DEF Finish, TInv, DeliveryTypeOK
      <4>2. CASE agent[u].hash \in Rejected
        <5>1. agent'[u].status = "failed"
          BY <1>4, <4>2 DEF Finish, TInv, DeliveryTypeOK
        <5> QED BY <1>4, <3>2, <4>1, <5>1 DEF Finish, AgentEffect
      <4>3. CASE agent[u].hash \notin Rejected
        <5>1. agent[u].hash \in ran'[u]
          BY <1>4, <4>3 DEF Finish, HInv, HistoryTypeOK
        <5> QED BY <1>4, <3>2, <4>1, <5>1 DEF Finish, AgentEffect
      <4> QED BY <4>2, <4>3
    <3> QED BY <3>1, <3>2
  <2> QED BY <1>4, <2>2, <2>3, NothingChanges DEF Finish, Effect
<1> QED BY <1>1, <1>2, <1>3, <1>4 DEF AgentStep

LEMMA JoinGrows ==
    ASSUME HInv, NEW u \in Agents, NEW g \in SomeGroup, JoinHistory(u, g),
           UNCHANGED <<newest, sentTo, ran>>
    PROVE  HistoryTypeOK' /\ HistoryGrows /\ (g # NoGroup => g \in member'[u])
<1>1. member \in [Agents -> SUBSET Groups]
  BY DEF HInv, HistoryTypeOK
<1>2. CASE g = NoGroup
  BY <1>2, NothingChanges DEF JoinHistory
<1>3. CASE g # NoGroup
  <2>1. g \in Groups /\ member' = [member EXCEPT ![u] = @ \cup {g}]
    BY <1>3 DEF JoinHistory, SomeGroup
  <2> QED BY <1>1, <2>1 DEF HInv, HistoryTypeOK, HistoryGrows
<1> QED BY <1>2, <1>3

LEMMA MessageHasEffect ==
    ASSUME TInv, HInv, NEW c \in Connections, NEW described \in BOOLEAN, NEW reported \in BOOLEAN,
           HandleMessage(c, described, reported)
    PROVE  Effect
<1>1. PICK state \in AgentStates, left \in [Groups -> SomeHash], r \in Goroutines :
         /\ \/ state.hash = agent[Owner[c]].hash /\ state.status = agent[Owner[c]].status
            \/ state.hash = mgr[Owner[c]].hash /\ state.status = mgr[Owner[c]].status
         /\ \/ left = offered
            \/ /\ state.group # NoGroup /\ state.status = "applied"
               /\ state.hash = offered[state.group]
               /\ left = [offered EXCEPT ![state.group] = NoHash]
         /\ r.snap = state
         /\ r.offer = IF state.group = NoGroup THEN NoHash ELSE left[state.group]
         /\ mgr' = [mgr EXCEPT ![Owner[c]] = state]
         /\ assigned' = [assigned EXCEPT ![Owner[c]] = state.group]
         /\ offered' = left
         /\ conn' = [conn EXCEPT ![c] = r]
         /\ JoinHistory(Owner[c], state.group)
         /\ UNCHANGED <<agentVars, handlerVars, newest, sentTo, ran>>
  BY MessageEffect
<1>2. Owner[c] \in Agents /\ state.group \in SomeGroup
  BY DeliveryAssumption DEF AgentStates
<1>3. /\ HistoryTypeOK' /\ HistoryGrows
      /\ state.group # NoGroup => state.group \in member'[Owner[c]]
  BY <1>1, <1>2, JoinGrows
<1>4. /\ mgr'[Owner[c]] = state /\ assigned'[Owner[c]] = state.group /\ conn'[c] = r
      /\ \A u \in Agents \ {Owner[c]} : mgr'[u] = mgr[u] /\ assigned'[u] = assigned[u]
      /\ \A d \in Connections \ {c} : conn'[d] = conn[d]
      /\ UNCHANGED <<link, agent, wire, pubs, newest>>
  BY <1>1, <1>2 DEF TInv, DeliveryTypeOK, agentVars, handlerVars
<1>5. \A u \in Agents : AgentEffect(u)
  BY <1>1, <1>3, <1>4 DEF AgentEffect
<1>6. \A d \in Connections : ConnEffect(d)
  <2>1. ConnEffect(c)
    BY <1>1, <1>3, <1>4 DEF ConnEffect
  <2>2. \A d \in Connections \ {c} : ConnEffect(d)
    BY <1>4 DEF ConnEffect
  <2> QED BY <2>1, <2>2
<1>7. \A g \in Groups : GroupEffect(g)
  <2>1. CASE left = offered
    BY <1>1, <1>4, <2>1 DEF GroupEffect
  <2>2. CASE /\ state.group # NoGroup /\ state.status = "applied"
             /\ state.hash = offered[state.group]
             /\ left = [offered EXCEPT ![state.group] = NoHash]
    <3>1. offered \in [Groups -> SomeHash]
      BY DEF TInv, DeliveryTypeOK
    <3>2. \A g \in Groups \ {state.group} : offered'[g] = offered[g]
      BY <1>1, <2>2, <3>1
    <3>3. state.group \in Groups => offered'[state.group] = NoHash
      BY <1>1, <2>2, <3>1
    <3> QED BY <1>2, <1>3, <1>4, <2>2, <3>2, <3>3 DEF GroupEffect
  <2> QED BY <1>1, <2>1, <2>2
<1>8. \A p \in Publishers : DeploymentEffect(p)
  BY <1>4, NothingChanges
<1> QED BY <1>3, <1>5, <1>6, <1>7, <1>8 DEF Effect

LEMMA ConnectionHasEffect ==
    ASSUME TInv, HInv, NEW c \in Connections, ConnectionStep(c) \/ SinkFails(c)
    PROVE  Effect
<1> USE DEF managerVars, handlerVars, historyVars, agentVars
<1>0. conn \in [Connections -> Goroutines] /\ Owner[c] \in Agents
  BY DeliveryAssumption DEF TInv, DeliveryTypeOK
<1>1. CASE \E described, reported \in BOOLEAN : HandleMessage(c, described, reported)
  BY <1>1, MessageHasEffect
<1>2. CASE MarkConnectionClosed(c)
  <2>1. PICK state : state = Offline(mgr[Owner[c]])
    OBVIOUS
  <2>2. mgr[Owner[c]] \in AgentStates
    BY <1>0 DEF TInv, DeliveryTypeOK
  <2>3. /\ state.group = mgr[Owner[c]].group /\ state.hash = mgr[Owner[c]].hash
        /\ state.status = mgr[Owner[c]].status
    BY <2>1, <2>2 DEF Offline, AgentStates
  <2>4. \/ mgr'[Owner[c]] = state /\ conn'[c].snap = state /\ conn'[c].offer = NoHash
        \/ /\ mgr'[Owner[c]] = mgr[Owner[c]]
           /\ conn'[c].snap = conn[c].snap /\ conn'[c].offer = conn[c].offer
    <3>1. CASE conn[c].bound
      BY <1>0, <1>2, <2>1, <3>1 DEF MarkConnectionClosed, Goroutines, TInv, DeliveryTypeOK
    <3>2. CASE ~conn[c].bound
      BY <1>0, <1>2, <3>2 DEF MarkConnectionClosed, Goroutines
    <3> QED BY <3>1, <3>2
  <2>5. /\ \A u \in Agents \ {Owner[c]} : mgr'[u] = mgr[u]
        /\ \A d \in Connections \ {c} : conn'[d] = conn[d]
        /\ UNCHANGED <<assigned, offered, link, agent, wire, pubs, newest, sentTo, member, ran>>
    BY <1>0, <1>2 DEF MarkConnectionClosed, TInv, DeliveryTypeOK
  <2>6. \A u \in Agents : AgentEffect(u)
    BY <2>3, <2>4, <2>5 DEF AgentEffect
  <2>7. \A d \in Connections : ConnEffect(d)
    <3>1. ConnEffect(c)
      BY <2>4, <2>5 DEF ConnEffect
    <3>2. \A d \in Connections \ {c} : ConnEffect(d)
      BY <2>5 DEF ConnEffect
    <3> QED BY <3>1, <3>2
  <2> QED BY <2>5, <2>6, <2>7, NothingChanges DEF Effect
<1>3. CASE Respond(c)
  <2>1. /\ conn'[c].snap = NewState /\ conn'[c].offer = NoHash
        /\ \A d \in Connections \ {c} : conn'[d] = conn[d] /\ wire'[d] = wire[d]
        /\ UNCHANGED <<mgr, assigned, offered, link, agent, pubs, newest, sentTo, member, ran>>
    BY <1>0, <1>3 DEF Respond, NewGoroutine, TInv, DeliveryTypeOK
  <2>2. \/ wire'[c] = wire[c]
        \/ conn[c].offer # NoHash /\ wire'[c] = Append(wire[c], conn[c].offer)
    BY <1>3 DEF Respond, TInv, DeliveryTypeOK
  <2>3. \A i \in DOMAIN wire'[c] :
           \/ \E j \in DOMAIN wire[c] : wire'[c][i] = wire[c][j]
           \/ conn[c].offer # NoHash /\ wire'[c][i] = conn[c].offer
    <3>1. wire[c] \in Seq(Hashes)
      BY DEF TInv, DeliveryTypeOK
    <3> QED BY <2>2, <3>1
  <2>4. \A d \in Connections : ConnEffect(d)
    BY <2>1, <2>3 DEF ConnEffect
  <2> QED BY <2>1, <2>4, NothingChanges DEF Effect
<1>4. ASSUME NEW phase, conn' = [conn EXCEPT ![c].phase = phase],
             UNCHANGED <<managerVars, agentVars, pubs, historyVars>>
      PROVE  Effect
  <2>1. \A d \in Connections : conn'[d].snap = conn[d].snap /\ conn'[d].offer = conn[d].offer
    BY <1>0, <1>4 DEF Goroutines
  <2>2. \A d \in Connections : ConnEffect(d)
    BY <1>4, <2>1 DEF ConnEffect
  <2> QED BY <1>4, <2>2, NothingChanges DEF Effect
<1>5. CASE conn' = conn /\ UNCHANGED <<managerVars, agentVars, pubs, historyVars>>
  BY <1>5, NothingChanges DEF Effect
<1>6. CASE UpsertInstance(c)
  BY <1>4, <1>6 DEF UpsertInstance
<1>7. CASE MarkGroupConfigStatus(c)
  BY <1>4, <1>7 DEF MarkGroupConfigStatus
<1>8. CASE RecordStep(c)
  BY <1>5, <1>8 DEF RecordStep
<1>9. CASE SinkFails(c)
  BY <1>4, <1>5, <1>9 DEF SinkFails
<1> QED BY <1>1, <1>2, <1>3, <1>6, <1>7, <1>8, <1>9 DEF ConnectionStep

LEMMA PublisherHasEffect ==
    ASSUME TInv, OnlineIsReachable, HInv, NEW p \in Publishers,
           \/ PublisherStep(p) \/ PublishFails(p)
           \/ \E g \in Groups, h \in Hashes : StartDeployment(p, g, h)
           \/ \E g \in Groups : UpdateGroup(p, g)
    PROVE  Effect
<1> USE DEF managerVars, handlerVars, historyVars, agentVars
<1>0. pubs \in [Publishers -> {NoDeployment} \cup Deployments]
  BY DEF TInv, DeliveryTypeOK
<1>1. CASE UNCHANGED <<managerVars, conn, agentVars, pubs, historyVars>>
  BY <1>1, NothingChanges DEF Effect
<1>2. ASSUME pubs' = [pubs EXCEPT ![p] = NoDeployment],
             UNCHANGED <<managerVars, conn, agentVars, historyVars>>
      PROVE  Effect
  <2>1. \A q \in Publishers : DeploymentEffect(q)
    BY <1>0, <1>2 DEF DeploymentEffect
  <2> QED BY <1>2, <2>1, NothingChanges DEF Effect
<1>3. ASSUME NEW c \in Connections, SendTo(p, c)
      PROVE  Effect
  <2>1. pubs[p] \in Deployments /\ pubs[p] # NoDeployment /\ c \in pubs[p].targets
    BY <1>0, <1>3 DEF SendTo
  <2>2. PICK d : d = [pubs[p] EXCEPT !.targets = @ \ {c}]
    OBVIOUS
  <2>3. d.hash = pubs[p].hash /\ d.group = pubs[p].group /\ d.targets \subseteq pubs[p].targets
    BY <2>1, <2>2 DEF Deployments
  <2>4. pubs' = [pubs EXCEPT ![p] = d]
    BY <1>0, <1>3, <2>2 DEF SendTo
  <2>5. \A q \in Publishers : DeploymentEffect(q)
    BY <1>0, <2>1, <2>3, <2>4 DEF DeploymentEffect
  <2>6. wire'[c] = wire[c] \/ wire'[c] = Append(wire[c], pubs[p].hash)
    BY <1>3 DEF SendTo, TInv, DeliveryTypeOK
  <2>7. \A i \in DOMAIN wire'[c] :
           \/ \E j \in DOMAIN wire[c] : wire'[c][i] = wire[c][j]
           \/ wire'[c][i] = pubs[p].hash
    <3>1. wire[c] \in Seq(Hashes)
      BY DEF TInv, DeliveryTypeOK
    <3> QED BY <2>6, <3>1
  <2>8. /\ \A d2 \in Connections \ {c} : wire'[d2] = wire[d2]
        /\ UNCHANGED <<mgr, assigned, offered, conn, link, agent, newest, sentTo, member, ran>>
    BY <1>3 DEF SendTo, TInv, DeliveryTypeOK
  <2>9. \A d2 \in Connections : ConnEffect(d2)
    BY <2>1, <2>7, <2>8 DEF ConnEffect
  <2> QED BY <2>5, <2>8, <2>9, NothingChanges DEF Effect
<1>4. ASSUME NEW c \in Connections, SendFails(p, c)
      PROVE  Effect
  BY <1>2, <1>4 DEF SendFails
<1>5. CASE MarkGroupPublishPending(p)
  BY <1>2, <1>5 DEF MarkGroupPublishPending
<1>6. ASSUME NEW g \in Groups, NEW h \in Hashes, StartDeployment(p, g, h)
      PROVE  Effect
  <2>1. PICK d : d = [phase |-> "sending", group |-> g, hash |-> h, targets |-> Targets(g)]
    OBVIOUS
  <2>2. d.hash = h /\ d.group = g /\ d.targets = Targets(g)
    BY <2>1
  <2>3. /\ pubs' = [pubs EXCEPT ![p] = d]
        /\ offered' = [offered EXCEPT ![g] = h]
        /\ newest' = [newest EXCEPT ![g] = h]
        /\ sentTo' = [sentTo EXCEPT ![g] = @ \cup {h}]
        /\ UNCHANGED <<mgr, assigned, uidConn, conn, link, wire, agent, member, ran>>
    BY <1>6, <2>1 DEF StartDeployment, Offering
  <2>4. HistoryTypeOK' /\ HistoryGrows /\ h \in sentTo'[g]
    BY <2>3 DEF HInv, HistoryTypeOK, HistoryGrows, SomeHash
  <2>5. \A x \in Groups : GroupEffect(x)
    BY <2>3, <2>4 DEF GroupEffect, HInv, HistoryTypeOK, TInv, DeliveryTypeOK
  <2>6. \A c \in Targets(g) : mgr[Owner[c]].group = g
    BY DeliveryAssumption DEF Targets, OnlineIsReachable
  <2>7. \A q \in Publishers : DeploymentEffect(q)
    BY <1>0, <2>2, <2>3, <2>4, <2>6 DEF DeploymentEffect
  <2> QED BY <2>3, <2>4, <2>5, <2>7, NothingChanges DEF Effect
<1>7. CASE PublishFails(p) \/ RecordStep(p) \/ \E g \in Groups : UpdateGroup(p, g)
  BY <1>1, <1>7 DEF PublishFails, RecordStep, UpdateGroup
<1> QED BY <1>3, <1>4, <1>5, <1>6, <1>7 DEF PublisherStep

LEMMA MoverHasEffect ==
    ASSUME TInv, HInv, NEW m \in Movers,
           \/ MoverStep(m)
           \/ \E u \in Agents, g \in SomeGroup : AssignReads(m, u, g)
    PROVE  Effect
<1> USE DEF managerVars, handlerVars, historyVars, agentVars
<1>1. CASE AssignWrites(m) \/ \E u \in Agents, g \in SomeGroup : AssignReads(m, u, g)
  BY <1>1, NothingChanges DEF AssignWrites, AssignReads, Effect
<1>2. CASE RegisterInstanceGroup(m)
  <2>1. PICK u, g : u = moves[m].agent /\ g = moves[m].group
    OBVIOUS
  <2>2. u \in Agents /\ g \in SomeGroup
    BY <1>2, <2>1 DEF RegisterInstanceGroup, TInv, DeliveryTypeOK, NoMove, Moves
  <2>3. /\ assigned' = [assigned EXCEPT ![u] = g]
        /\ mgr' = [mgr EXCEPT ![u].group = g]
        /\ JoinHistory(u, g)
        /\ UNCHANGED <<offered, uidConn, conn, link, wire, agent, pubs, newest, sentTo, ran>>
    BY <1>2, <2>1 DEF RegisterInstanceGroup
  <2>4. HistoryTypeOK' /\ HistoryGrows /\ (g # NoGroup => g \in member'[u])
    BY <2>2, <2>3, JoinGrows
  <2>5. /\ assigned'[u] = g /\ mgr'[u].group = g
        /\ mgr'[u].hash = mgr[u].hash /\ mgr'[u].status = mgr[u].status
        /\ \A v \in Agents \ {u} : mgr'[v] = mgr[v] /\ assigned'[v] = assigned[v]
    BY <2>2, <2>3 DEF TInv, DeliveryTypeOK, AgentStates
  <2>6. \A v \in Agents : AgentEffect(v)
    BY <2>3, <2>4, <2>5 DEF AgentEffect
  <2> QED BY <2>3, <2>4, <2>6, NothingChanges DEF Effect
<1> QED BY <1>1, <1>2 DEF MoverStep

LEMMA RestartHasEffect ==
    ASSUME TInv, HInv, Restart
    PROVE  Effect
<1>1. /\ mgr' = [u \in Agents |-> NewState]
      /\ assigned' = [u \in Agents |-> NoGroup]
      /\ offered' = [g \in Groups |-> NoHash]
      /\ link' = [u \in Agents |-> NoConn]
      /\ wire' = [c \in Connections |-> <<>>]
      /\ pubs' = [p \in Publishers |-> NoDeployment]
      /\ newest' = [g \in Groups |-> NoHash]
      /\ UNCHANGED <<agent, sentTo, member, ran>>
  BY DEF Restart
<1>2. HistoryTypeOK' /\ HistoryGrows
  BY <1>1 DEF HInv, HistoryTypeOK, HistoryGrows, SomeHash
<1>3. \A u \in Agents : AgentEffect(u)
  BY <1>1 DEF AgentEffect, NewState
<1>4. \A c \in Connections :
         conn'[c] = conn[c] \/ (conn'[c].snap = NewState /\ conn'[c].offer = NoHash)
  BY DEF Restart, NewGoroutine
<1>5. \A c \in Connections : ConnEffect(c)
  BY <1>1, <1>4 DEF ConnEffect
<1>6. \A g \in Groups : GroupEffect(g)
  BY <1>1 DEF GroupEffect
<1>7. \A p \in Publishers : DeploymentEffect(p)
  BY <1>1 DEF DeploymentEffect
<1> QED BY <1>2, <1>3, <1>5, <1>6, <1>7 DEF Effect

LEMMA StepHasEffect ==
    TInv /\ OnlineIsReachable /\ HInv /\ [DeliveryNext]_deliveryVars => Effect
<1> SUFFICES ASSUME TInv, OnlineIsReachable, HInv, [DeliveryNext]_deliveryVars
             PROVE  Effect
  OBVIOUS
<1>1. CASE UNCHANGED deliveryVars
  BY <1>1, NothingChanges DEF Effect, deliveryVars, managerVars, agentVars, handlerVars, historyVars
<1> QED BY <1>1, AgentHasEffect, ConnectionHasEffect, PublisherHasEffect, MoverHasEffect,
           RestartHasEffect DEF DeliveryNext

LEMMA HInvInit == DeliveryInit => HInv
<1> SUFFICES ASSUME DeliveryInit PROVE HInv
  OBVIOUS
<1>1. \A c \in Connections : conn[c].snap = NewState /\ conn[c].offer = NoHash
  BY DEF DeliveryInit, NewGoroutine
<1>2. \A u \in Agents : AgentIsSound(u)
  BY DEF DeliveryInit, AgentIsSound, GroupIsKnown, OutcomeIsTrue, NewState
<1>3. \A c \in Connections : ConnIsSound(c)
  BY <1>1 DEF DeliveryInit, ConnIsSound, GroupIsKnown, OutcomeIsTrue, NewState
<1>4. HistoryTypeOK
  BY DEF DeliveryInit, HistoryTypeOK, SomeHash
<1> QED BY <1>2, <1>3, <1>4 DEF DeliveryInit, HInv

LEMMA HInvHolds == DeliverySpec => []HInv
<1>1. TInv /\ TInv' /\ OnlineIsReachable /\ HInv /\ [DeliveryNext]_deliveryVars => HInv'
  BY StepHasEffect, EffectKeepsHInv
<1> QED BY <1>1, HInvInit, TypesHold, ReachHolds, PTL DEF DeliverySpec

\* A deployment leaves the offer of its group only to a newer one, to a restart, or to an agent of
\* the group that applied it: NewestStaysOnOffer.
LEMMA EffectKeepsNewest ==
    ASSUME HInv, HInv', Effect, NewestStaysOnOffer
    PROVE  NewestStaysOnOffer'
<1> SUFFICES ASSUME NEW g \in Groups, newest'[g] # NoHash, offered'[g] # newest'[g]
             PROVE  \E u \in Agents : g \in member'[u] /\ newest'[g] \in ran'[u]
  BY DEF NewestStaysOnOffer
<1>1. newest'[g] = newest[g]
  BY DEF Effect, GroupEffect
<1>2. CASE offered[g] = newest[g]
  <2>1. PICK u \in Agents : /\ g \in member'[u]
                            /\ mgr'[u].status = "applied" /\ mgr'[u].hash = newest[g]
    BY <1>1, <1>2 DEF Effect, GroupEffect
  <2> QED BY <1>1, <2>1 DEF HInv, AgentIsSound, OutcomeIsTrue
<1>3. CASE offered[g] # newest[g]
  <2>1. PICK u \in Agents : g \in member[u] /\ newest[g] \in ran[u]
    BY <1>1, <1>3 DEF NewestStaysOnOffer
  <2> QED BY <1>1, <2>1 DEF Effect, HistoryGrows
<1> QED BY <1>2, <1>3

\* The newest deployment of a group stays on offer until a collector that was in the group applied
\* it, whatever messages, closes, moves, other deployments and failed sends do
\* (NewestStaysOnOffer).
THEOREM OffersStay == DeliverySpec => []NewestStaysOnOffer
<1>1. DeliveryInit => NewestStaysOnOffer
  BY DEF DeliveryInit, NewestStaysOnOffer
<1>2. /\ TInv /\ OnlineIsReachable /\ HInv /\ HInv' /\ NewestStaysOnOffer
      /\ [DeliveryNext]_deliveryVars
      => NewestStaysOnOffer'
  BY StepHasEffect, EffectKeepsNewest
<1> QED BY <1>1, <1>2, TypesHold, ReachHolds, HInvHolds, PTL DEF DeliverySpec

-----------------------------------------------------------------------------
(* What the group documents show was deployed and ran.                     *)

Backed(g, h) == h \in sentTo[g] /\ \E u \in Agents : g \in member[u] /\ h \in ran[u]

DocIsBacked(g, d) ==
    /\ d.desired # NoHash => d.desired \in sentTo[g]
    /\ d.applied # NoHash => Backed(g, d.applied)

\* A call may write its document later, so it is judged like a stored one.
CallIsBacked(q) ==
    /\ DocIsBacked(q.group, q.doc)
    /\ q.kind = "publish" => q.hash \in sentTo[q.group]
    /\ q.kind = "status" /\ q.status = "applied" => Backed(q.group, q.hash)

BInv ==
    /\ \A g \in Groups : DocIsBacked(g, groups[g])
    /\ \A c \in Callers : calls[c] # NoOperation => CallIsBacked(calls[c])

LEMMA BackingStays ==
    ASSUME HistoryGrows, NEW g \in Groups
    PROVE  /\ \A h : Backed(g, h) => Backed(g, h)'
           /\ \A d : DocIsBacked(g, d) => DocIsBacked(g, d)'
BY DEF HistoryGrows, Backed, DocIsBacked

LEMMA CallBackingStays ==
    ASSUME HistoryGrows, NEW q, q.group \in Groups, CallIsBacked(q)
    PROVE  CallIsBacked(q)'
BY BackingStays DEF CallIsBacked, HistoryGrows

LEMMA UntouchedStaysBacked ==
    ASSUME RecordTypeOK, BInv, HistoryGrows, groups' = groups,
           \A c \in Callers : calls'[c] \in {NoOperation, calls[c]}
    PROVE  BInv'
<1>1. \A g \in Groups : DocIsBacked(g, groups[g])'
  BY BackingStays DEF BInv
<1>2. \A c \in Callers : calls'[c] # NoOperation => CallIsBacked(calls[c])'
  <2> SUFFICES ASSUME NEW c \in Callers, calls'[c] # NoOperation PROVE CallIsBacked(calls[c])'
    OBVIOUS
  <2>1. calls'[c] = calls[c] /\ calls[c] \in Operations /\ CallIsBacked(calls[c])
    BY DEF RecordTypeOK, BInv
  <2>2. PICK q : q = calls[c] /\ q.group \in Groups
    BY <2>1 DEF Operations
  <2>3. CallIsBacked(q)'
    BY <2>1, <2>2, CallBackingStays
  <2> QED BY <2>1, <2>2, <2>3 DEF CallIsBacked
<1> QED BY <1>1, <1>2 DEF BInv

\* A call moves on, and possibly replaces the document of its group.
LEMMA CallKeepsBacking ==
    ASSUME RecordTypeOK, BInv, HistoryGrows, NEW c \in Callers, NEW q,
           calls' = [calls EXCEPT ![c] = q],
           q # NoOperation => CallIsBacked(q)',
           \/ groups' = groups
           \/ /\ calls[c] # NoOperation
              /\ \E d : /\ groups' = [groups EXCEPT ![calls[c].group] = d]
                        /\ DocIsBacked(calls[c].group, d)
    PROVE  BInv'
<1>1. \A g \in Groups : DocIsBacked(g, groups[g])'
  <2>1. CASE groups' = groups
    BY <2>1, BackingStays DEF BInv
  <2>2. ASSUME NEW d, groups' = [groups EXCEPT ![calls[c].group] = d],
               DocIsBacked(calls[c].group, d)
        PROVE  \A g \in Groups : DocIsBacked(g, groups[g])'
    <3> SUFFICES ASSUME NEW g \in Groups PROVE DocIsBacked(g, groups[g])'
      OBVIOUS
    <3>1. PICK e : e = groups'[g] /\ DocIsBacked(g, e)
      BY <2>2 DEF RecordTypeOK, BInv
    <3>2. DocIsBacked(g, e)'
      BY <3>1, BackingStays
    <3> QED BY <3>1, <3>2 DEF DocIsBacked
  <2> QED BY <2>1, <2>2
<1>2. \A d \in Callers : calls'[d] # NoOperation => CallIsBacked(calls[d])'
  <2> SUFFICES ASSUME NEW d \in Callers, calls'[d] # NoOperation PROVE CallIsBacked(calls[d])'
    OBVIOUS
  <2>1. CASE d = c
    <3>1. calls'[d] = q
      BY <2>1 DEF RecordTypeOK
    <3> QED BY <3>1 DEF CallIsBacked
  <2>2. CASE d # c
    <3>1. calls'[d] = calls[d] /\ calls[d] \in Operations /\ CallIsBacked(calls[d])
      BY <2>2 DEF RecordTypeOK, BInv
    <3>2. PICK e : e = calls[d] /\ e.group \in Groups
      BY <3>1 DEF Operations
    <3>3. CallIsBacked(e)'
      BY <3>1, <3>2, CallBackingStays
    <3> QED BY <3>1, <3>2, <3>3 DEF CallIsBacked
  <2> QED BY <2>1, <2>2
<1> QED BY <1>1, <1>2 DEF BInv

LEMMA NewCallKeepsBacking ==
    ASSUME RecordTypeOK, BInv, HistoryGrows, NEW c \in Callers, NEW g \in Groups,
           NEW h \in Hashes \cup {NoHash}, NEW kind, NEW status,
           calls' = [calls EXCEPT ![c] = Operation(kind, g, h, status)], groups' = groups,
           kind = "publish" => h \in sentTo[g],
           kind = "status" /\ status = "applied" => Backed(g, h)
    PROVE  BInv'
<1>1. PICK q : q = Operation(kind, g, h, status)
  OBVIOUS
<1>2. DocIsBacked(g, groups[g])
  BY DEF BInv
<1>3. CallIsBacked(q)'
  <2>1. DocIsBacked(g, groups[g])'
    BY <1>2, BackingStays
  <2> QED BY <1>1, <2>1, BackingStays DEF Operation, CallIsBacked, DocIsBacked, HistoryGrows
<1> QED BY <1>1, <1>3, CallKeepsBacking

LEMMA RecordStepKeepsBacking ==
    ASSUME RecordTypeOK, BInv, HistoryGrows, NEW c \in Callers,
           RecordStep(c) \/ Drop(c)
    PROVE  BInv'
<1>1. PICK q : q = calls[c]
  OBVIOUS
<1>2. q # NoOperation => q \in Operations /\ CallIsBacked(q)
  BY <1>1 DEF RecordTypeOK, BInv
<1>3. CASE Drop(c) \/ CreateConfigVersion(c) \/ StampVersion(c)
  <2>1. calls' = [calls EXCEPT ![c] = NoOperation] /\ groups' = groups
    BY <1>3 DEF Drop, CreateConfigVersion, StampVersion
  <2> QED BY <2>1, CallKeepsBacking
<1>4. CASE EditWrites(c)
  <2>1. q # NoOperation
    BY <1>1, <1>4 DEF EditWrites, NoOperation
  <2>2. /\ calls' = [calls EXCEPT ![c] = NoOperation]
        /\ groups' = [groups EXCEPT ![calls[c].group] = q.doc]
    BY <1>1, <1>4 DEF EditWrites, Replace
  <2>3. DocIsBacked(calls[c].group, q.doc)
    BY <1>1, <1>2, <2>1 DEF CallIsBacked
  <2> QED BY <1>1, <2>1, <2>2, <2>3, CallKeepsBacking
<1>5. ASSUME NEW d, NEW phase \in {"insert", "stamp"}, q # NoOperation,
             groups' = [groups EXCEPT ![calls[c].group] = d],
             calls' = [calls EXCEPT ![c].phase = phase, ![c].doc = d],
             DocIsBacked(q.group, d)
      PROVE  BInv'
  <2>1. PICK e : e = [q EXCEPT !.phase = phase, !.doc = d]
    OBVIOUS
  <2>2. /\ e.group \in Groups
        /\ e.doc = d /\ e.group = q.group /\ e.kind = q.kind /\ e.hash = q.hash
        /\ e.status = q.status
    BY <1>2, <1>5, <2>1 DEF Operations
  <2>3. CallIsBacked(e)'
    <3>1. CallIsBacked(e)
      BY <1>2, <1>5, <2>2 DEF CallIsBacked
    <3> QED BY <2>2, <3>1, CallBackingStays
  <2>4. calls' = [calls EXCEPT ![c] = e]
    BY <1>1, <1>5, <2>1 DEF RecordTypeOK
  <2> QED BY <1>1, <1>5, <2>3, <2>4, CallKeepsBacking
<1>6. CASE PublishWrites(c)
  <2>1. q # NoOperation /\ q.kind = "publish"
    BY <1>1, <1>6 DEF PublishWrites, NoOperation
  <2>2. PICK d : d = AsPublished(q)
    OBVIOUS
  <2>3. q.doc \in GroupDocs
    BY <1>2, <2>1 DEF Operations
  <2>4. /\ d.desired = q.hash /\ d.applied = q.doc.applied
    BY <2>2, <2>3 DEF AsPublished, GroupDocs
  <2>5. DocIsBacked(q.group, d)
    BY <1>2, <2>1, <2>4 DEF CallIsBacked, DocIsBacked
  <2> QED BY <1>1, <1>5, <1>6, <2>1, <2>2, <2>4, <2>5 DEF PublishWrites, Replace
<1>7. CASE StatusWrites(c)
  <2>1. q # NoOperation /\ q.kind = "status"
    BY <1>1, <1>7 DEF StatusWrites, NoOperation
  <2>2. PICK d : d = AsReported(q)
    OBVIOUS
  <2>3. q.doc \in GroupDocs
    BY <1>2, <2>1 DEF Operations
  <2>4. /\ d.desired = q.doc.desired
        /\ d.applied = IF q.status = "applied" THEN q.hash ELSE q.doc.applied
    BY <2>2, <2>3 DEF AsReported, GroupDocs, Statuses
  <2>5. DocIsBacked(q.group, d)
    BY <1>2, <2>1, <2>4 DEF CallIsBacked, DocIsBacked
  <2> QED BY <1>1, <1>5, <1>7, <2>1, <2>2, <2>4, <2>5 DEF StatusWrites, Replace
<1> QED BY <1>3, <1>4, <1>6, <1>7 DEF RecordStep

LEMMA ConnectionKeepsBacking ==
    ASSUME TInv, HInv, HistoryGrows, RecordTypeOK, BInv, NEW c \in Connections,
           ConnectionStep(c) \/ SinkFails(c)
    PROVE  BInv'
<1>1. c \in Callers /\ Owner[c] \in Agents
  BY DeliveryAssumption
<1>2. CASE UNCHANGED recordVars
  BY <1>2, UntouchedStaysBacked DEF recordVars
<1>3. CASE \E described, reported \in BOOLEAN : HandleMessage(c, described, reported)
  BY <1>2, <1>3 DEF HandleMessage
<1>4. CASE MarkConnectionClosed(c) \/ UpsertInstance(c) \/ Respond(c)
  BY <1>2, <1>4 DEF MarkConnectionClosed, UpsertInstance, Respond
<1>5. CASE MarkGroupConfigStatus(c)
  <2>1. PICK g, h, status :
           g = conn[c].snap.group /\ h = conn[c].snap.hash /\ status = conn[c].snap.status
    OBVIOUS
  <2>2. g \in Groups /\ h \in Hashes /\ h # NoHash
    BY <1>5, <2>1, HashAssumption
       DEF MarkGroupConfigStatus, TInv, DeliveryTypeOK, StatusesAreKnown, Goroutines, AgentStates,
           SomeGroup, SomeHash
  <2>3. StatusReads(c, g, h, status)
    BY <1>5, <2>1 DEF MarkGroupConfigStatus
  <2>4. CASE IsForDesired(g, h)
    <3>1. h \in sentTo[g]
      BY <2>2, <2>4 DEF IsForDesired, BInv, DocIsBacked
    <3>2. status = "applied" => Backed(g, h)
      <4>1. g \in member[Owner[c]] /\ (status = "applied" => h \in ran[Owner[c]])
        BY <2>1, <2>2, DeliveryAssumption DEF HInv, ConnIsSound, GroupIsKnown, OutcomeIsTrue
      <4> QED BY <1>1, <3>1, <4>1 DEF Backed
    <3>3. calls' = [calls EXCEPT ![c] = Operation("status", g, h, status)] /\ groups' = groups
      BY <2>3, <2>4 DEF StatusReads
    <3> DEFINE kind == "status"
    <3>4. /\ h \in Hashes \cup {NoHash}
          /\ kind = "publish" => h \in sentTo[g]
          /\ kind = "status" /\ status = "applied" => Backed(g, h)
      BY <2>2, <3>1, <3>2
    <3> HIDE DEF kind
    <3>5. calls' = [calls EXCEPT ![c] = Operation(kind, g, h, status)] /\ groups' = groups
      BY <3>3 DEF kind
    <3> QED BY <1>1, <2>2, <3>4, <3>5, NewCallKeepsBacking
  <2>5. CASE ~IsForDesired(g, h)
    BY <2>3, <2>5, UntouchedStaysBacked DEF StatusReads
  <2> QED BY <2>4, <2>5
<1>6. CASE RecordStep(c)
  BY <1>1, <1>6, RecordStepKeepsBacking
<1>7. CASE SinkFails(c)
  BY <1>1, <1>2, <1>7, RecordStepKeepsBacking DEF SinkFails
<1> QED BY <1>3, <1>4, <1>5, <1>6, <1>7 DEF ConnectionStep

LEMMA PublisherKeepsBacking ==
    ASSUME TInv, HInv, HistoryGrows, RecordTypeOK, BInv, NEW p \in Publishers,
           \/ PublisherStep(p) \/ PublishFails(p)
           \/ \E g \in Groups, h \in Hashes : StartDeployment(p, g, h)
           \/ \E g \in Groups : UpdateGroup(p, g)
    PROVE  BInv'
<1>1. p \in Callers
  BY DeliveryAssumption
<1>2. CASE UNCHANGED recordVars
  BY <1>2, UntouchedStaysBacked DEF recordVars
<1>3. CASE \E c \in Connections : SendTo(p, c) \/ SendFails(p, c)
  BY <1>2, <1>3 DEF SendTo, SendFails
<1>4. CASE MarkGroupPublishPending(p)
  <2>1. PICK g, h : g = pubs[p].group /\ h = pubs[p].hash
    OBVIOUS
  <2>2. g \in Groups /\ h \in Hashes
    BY <1>4, <2>1 DEF MarkGroupPublishPending, TInv, DeliveryTypeOK, Deployments
  <2>3. h \in sentTo[g]
    BY <1>4, <2>1 DEF MarkGroupPublishPending, HInv, DeploymentIsSound
  <2>4. calls' = [calls EXCEPT ![p] = Operation("publish", g, h, "pending")] /\ groups' = groups
    BY <1>4, <2>1 DEF MarkGroupPublishPending, PublishReads
  <2> QED BY <1>1, <2>2, <2>3, <2>4, NewCallKeepsBacking
<1>5. CASE RecordStep(p) \/ PublishFails(p)
  BY <1>1, <1>5, RecordStepKeepsBacking DEF PublishFails
<1>6. CASE \E g \in Groups, h \in Hashes : StartDeployment(p, g, h)
  BY <1>2, <1>6 DEF StartDeployment
<1>7. ASSUME NEW g \in Groups, UpdateGroup(p, g)
      PROVE  BInv'
  <2>1. calls' = [calls EXCEPT ![p] = Operation("edit", g, NoHash, "pending")] /\ groups' = groups
    BY <1>7 DEF UpdateGroup, EditReads
  <2>2. "edit" # "publish" /\ "edit" # "status"
    OBVIOUS
  <2> QED BY <1>1, <2>1, <2>2, NewCallKeepsBacking
<1> QED BY <1>3, <1>4, <1>5, <1>6, <1>7 DEF PublisherStep

LEMMA BInvNext ==
    TInv /\ HInv /\ Effect /\ RecordTypeOK /\ BInv /\ [DeliveryNext]_deliveryVars => BInv'
<1> SUFFICES ASSUME TInv, HInv, Effect, RecordTypeOK, BInv, [DeliveryNext]_deliveryVars
             PROVE  BInv'
  OBVIOUS
<1>0. HistoryGrows
  BY DEF Effect
<1>1. CASE UNCHANGED recordVars
  BY <1>0, <1>1, UntouchedStaysBacked DEF recordVars
<1>2. CASE UNCHANGED deliveryVars
  BY <1>1, <1>2 DEF deliveryVars
<1>3. CASE AgentStep
  BY <1>1, <1>3 DEF AgentStep, Connect, Disconnect, Receive, Finish
<1>4. CASE \E m \in Movers : \/ MoverStep(m)
                             \/ \E u \in Agents, g \in SomeGroup : AssignReads(m, u, g)
  BY <1>1, <1>4 DEF MoverStep, AssignWrites, RegisterInstanceGroup, AssignReads
<1>5. CASE Restart
  <2>1. groups' = groups /\ \A c \in Callers : calls'[c] = NoOperation
    BY <1>5 DEF Restart, DropAll
  <2> QED BY <1>0, <2>1, UntouchedStaysBacked
<1> QED BY <1>0, <1>2, <1>3, <1>4, <1>5, ConnectionKeepsBacking, PublisherKeepsBacking
        DEF DeliveryNext

LEMMA BInvHolds == DeliverySpec => []BInv
<1>1. DeliveryInit => BInv
  BY DEF DeliveryInit, RecordInit, BInv, DocIsBacked, NewGroup
<1>2. /\ TInv /\ OnlineIsReachable /\ HInv /\ RecordTypeOK /\ BInv /\ [DeliveryNext]_deliveryVars
      => BInv'
  BY StepHasEffect, BInvNext
<1>3. DeliverySpec => []RecordTypeOK
  BY DeliveryRunsRecordOperations, RecordTypeCorrect, PTL
<1> QED BY <1>1, <1>2, <1>3, TypesHold, ReachHolds, HInvHolds, PTL DEF DeliverySpec

\* Whoever is taken for online can be sent to; a collector only gets configurations that were
\* deployed to a group it was in; and a group shows a configuration as applied only when some
\* collector that was in the group ran it (DeliveryIsSound).
THEOREM DeliveryIsRight == DeliverySpec => []DeliveryIsSound
<1>1. TInv /\ OnlineIsReachable /\ HInv /\ BInv => DeliveryIsSound
  <2> SUFFICES ASSUME TInv, OnlineIsReachable, HInv, BInv PROVE DeliveryIsSound
    OBVIOUS
  <2>1. OffersFollowMembership
    BY DEF HInv, AgentIsSound, Entitled, OffersFollowMembership
  <2>2. AppliedRanSomewhere
    BY DEF BInv, DocIsBacked, Backed, AppliedRanSomewhere
  <2> QED BY <2>1, <2>2 DEF TInv, DeliveryIsSound
<1> QED BY <1>1, TypesHold, ReachHolds, HInvHolds, BInvHolds, PTL
=============================================================================
