---------------------------- MODULE GroupRecord ----------------------------
(***************************************************************************)
(* The publication state of a Collector Group: the group document and the  *)
(* config version records that collectormanagement.Service keeps.          *)
(*                                                                         *)
(* Every operation reads the whole group document, changes a few fields    *)
(* and replaces the document without any condition, so a call that read    *)
(* early can overwrite what another call wrote since.  The read, the       *)
(* replacement and the write to the version records are separate steps of  *)
(* a call, and the calls of HTTP handlers and OpAMP connections interleave *)
(* freely.                                                                 *)
(***************************************************************************)
EXTENDS Naturals, Sequences, FiniteSets

CONSTANTS
    Groups,         \* Collector Group IDs
    Hashes,         \* hashes of rendered configurations
    NoHash,         \* "": nothing published, applied or reported yet
    Callers,        \* goroutines that may run an operation
    MaxVersions,    \* bound: publications marked on the group documents
    MaxReports      \* bound: distinct reports in all

ASSUME HashAssumption == NoHash \notin Hashes
ASSUME RecordBounds == MaxVersions \in Nat /\ MaxReports \in Nat

VARIABLES
    groups,         \* groups[g]: publication fields of the group document
    versions,       \* config version records, in insertion order
    calls,          \* calls[c]: the operation caller c has in flight
    reports,        \* history: statuses MarkGroupConfigStatus was called with
    lost            \* history: groups that had a write overwritten unread

recordVars == <<groups, versions, calls, reports, lost>>

Statuses == {"applying", "applied", "failed"}

GroupDocs == [version : Nat, desired : Hashes \cup {NoHash},
              publish : {"none", "pending"} \cup Statuses,
              applied : Hashes \cup {NoHash}]

NewGroup == [version |-> 0, desired |-> NoHash, publish |-> "none", applied |-> NoHash]

VersionRecords == [group : Groups, number : Nat, hash : Hashes,
                   status : {"pending"} \cup Statuses]

NoOperation == [phase |-> "none"]

\* phase "write": the document is read and checked, its replacement is next;
\* phase "insert" or "stamp": the version records are next.
Operations == [phase : {"write", "insert", "stamp"}, kind : {"publish", "status", "edit"},
               group : Groups, hash : Hashes \cup {NoHash},
               status : {"pending"} \cup Statuses, doc : GroupDocs]

Operation(kind, g, h, status) ==
    [phase |-> "write", kind |-> kind, group |-> g, hash |-> h, status |-> status,
     doc |-> groups[g]]

RecordInit ==
    /\ groups = [g \in Groups |-> NewGroup]
    /\ versions = <<>>
    /\ calls = [c \in Callers |-> NoOperation]
    /\ reports = {}
    /\ lost = {}

\* ReplaceOne by ID: what the document holds by now does not matter.
Replace(q, new) ==
    /\ groups' = [groups EXCEPT ![q.group] = new]
    /\ lost' = IF groups[q.group] = q.doc THEN lost ELSE lost \cup {q.group}

-----------------------------------------------------------------------------
(* MarkGroupPublishPending, then CreateConfigVersion with the version the  *)
(* returned document has.                                                  *)

PublishReads(c, g, h) ==
    /\ calls[c] = NoOperation
    /\ calls' = [calls EXCEPT ![c] = Operation("publish", g, h, "pending")]
    /\ UNCHANGED <<groups, versions, reports, lost>>

\* MUTANT: the status of the previous publication stays.
PublishedKeepsStatus(q) ==
    [q.doc EXCEPT !.version = q.doc.version + 1, !.desired = q.hash]

\* MUTANT: the version is not counted up.
PublishedSameVersion(q) == [q.doc EXCEPT !.desired = q.hash, !.publish = "pending"]

AsPublished(q) ==
    [q.doc EXCEPT !.version = q.doc.version + 1, !.desired = q.hash, !.publish = "pending"]

PublishWrites(c) ==
    /\ calls[c].phase = "write"
    /\ calls[c].kind = "publish"
    /\ calls[c].doc.version < MaxVersions
    /\ Replace(calls[c], AsPublished(calls[c]))
    /\ calls' = [calls EXCEPT ![c].phase = "insert", ![c].doc = AsPublished(calls[c])]
    /\ UNCHANGED <<versions, reports>>

CreateConfigVersion(c) ==
    /\ calls[c].phase = "insert"
    /\ Len(versions) < MaxVersions
    /\ versions' = Append(versions,
                     [group |-> calls[c].group, number |-> calls[c].doc.version,
                      hash |-> calls[c].hash, status |-> "pending"])
    /\ calls' = [calls EXCEPT ![c] = NoOperation]
    /\ UNCHANGED <<groups, reports, lost>>

-----------------------------------------------------------------------------
(* MarkGroupConfigStatus.                                                  *)

\* A report of another hash than the desired one is dropped.
IsForDesired(g, h) == h = groups[g].desired

StatusReads(c, g, h, status) ==
    /\ calls[c] = NoOperation
    /\ <<g, h, status>> \in reports \/ Cardinality(reports) < MaxReports
    /\ reports' = reports \cup {<<g, h, status>>}
    /\ calls' = IF IsForDesired(g, h)
                THEN [calls EXCEPT ![c] = Operation("status", g, h, status)]
                ELSE calls
    /\ UNCHANGED <<groups, versions, lost>>

\* MUTANT: the hash counts as applied whatever the status.
ReportedTooEarly(q) == [q.doc EXCEPT !.publish = q.status, !.applied = q.hash]

AsReported(q) ==
    [q.doc EXCEPT !.publish = q.status,
                  !.applied = IF q.status = "applied" THEN q.hash ELSE @]

StatusWrites(c) ==
    /\ calls[c].phase = "write"
    /\ calls[c].kind = "status"
    /\ Replace(calls[c], AsReported(calls[c]))
    /\ calls' = [calls EXCEPT ![c].phase = "stamp", ![c].doc = AsReported(calls[c])]
    /\ UNCHANGED <<versions, reports>>

\* UpdateOne on (group, hash): one matching record, whichever comes first.
Matching(q) ==
    { i \in DOMAIN versions : versions[i].group = q.group /\ versions[i].hash = q.hash }

StampVersion(c) ==
    /\ calls[c].phase = "stamp"
    /\ \/ \E i \in Matching(calls[c]) :
              versions' = [versions EXCEPT ![i].status = calls[c].status]
       \/ Matching(calls[c]) = {} /\ versions' = versions
    /\ calls' = [calls EXCEPT ![c] = NoOperation]
    /\ UNCHANGED <<groups, reports, lost>>

-----------------------------------------------------------------------------
(* UpdateGroup, ActivateGroup and DeleteGroup: the publication fields are  *)
(* written back as they were read.                                         *)

EditReads(c, g) ==
    /\ calls[c] = NoOperation
    /\ calls' = [calls EXCEPT ![c] = Operation("edit", g, NoHash, "pending")]
    /\ UNCHANGED <<groups, versions, reports, lost>>

EditWrites(c) ==
    /\ calls[c].phase = "write"
    /\ calls[c].kind = "edit"
    /\ Replace(calls[c], calls[c].doc)
    /\ calls' = [calls EXCEPT ![c] = NoOperation]
    /\ UNCHANGED <<versions, reports>>

\* The database fails, or the server stops.
Drop(c) ==
    /\ calls[c] # NoOperation
    /\ calls' = [calls EXCEPT ![c] = NoOperation]
    /\ UNCHANGED <<groups, versions, reports, lost>>

\* The server stops: every call in flight is gone at once.
DropAll ==
    /\ calls' = [c \in Callers |-> NoOperation]
    /\ UNCHANGED <<groups, versions, reports, lost>>

CallStep(c) ==
    \/ \E g \in Groups, h \in Hashes : PublishReads(c, g, h)
    \/ PublishWrites(c)
    \/ CreateConfigVersion(c)
    \/ \E g \in Groups, h \in Hashes, status \in Statuses : StatusReads(c, g, h, status)
    \/ StatusWrites(c)
    \/ StampVersion(c)
    \/ \E g \in Groups : EditReads(c, g)
    \/ EditWrites(c)
    \/ Drop(c)

RecordNext == DropAll \/ \E c \in Callers : CallStep(c)

RecordSpec == RecordInit /\ [][RecordNext]_recordVars

-----------------------------------------------------------------------------
(* Properties.                                                             *)

\* Documents, records and calls are well formed.
RecordTypeOK ==
    /\ groups \in [Groups -> GroupDocs]
    /\ versions \in Seq(VersionRecords)
    /\ calls \in [Callers -> {NoOperation} \cup Operations]
    /\ reports \subseteq Groups \X Hashes \X Statuses
    /\ lost \subseteq Groups

\* A document speaks about one publication: it shows a status only of the
\* hash it desires, and that status was reported for that hash.
ConsistentDoc(g, d) ==
    /\ d.publish = "none" <=> d.desired = NoHash
    /\ d.publish = "applied" => d.applied = d.desired
    /\ d.publish \in Statuses => <<g, d.desired, d.publish>> \in reports
    /\ d.applied # NoHash => <<g, d.applied, "applied">> \in reports

\* Calls that overwrite each other never mix the publications: whatever the
\* interleaving, a group shows a status some collector reported for exactly
\* the configuration the group shows as desired, and a version record shows
\* one that was reported for its hash.
StatusWasReported ==
    /\ \A g \in Groups : ConsistentDoc(g, groups[g])
    /\ \A i \in DOMAIN versions :
          versions[i].status # "pending" =>
              <<versions[i].group, versions[i].hash, versions[i].status>> \in reports

\* As long as no write was overwritten unread, version numbers are unique, the
\* group counts every publication, and the newest version record is the one of
\* the desired hash, even when calls insert their records in another order.
VersionsFollowGroup ==
    \A i \in DOMAIN versions :
        versions[i].group \notin lost =>
            /\ versions[i].number \in 1 .. groups[versions[i].group].version
            /\ versions[i].number = groups[versions[i].group].version =>
                  versions[i].hash = groups[versions[i].group].desired
            /\ \A j \in DOMAIN versions :
                  versions[j].group = versions[i].group
                  /\ versions[j].number = versions[i].number => i = j

\* What a group and its versions say of a publication was reported for that publication, and
\* the versions are numbered as the group counts them.
RecordIsSound == StatusWasReported /\ VersionsFollowGroup
=============================================================================
