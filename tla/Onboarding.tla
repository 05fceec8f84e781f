------------------------------ MODULE Onboarding ------------------------------
(***************************************************************************)
(* Onboarding of a service (internal/onboarding/service.go): saving binds it   *)
(* to a collector group and an ingestion identity, checking evaluates what was *)
(* saved and writes the document back with the result.  One service, whose     *)
(* identity and onboarding MongoDB writes by service, _id included: a stored    *)
(* _id never changes.  Malformed requests change nothing; generated texts are  *)
(* left out, and the log signal, which no check has passed so far.             *)
(***************************************************************************)
EXTENDS Naturals

CONSTANTS
    OnboardCallers,
    OnboardGroups,
    Nothing

\* IDs are never empty.
ASSUME OnboardAssumption == Nothing \notin OnboardCallers \cup OnboardGroups

VARIABLES
    groupState,      \* of a collector group: inactive, active, online (an instance is)
    identity,        \* the ID of the stored identity
    onboarding,      \* [id, group, identity, status, last, evaluated, details]: last is
                     \* LastCheckStatus; evaluated and details are history, the groups whose
                     \* check the result and LastCheckDetails, LastCheckAt are of
    onbCalls

onboardVars == <<groupState, identity, onboarding, onbCalls>>

GroupStates == {"inactive", "active", "online"}
IdleOnboard == [phase |-> "idle"]

OnboardingInit ==
    /\ groupState \in [OnboardGroups -> GroupStates]
    /\ identity = Nothing
    /\ onboarding = Nothing
    /\ onbCalls = [c \in OnboardCallers |-> IdleOnboard]

OnboardMoves(c, call) == onbCalls' = [onbCalls EXCEPT ![c] = call]

GroupChanges(g, to) ==
    /\ groupState[g] # to
    /\ groupState' = [groupState EXCEPT ![g] = to]
    /\ UNCHANGED <<identity, onboarding, onbCalls>>

\* A new identity gets an ID of the caller's; the group must be in use.
UpsertReadsIdentity(c, g) ==
    /\ onbCalls[c].phase = "idle"
    /\ groupState[g] # "inactive"
    /\ OnboardMoves(c, [phase |-> "save identity", group |-> g,
                        identity |-> IF identity = Nothing THEN c ELSE identity])
    /\ UNCHANGED <<groupState, identity, onboarding>>

\* An update may not change the _id of a document that is there.
Refused(stored, id) == stored # Nothing /\ stored # id

UpsertIdentity(c) ==
    LET call == onbCalls[c]
    IN  /\ call.phase = "save identity"
        /\ IF Refused(identity, call.identity)
           THEN OnboardMoves(c, IdleOnboard) /\ UNCHANGED identity
           ELSE identity' = call.identity /\ OnboardMoves(c, [call EXCEPT !.phase = "find"])
        /\ UNCHANGED <<groupState, onboarding>>

\* The saved binding waits for a check.  What the last check found, item by item, and when,
\* stays with a document that is bound anew.
Bound(call, old, c) ==
    [id        |-> IF old = Nothing THEN c ELSE old.id,
     group     |-> call.group,
     identity  |-> call.identity,
     status    |-> "pending_verification",
     last      |-> "pending",
     evaluated |-> Nothing,
     details   |-> IF old = Nothing THEN Nothing ELSE old.details]

UpsertReads(c) ==
    /\ onbCalls[c].phase = "find"
    /\ OnboardMoves(c, [phase |-> "save", doc |-> Bound(onbCalls[c], onboarding, c)])
    /\ UNCHANGED <<groupState, identity, onboarding>>

CheckReads(c) ==
    /\ onbCalls[c].phase = "idle"
    /\ onboarding # Nothing
    /\ OnboardMoves(c, [phase |-> "evaluate", doc |-> onboarding, bound |-> identity # Nothing])
    /\ UNCHANGED <<groupState, identity, onboarding>>

\* The blocking items of the checklist.
ChecksPass(call) == call.bound /\ groupState[call.doc.group] = "online"

Result(call) == IF ChecksPass(call) THEN "pending_verification" ELSE "failed"

EvaluateChecklist(c) ==
    LET call == onbCalls[c]
    IN  /\ call.phase = "evaluate"
        /\ OnboardMoves(c, [phase |-> "write", doc |->
               [call.doc EXCEPT !.status = Result(call), !.last = Result(call),
                                !.evaluated = call.doc.group, !.details = call.doc.group]])
        /\ UNCHANGED <<groupState, identity, onboarding>>

\* Saving and checking write the whole document they read and changed.
DocumentWritten(c) ==
    LET doc == onbCalls[c].doc
    IN  /\ onboarding' = IF onboarding # Nothing /\ Refused(onboarding.id, doc.id)
                         THEN onboarding ELSE doc
        /\ OnboardMoves(c, IdleOnboard)
        /\ UNCHANGED <<groupState, identity>>

UpsertWrites(c) == onbCalls[c].phase = "save" /\ DocumentWritten(c)

\* MUTANT: only the result is written, onto the document as it is now.
WritesResult(c) ==
    LET doc == onbCalls[c].doc
    IN  /\ onbCalls[c].phase = "write"
        /\ onboarding' = [onboarding EXCEPT !.status = doc.status, !.last = doc.last,
                                            !.evaluated = doc.evaluated, !.details = doc.details]
        /\ OnboardMoves(c, IdleOnboard)
        /\ UNCHANGED <<groupState, identity>>

CheckWrites(c) == onbCalls[c].phase = "write" /\ DocumentWritten(c)

\* A call of the database fails, or the process stops.
OnboardFails(c) ==
    /\ onbCalls[c].phase # "idle"
    /\ OnboardMoves(c, IdleOnboard)
    /\ UNCHANGED <<groupState, identity, onboarding>>

OnboardingNext ==
    \/ \E g \in OnboardGroups, to \in GroupStates : GroupChanges(g, to)
    \/ \E c \in OnboardCallers :
           \/ \E g \in OnboardGroups : UpsertReadsIdentity(c, g)
           \/ UpsertIdentity(c) \/ UpsertReads(c) \/ UpsertWrites(c)
           \/ CheckReads(c) \/ EvaluateChecklist(c) \/ CheckWrites(c)
           \/ OnboardFails(c)

OnboardingSpec == OnboardingInit /\ [][OnboardingNext]_onboardVars

-------------------------------------------------------------------------------
\* A saved service shows the result of a check only of the group it is bound to, item by
\* item too, shows none while it waits for a check of a new binding, and names the identity
\* that is stored: although a check that overlaps with a save may bring the old group back,
\* and two first saves each make documents of their own.  Until that next check the items
\* and the time of an earlier one, of another group perhaps, are still in the document.
ResultBelongsToGroup ==
    onboarding # Nothing =>
        /\ IF onboarding.last = "pending"
           THEN onboarding.evaluated = Nothing /\ onboarding.status = "pending_verification"
           ELSE /\ onboarding.status = onboarding.last
                /\ onboarding.evaluated = onboarding.group
                /\ onboarding.details = onboarding.group
        /\ onboarding.identity = identity
===============================================================================
