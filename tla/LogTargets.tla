------------------------------ MODULE LogTargets ------------------------------
(***************************************************************************)
(* Where the logs of a service are found in a VictoriaLogs that NovaAPM does   *)
(* not write: the targets of one service in logs.Service.  A target names a     *)
(* place (an endpoint and a filter) and may override the tenant the service      *)
(* queries, for which a permission of its own is needed.  Every operation reads    *)
(* documents, decides, and writes one whole document; nothing is locked.             *)
(***************************************************************************)
EXTENDS Naturals, Sequences, FiniteSets

CONSTANTS
    TargetCallers,
    TenantAdmins,      \* those of them who may override the tenant
    Places,            \* an endpoint and a filter
    Tenants,
    NoTenant,          \* the tenant is the service's
    MaxTargets         \* bound

ASSUME TargetsAssumption ==
    /\ TenantAdmins \subseteq TargetCallers
    /\ NoTenant \notin Tenants
    /\ MaxTargets \in Nat

VARIABLES
    targets,           \* the documents; IDs are positions.  With "ready" (LastProbeStatus) goes
                       \* the configuration that was probed, and with the tenant whether
                       \* somebody with the permission chose it: both history
    targetCalls,
    collided           \* history: places may be taken twice

targetVars == <<targets, targetCalls, collided>>

NoTargetCall == [phase |-> "ended"]

TargetsInit ==
    /\ targets = <<>>
    /\ targetCalls = [c \in TargetCallers |-> NoTargetCall]
    /\ collided = FALSE

-------------------------------------------------------------------------------
TargetBegins(c) == targetCalls[c].phase = "ended"

TargetStep(c, call) ==
    /\ targetCalls' = [targetCalls EXCEPT ![c] = call]
    /\ UNCHANGED <<targets, collided>>

\* A write, while others may have looked for what it changes.
TargetsWritten(c, documents) ==
    /\ targets' = documents
    /\ targetCalls' = [targetCalls EXCEPT ![c] = NoTargetCall]
    /\ collided' = \/ collided
                   \/ \E d \in TargetCallers \ {c} :
                          targetCalls[d].phase \in {"insert", "replace", "verify"}
                   \/ /\ targetCalls[c].phase = "verify"
                      /\ targetCalls[c].target.status = "disabled"

Configuration(target) == <<target.place, target.tenant>>

\* A disabled target takes no place.
ensureUniqueExternalTarget(id, place) ==
    \A i \in (DOMAIN targets) \ {id} : targets[i].status = "disabled" \/ targets[i].place # place

MayOverride(c, tenant) == tenant = NoTenant \/ c \in TenantAdmins

Chosen(c, tenant) == tenant # NoTenant /\ c \in TenantAdmins

NoProbe == <<>>

CreateTarget(c, place, tenant) ==
    /\ TargetBegins(c)
    /\ MayOverride(c, tenant)
    /\ ensureUniqueExternalTarget(0, place)
    /\ TargetStep(c, [phase |-> "insert",
                      target |-> [place |-> place, tenant |-> tenant, granted |-> Chosen(c, tenant),
                                  status |-> "pending_verification", ready |-> NoProbe]])

InsertTarget(c) ==
    /\ targetCalls[c].phase = "insert"
    /\ Len(targets) < MaxTargets
    /\ TargetsWritten(c, Append(targets, targetCalls[c].target))

-------------------------------------------------------------------------------
UpdateReadsTarget(c, id) ==
    /\ TargetBegins(c)
    /\ TargetStep(c, [phase |-> "update", id |-> id, target |-> targets[id]])

\* MUTANT: a new configuration keeps the status, and what is known of the old one.
RevisedKeepsProbe(c, target, place, tenant, status) ==
    [target EXCEPT !.place = place, !.tenant = tenant, !.status = status,
                   !.granted = IF tenant = target.tenant THEN @ ELSE Chosen(c, tenant)]

\* A new configuration has to be probed again; nobody can ask for "verified", but a target
\* that is verified stays so while its configuration is the same.
Revised(c, target, place, tenant, status) ==
    LET updated == [target EXCEPT !.place = place, !.tenant = tenant, !.status = status,
                        !.granted = IF tenant = target.tenant THEN @ ELSE Chosen(c, tenant)]
    IN  IF Configuration(updated) = Configuration(target) THEN updated
        ELSE [updated EXCEPT !.ready = NoProbe,
                             !.status = IF status = "disabled" THEN status
                                        ELSE "pending_verification"]

\* MUTANT: whoever manages the target chooses the tenant.
AnybodyOverrides(c, current, tenant) == TRUE

\* The tenant the target already has, and none at all, need no permission.
MayOverrideAgain(c, current, tenant) == tenant = current.tenant \/ MayOverride(c, tenant)

UpdateTarget(c, place, tenant, status) ==
    LET call == targetCalls[c]
    IN  /\ call.phase = "update"
        /\ status \in {call.target.status, "pending_verification", "disabled"}
        /\ MayOverrideAgain(c, call.target, tenant)
        /\ ensureUniqueExternalTarget(call.id, place)
        /\ TargetStep(c, [phase |-> "replace", id |-> call.id,
                          target |-> Revised(c, call.target, place, tenant, status)])

ReplaceTarget(c) ==
    LET call == targetCalls[c]
    IN  /\ call.phase = "replace"
        /\ TargetsWritten(c, [targets EXCEPT ![call.id] = call.target])

-------------------------------------------------------------------------------
\* The probe checks the configuration itself, and asks nobody; a disabled target can be
\* probed too, and another one may have its place.
ProbeTarget(c, id) ==
    /\ TargetBegins(c)
    /\ TargetStep(c, [phase |-> "verify", id |-> id, target |-> targets[id]])

VerifyTarget(c) ==
    LET call == targetCalls[c]
    IN  /\ call.phase = "verify"
        /\ TargetsWritten(c, [targets EXCEPT ![call.id] =
               [call.target EXCEPT !.status = "verified", !.ready = Configuration(call.target)]])

\* A check refuses, the store fails, or the process stops.
TargetCallFails(c) ==
    /\ targetCalls[c].phase # "ended"
    /\ TargetStep(c, NoTargetCall)

TargetsNext ==
    \E c \in TargetCallers :
        \/ \E place \in Places, tenant \in Tenants \cup {NoTenant} :
               \/ CreateTarget(c, place, tenant)
               \/ \E status \in {"pending_verification", "verified", "disabled"} :
                      UpdateTarget(c, place, tenant, status)
        \/ \E id \in DOMAIN targets : UpdateReadsTarget(c, id) \/ ProbeTarget(c, id)
        \/ InsertTarget(c) \/ ReplaceTarget(c) \/ VerifyTarget(c)
        \/ TargetCallFails(c)

TargetsSpec == TargetsInit /\ [][TargetsNext]_targetVars

-------------------------------------------------------------------------------
\* Whole documents that were read earlier are written back, and yet a target is shown as
\* verified, or as probed, only in the configuration that was probed; it queries a tenant other
\* than the service's only if somebody with the permission chose that tenant for this target;
\* and unless calls overlapped, or a disabled target was revived by a probe, no two targets in
\* use have one place.
TargetsAreSound ==
    /\ \A i \in DOMAIN targets :
           /\ targets[i].ready \in {NoProbe, Configuration(targets[i])}
           /\ targets[i].status = "verified" => targets[i].ready # NoProbe
           /\ targets[i].tenant # NoTenant => targets[i].granted
    /\ ~collided =>
           \A i, j \in DOMAIN targets :
               /\ i # j
               /\ targets[i].status # "disabled" /\ targets[j].status # "disabled"
               => targets[i].place # targets[j].place
===============================================================================
