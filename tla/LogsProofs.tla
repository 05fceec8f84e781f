------------------------------ MODULE LogsProofs ------------------------------
(*******************************************************************************)
(* What holds of log routing for every number of callers, targets, machines,   *)
(* routes and bundles: log targets, the machines of a file route, and the      *)
(* bundle the routes of a collector domain are published as.  The parts share  *)
(* no state; each has its invariant, the steps that keep it, and its theorems. *)
(*******************************************************************************)
EXTENDS LogTargets, LogMachines, LogBundle, TLAPS

(**************************************************************************************)
(* Log targets are shown as probed only in the configuration that was probed,         *)
(* query a foreign tenant only when somebody allowed to chose it, and share no        *)
(* place as long as no check and write of two calls overlapped.                       *)
(*                                                                                    *)
(* The argument.  Calls write back whole documents, so the documents they hold are    *)
(* judged like stored ones (CallIsRight).  A call that has checked its place, and was *)
(* not overtaken by a write, still has it for itself (HasItsPlace).                   *)
(**************************************************************************************)

AnyTenant == Tenants \cup {NoTenant}
TargetStatuses == {"pending_verification", "verified", "disabled"}

TargetDocs == [place : Places, tenant : AnyTenant, granted : BOOLEAN, status : TargetStatuses,
               ready : {NoProbe} \cup (Places \X AnyTenant)]

TargetIsRight(t) ==
    /\ t \in TargetDocs
    /\ t.ready \in {NoProbe, Configuration(t)}
    /\ t.status = "verified" => t.ready # NoProbe
    /\ t.tenant # NoTenant => t.granted

\* Nobody else in use has the place.
IsFree(id, place) ==
    \A i \in DOMAIN targets \ {id} : targets[i].status = "disabled" \/ targets[i].place # place

CallIsRight(call) ==
    /\ call.phase \in {"ended", "insert", "update", "replace", "verify"}
    /\ call.phase # "ended" => TargetIsRight(call.target)
    /\ call.phase \in {"update", "replace", "verify"} => call.id \in DOMAIN targets

HasItsPlace(call) ==
    /\ call.phase = "insert" => IsFree(0, call.target.place)
    /\ call.phase = "replace" => IsFree(call.id, call.target.place)
    /\ call.phase = "verify" =>
           call.target.status = "disabled" \/ IsFree(call.id, call.target.place)

PlacesAreUnique ==
    \A i, j \in DOMAIN targets :
        /\ i # j
        /\ targets[i].status # "disabled" /\ targets[j].status # "disabled"
        => targets[i].place # targets[j].place

LInv ==
    /\ targets \in Seq(TargetDocs)
    /\ DOMAIN targetCalls = TargetCallers
    /\ \A i \in DOMAIN targets : TargetIsRight(targets[i])
    /\ \A c \in TargetCallers : CallIsRight(targetCalls[c])
    /\ ~collided => /\ PlacesAreUnique
                    /\ \A c \in TargetCallers : HasItsPlace(targetCalls[c])

LEMMA LInvInit == TargetsInit => LInv
BY DEF TargetsInit, LInv, NoTargetCall, CallIsRight, HasItsPlace, PlacesAreUnique

\* A call goes on without a write.
LEMMA StepKeeps ==
    ASSUME LInv, NEW c \in TargetCallers, NEW call, TargetStep(c, call),
           CallIsRight(call), ~collided => HasItsPlace(call)
    PROVE  LInv'
<1>1. /\ targetCalls' = [targetCalls EXCEPT ![c] = call]
      /\ targets' = targets /\ collided' = collided
  BY DEF TargetStep
<1>2. \A d \in TargetCallers : CallIsRight(targetCalls[d])'
  BY <1>1 DEF LInv, CallIsRight
<1>3. ~collided' => \A d \in TargetCallers : HasItsPlace(targetCalls[d])'
  BY <1>1 DEF LInv, HasItsPlace, IsFree
<1> QED BY <1>1, <1>2, <1>3 DEF LInv, PlacesAreUnique

\* A call writes one document, its own or a new one, and ends.  Unless places may collide,
\* nobody else was about to write.
LEMMA WriteKeeps ==
    ASSUME LInv, NEW c \in TargetCallers, NEW id \in Nat \ {0}, NEW target, NEW stored,
           TargetsWritten(c, stored), targetCalls[c].phase # "ended",
           TargetIsRight(target),
           stored \in Seq(TargetDocs),
           DOMAIN stored = DOMAIN targets \cup {id},
           stored[id] = target,
           \A i \in DOMAIN targets \ {id} : stored[i] = targets[i],
           ~collided' => target.status = "disabled" \/ IsFree(id, target.place)
    PROVE  LInv'
<1>1. /\ targets' = stored
      /\ targetCalls' = [targetCalls EXCEPT ![c] = NoTargetCall]
  BY DEF TargetsWritten
<1>2. \A i \in DOMAIN targets' : TargetIsRight(targets'[i])
  BY <1>1 DEF LInv
<1>3. \A d \in TargetCallers : CallIsRight(targetCalls[d])'
  BY <1>1 DEF LInv, CallIsRight, NoTargetCall
<1>4. ASSUME ~collided'
      PROVE  PlacesAreUnique' /\ \A d \in TargetCallers : HasItsPlace(targetCalls[d])'
  <2>1. /\ ~collided
        /\ \A d \in TargetCallers \ {c} : targetCalls[d].phase \notin {"insert", "replace", "verify"}
    BY <1>4 DEF TargetsWritten
  <2>2. \A d \in TargetCallers : HasItsPlace(targetCalls[d])'
    BY <1>1, <2>1 DEF LInv, HasItsPlace, NoTargetCall
  <2>3. PlacesAreUnique'
    BY <1>1, <1>4, <2>1 DEF LInv, PlacesAreUnique, IsFree
  <2> QED BY <2>2, <2>3
<1> QED BY <1>1, <1>2, <1>3, <1>4 DEF LInv

LEMMA NewDocumentIsRight ==
    ASSUME NEW c \in TargetCallers, NEW place \in Places, NEW tenant \in AnyTenant,
           MayOverride(c, tenant)
    PROVE  TargetIsRight([place |-> place, tenant |-> tenant, granted |-> Chosen(c, tenant),
                          status |-> "pending_verification", ready |-> NoProbe])
<1> DEFINE granted == Chosen(c, tenant)
<1>1. granted \in BOOLEAN /\ (tenant # NoTenant => granted)
  BY DEF Chosen, MayOverride
<1> HIDE DEF granted
<1> SUFFICES TargetIsRight([place |-> place, tenant |-> tenant, granted |-> granted,
                            status |-> "pending_verification", ready |-> NoProbe])
  BY DEF granted
<1> QED BY <1>1 DEF TargetIsRight, TargetDocs, TargetStatuses

LEMMA RevisedIsRight ==
    ASSUME NEW c \in TargetCallers, NEW target, TargetIsRight(target),
           NEW place \in Places, NEW tenant \in AnyTenant,
           NEW status \in {target.status, "pending_verification", "disabled"},
           MayOverrideAgain(c, target, tenant)
    PROVE  /\ TargetIsRight(Revised(c, target, place, tenant, status))
           /\ Revised(c, target, place, tenant, status).place = place
<1> DEFINE granted == IF tenant = target.tenant THEN target.granted ELSE Chosen(c, tenant)
           updated == [target EXCEPT !.place = place, !.tenant = tenant, !.status = status,
                                     !.granted = granted]
<1>1. target \in TargetDocs
  BY DEF TargetIsRight
<1>2. granted \in BOOLEAN /\ (tenant # NoTenant => granted)
  BY <1>1 DEF TargetIsRight, TargetDocs, Chosen, MayOverrideAgain, MayOverride
<1>3. status \in TargetStatuses /\ (status = "verified" => target.ready # NoProbe)
  BY <1>1 DEF TargetIsRight, TargetDocs, TargetStatuses
<1> HIDE DEF granted
<1>4. /\ updated \in TargetDocs
      /\ updated.place = place /\ updated.tenant = tenant /\ updated.status = status
      /\ updated.granted = granted /\ updated.ready = target.ready
  BY <1>1, <1>2, <1>3 DEF TargetDocs
<1>5. Revised(c, target, place, tenant, status) =
         IF Configuration(updated) = Configuration(target) THEN updated
         ELSE [updated EXCEPT !.ready = NoProbe,
                              !.status = IF status = "disabled" THEN status
                                         ELSE "pending_verification"]
  BY DEF Revised, granted
<1> HIDE DEF updated
<1>6. PICK r : r = Revised(c, target, place, tenant, status)
  OBVIOUS
<1>7. CASE Configuration(updated) = Configuration(target)
  <2>1. r = updated
    BY <1>5, <1>6, <1>7
  <2> QED BY <1>2, <1>3, <1>4, <1>6, <1>7, <2>1 DEF TargetIsRight
<1>8. CASE Configuration(updated) # Configuration(target)
  <2> DEFINE kept == IF status = "disabled" THEN status ELSE "pending_verification"
  <2>0. kept \in TargetStatuses /\ kept # "verified"
    BY DEF TargetStatuses
  <2>1. r = [updated EXCEPT !.ready = NoProbe, !.status = kept]
    BY <1>5, <1>6, <1>8
  <2> HIDE DEF kept
  <2>2. /\ r \in TargetDocs
        /\ r.place = place /\ r.tenant = tenant /\ r.granted = granted
        /\ r.ready = NoProbe /\ r.status # "verified"
    BY <1>4, <2>0, <2>1 DEF TargetDocs
  <2> QED BY <1>2, <1>6, <2>2 DEF TargetIsRight
<1> QED BY <1>7, <1>8

-------------------------------------------------------------------------------
LEMMA CreateKeeps ==
    ASSUME LInv, NEW c \in TargetCallers, NEW place \in Places, NEW tenant \in AnyTenant,
           CreateTarget(c, place, tenant)
    PROVE  LInv'
<1> DEFINE target == [place |-> place, tenant |-> tenant, granted |-> Chosen(c, tenant),
                      status |-> "pending_verification", ready |-> NoProbe]
           call == [phase |-> "insert", target |-> target]
<1>1. TargetIsRight(target)
  BY NewDocumentIsRight DEF CreateTarget
<1>2. IsFree(0, place) /\ TargetStep(c, call)
  BY DEF CreateTarget, ensureUniqueExternalTarget, IsFree
<1>3. target.place = place
  OBVIOUS
<1> HIDE DEF target
<1>4. call.phase = "insert" /\ call.target = target
  OBVIOUS
<1>5. CallIsRight(call) /\ HasItsPlace(call)
  BY <1>1, <1>2, <1>3, <1>4 DEF CallIsRight, HasItsPlace
<1> HIDE DEF call
<1> QED BY <1>2, <1>5, StepKeeps

LEMMA InsertKeeps ==
    ASSUME LInv, NEW c \in TargetCallers, InsertTarget(c)
    PROVE  LInv'
<1> DEFINE id == Len(targets) + 1
           target == targetCalls[c].target
           stored == Append(targets, target)
<1>1. targetCalls[c].phase = "insert" /\ TargetsWritten(c, stored)
  BY DEF InsertTarget
<1>2. TargetIsRight(target) /\ target \in TargetDocs
  BY <1>1 DEF LInv, CallIsRight, TargetIsRight
<1>3. targets \in Seq(TargetDocs)
  BY DEF LInv
<1>4. /\ id \in Nat \ {0}
      /\ stored \in Seq(TargetDocs)
      /\ DOMAIN stored = DOMAIN targets \cup {id}
      /\ stored[id] = target
      /\ \A i \in DOMAIN targets \ {id} : stored[i] = targets[i]
  BY <1>2, <1>3
<1>5. ASSUME ~collided'
      PROVE  IsFree(id, target.place)
  <2>1. ~collided
    BY <1>1, <1>5 DEF TargetsWritten
  <2>2. IsFree(0, target.place)
    BY <1>1, <2>1 DEF LInv, HasItsPlace
  <2> QED BY <1>3, <2>2 DEF IsFree
<1> HIDE DEF id, target, stored
<1> QED BY <1>1, <1>2, <1>4, <1>5, WriteKeeps

\* A call that reads a document and goes on with it.
LEMMA ReadKeeps ==
    ASSUME LInv, NEW c \in TargetCallers, NEW id \in DOMAIN targets,
           UpdateReadsTarget(c, id) \/ ProbeTarget(c, id)
    PROVE  LInv'
<1>1. PICK phase \in {"update", "verify"} :
         TargetStep(c, [phase |-> phase, id |-> id, target |-> targets[id]])
  BY DEF UpdateReadsTarget, ProbeTarget
<1> DEFINE call == [phase |-> phase, id |-> id, target |-> targets[id]]
<1>2. call.phase = phase /\ call.id = id /\ call.target = targets[id]
  OBVIOUS
<1>3. TargetStep(c, call)
  BY <1>1
<1> HIDE DEF call
<1>4. CallIsRight(call)
  BY <1>2 DEF LInv, CallIsRight
<1>5. ~collided => HasItsPlace(call)
  BY <1>2 DEF LInv, HasItsPlace, PlacesAreUnique, IsFree
<1> QED BY <1>3, <1>4, <1>5, StepKeeps

LEMMA UpdateKeeps ==
    ASSUME LInv, NEW c \in TargetCallers, NEW place \in Places, NEW tenant \in AnyTenant,
           NEW status \in TargetStatuses, UpdateTarget(c, place, tenant, status)
    PROVE  LInv'
<1> DEFINE q == targetCalls[c]
           target == Revised(c, q.target, place, tenant, status)
           call == [phase |-> "replace", id |-> q.id, target |-> target]
<1>1. /\ q.phase = "update"
      /\ status \in {q.target.status, "pending_verification", "disabled"}
      /\ MayOverrideAgain(c, q.target, tenant)
      /\ ensureUniqueExternalTarget(q.id, place)
      /\ TargetStep(c, call)
  BY DEF UpdateTarget
<1>2. CallIsRight(q) /\ TargetIsRight(q.target) /\ q.id \in DOMAIN targets
  BY <1>1 DEF LInv, CallIsRight
<1> HIDE DEF q
<1>3. TargetIsRight(target) /\ target.place = place
  BY <1>1, <1>2, RevisedIsRight
<1> HIDE DEF target
<1>4. call.phase = "replace" /\ call.id = q.id /\ call.target = target
  OBVIOUS
<1> HIDE DEF call
<1>5. CallIsRight(call)
  BY <1>2, <1>3, <1>4 DEF CallIsRight
<1>6. HasItsPlace(call)
  BY <1>1, <1>3, <1>4 DEF HasItsPlace, IsFree, ensureUniqueExternalTarget
<1> QED BY <1>1, <1>5, <1>6, StepKeeps

\* A call that writes a document back over the one that is there.
LEMMA WriteBackKeeps ==
    ASSUME LInv, NEW c \in TargetCallers, NEW id \in DOMAIN targets, NEW target,
           TargetIsRight(target), targetCalls[c].phase # "ended",
           TargetsWritten(c, [targets EXCEPT ![id] = target]),
           ~collided' => target.status = "disabled" \/ IsFree(id, target.place)
    PROVE  LInv'
<1> DEFINE stored == [targets EXCEPT ![id] = target]
<1>1. targets \in Seq(TargetDocs) /\ target \in TargetDocs
  BY DEF LInv, TargetIsRight
<1>2. id \in Nat \ {0} /\ DOMAIN targets = 1 .. Len(targets) /\ Len(targets) \in Nat
  BY <1>1
<1>3. stored \in Seq(TargetDocs)
  BY <1>1, <1>2
<1>4. DOMAIN stored = DOMAIN targets \cup {id}
  BY <1>1
<1>5. /\ stored[id] = target
      /\ \A i \in DOMAIN targets \ {id} : stored[i] = targets[i]
  BY <1>1, <1>2
<1>6. TargetsWritten(c, stored)
  OBVIOUS
<1> HIDE DEF stored
<1> QED BY <1>2, <1>3, <1>4, <1>5, <1>6, WriteKeeps

LEMMA ReplaceKeeps ==
    ASSUME LInv, NEW c \in TargetCallers, ReplaceTarget(c)
    PROVE  LInv'
<1> DEFINE q == targetCalls[c]
<1>1. q.phase = "replace" /\ TargetsWritten(c, [targets EXCEPT ![q.id] = q.target])
  BY DEF ReplaceTarget
<1>2. TargetIsRight(q.target) /\ q.id \in DOMAIN targets
  BY <1>1 DEF LInv, CallIsRight
<1>3. ~collided' => IsFree(q.id, q.target.place)
  BY <1>1 DEF LInv, HasItsPlace, TargetsWritten
<1> QED BY <1>1, <1>2, <1>3, WriteBackKeeps

LEMMA VerifyKeeps ==
    ASSUME LInv, NEW c \in TargetCallers, VerifyTarget(c)
    PROVE  LInv'
<1> DEFINE q == targetCalls[c]
           target == [q.target EXCEPT !.status = "verified", !.ready = Configuration(q.target)]
<1>1. q.phase = "verify" /\ TargetsWritten(c, [targets EXCEPT ![q.id] = target])
  BY DEF VerifyTarget
<1>2. TargetIsRight(q.target) /\ q.id \in DOMAIN targets
  BY <1>1 DEF LInv, CallIsRight
<1>3. ~collided' => q.target.status # "disabled" /\ ~collided
  BY <1>1 DEF TargetsWritten
<1>4. ~collided' => IsFree(q.id, q.target.place)
  BY <1>1, <1>3 DEF LInv, HasItsPlace
<1>5. PICK t : t = q.target
  OBVIOUS
<1> HIDE DEF q
<1>6. /\ target \in TargetDocs
      /\ target.place = t.place /\ target.tenant = t.tenant /\ target.granted = t.granted
      /\ target.ready = Configuration(t)
  BY <1>2, <1>5 DEF TargetIsRight, TargetDocs, TargetStatuses, Configuration
<1>7. Configuration(t) # NoProbe
  BY DEF Configuration, NoProbe
<1> HIDE DEF target
<1>8. TargetIsRight(target)
  BY <1>2, <1>5, <1>6, <1>7 DEF TargetIsRight, Configuration
<1> QED BY <1>1, <1>2, <1>4, <1>5, <1>6, <1>8, WriteBackKeeps DEF q

LEMMA FailKeeps ==
    ASSUME LInv, NEW c \in TargetCallers, TargetCallFails(c)
    PROVE  LInv'
<1>1. TargetStep(c, NoTargetCall) /\ CallIsRight(NoTargetCall) /\ HasItsPlace(NoTargetCall)
  BY DEF TargetCallFails, NoTargetCall, CallIsRight, HasItsPlace
<1> QED BY <1>1, StepKeeps

LEMMA LInvNext == LInv /\ [TargetsNext]_targetVars => LInv'
<1> SUFFICES ASSUME LInv, [TargetsNext]_targetVars PROVE LInv'
  OBVIOUS
<1>1. CASE UNCHANGED targetVars
  BY <1>1 DEF targetVars, LInv, CallIsRight, HasItsPlace, IsFree, PlacesAreUnique
<1>2. CASE TargetsNext
  <2>1. PICK c \in TargetCallers :
           \/ \E place \in Places, tenant \in AnyTenant :
                  \/ CreateTarget(c, place, tenant)
                  \/ \E status \in TargetStatuses : UpdateTarget(c, place, tenant, status)
           \/ \E id \in DOMAIN targets : UpdateReadsTarget(c, id) \/ ProbeTarget(c, id)
           \/ InsertTarget(c) \/ ReplaceTarget(c) \/ VerifyTarget(c)
           \/ TargetCallFails(c)
    BY <1>2 DEF TargetsNext, AnyTenant, TargetStatuses
  <2> QED BY <2>1, CreateKeeps, UpdateKeeps, ReadKeeps, InsertKeeps, ReplaceKeeps, VerifyKeeps,
             FailKeeps
<1> QED BY <1>1, <1>2

\* Whatever calls overlap, a log target is shown as verified only in the configuration that
\* was probed and queries a foreign tenant only by permission; its place is its own unless
\* calls overlapped or a disabled target was revived (logs.Service's external targets).
THEOREM TargetsAreRight == TargetsSpec => []TargetsAreSound
<1>1. LInv => TargetsAreSound
  BY DEF LInv, TargetIsRight, PlacesAreUnique, TargetsAreSound
<1> QED BY LInvInit, LInvNext, <1>1, PTL DEF TargetsSpec

-------------------------------------------------------------------------------
(******************************************************************************)
(* Machines.  A machine that nobody interfered with is as its audited         *)
(* operations left it, or one call at most has written it and knows what was  *)
(* there before.  Whoever is about to write it knows what is there.  Once the *)
(* route's machines were deleted, whatever is left was interfered with.       *)
(******************************************************************************)
MachineDocs == [address : Addresses, status : {"pending_probe"} \cup Check]

MachineCallDocs ==
    [phase : {"attempt", "write", "success", "undo"}, op : {"create", "delete", "probe"},
     id : MachineIDs, old : MachineDocs, new : MachineDocs]

MachinesTypes ==
    /\ \A i \in DOMAIN machines : i \in MachineIDs /\ machines[i] \in MachineDocs
    /\ DOMAIN machineCalls = MachineCallers
    /\ \A c \in MachineCallers :
           /\ machineCalls[c].phase \in {"ended", "route", "attempt", "write", "success", "undo"}
           /\ HasMachine(c) => machineCalls[c] \in MachineCallDocs

Holds(c, i) == HasMachine(c) /\ machineCalls[c].id = i

Wrote(c, i) == Holds(c, i) /\ machineCalls[c].phase \in {"success", "undo"}

\* The document is as the audited operations left it.
AsAudited(i) ==
    /\ i \in DOMAIN machines <=> i \in DOMAIN audited
    /\ i \in DOMAIN machines => machines[i] = audited[i]

\* What a call knows of its machine, before it writes it and afterwards.
KnowsBefore(call) ==
    IF call.op = "create" THEN call.id \notin DOMAIN machines \cup DOMAIN audited
    ELSE call.id \in DOMAIN machines /\ machines[call.id] = call.old

KnowsAfter(call) ==
    /\ call.op = "delete" <=> call.id \notin DOMAIN machines
    /\ call.op # "delete" => machines[call.id] = call.new
    /\ call.op = "create" <=> call.id \notin DOMAIN audited
    /\ call.op # "create" => audited[call.id] = call.old

Knows(call) == IF call.phase \in {"attempt", "write"} THEN KnowsBefore(call) ELSE KnowsAfter(call)

RouteIsGoing == ~routeExists \/ \E c \in MachineCallers : machineCalls[c].phase = "route"

MachinesInv ==
    /\ MachinesTypes
    /\ \A i : i \notin unsettled => AsAudited(i) \/ \E c \in MachineCallers : Wrote(c, i)
    /\ \A i : i \notin unsettled =>
           \A c, d \in MachineCallers : Wrote(c, i) /\ Wrote(d, i) => c = d
    /\ \A c \in MachineCallers :
           HasMachine(c) /\ machineCalls[c].id \notin unsettled => Knows(machineCalls[c])
    /\ RouteIsGoing =>
           /\ DOMAIN machines \subseteq unsettled
           /\ DOMAIN audited \subseteq unsettled
           /\ \A c \in MachineCallers : HasMachine(c) => machineCalls[c].id \in unsettled

LEMMA MachinesInvInit == MachinesInit => MachinesInv
<1> SUFFICES ASSUME MachinesInit PROVE MachinesInv
  OBVIOUS
<1>1. /\ routeExists = TRUE /\ DOMAIN machines = {} /\ DOMAIN audited = {}
      /\ DOMAIN machineCalls = MachineCallers
      /\ \A c \in MachineCallers : machineCalls[c].phase = "ended"
  BY DEF MachinesInit, NoMachineCall
<1>2. \A c \in MachineCallers : ~HasMachine(c)
  BY <1>1 DEF HasMachine
<1>3. ~RouteIsGoing
  BY <1>1 DEF RouteIsGoing
<1> QED BY <1>1, <1>2, <1>3 DEF MachinesInv, MachinesTypes, AsAudited, Wrote, Holds

\* What another caller's step leaves of a call.
LEMMA OtherMachineCalls ==
    ASSUME MachinesInv, NEW c \in MachineCallers, NEW call,
           machineCalls' = [machineCalls EXCEPT ![c] = call]
    PROVE  /\ machineCalls'[c] = call
           /\ DOMAIN machineCalls' = MachineCallers
           /\ \A d \in MachineCallers \ {c} :
                  machineCalls'[d] = machineCalls[d] /\ HasMachine(d)' = HasMachine(d)
BY DEF MachinesInv, MachinesTypes, HasMachine

\* A call ends, or takes up a machine, and no document changes.
LEMMA MachineStepKeeps ==
    ASSUME MachinesInv, NEW c \in MachineCallers, NEW call,
           machineCalls' = [machineCalls EXCEPT ![c] = call],
           unsettled \subseteq unsettled',
           UNCHANGED <<routeExists, machines, audited>>,
           \/ call.phase = "ended"
           \/ call \in MachineCallDocs /\ (call.id \notin unsettled' => Knows(call)),
           \/ machineCalls[c].phase \notin {"success", "undo"}
           \/ machineCalls[c].id \in unsettled'
           \/ call.phase \in {"success", "undo"} /\ call.id = machineCalls[c].id,
           call.phase \in {"success", "undo"} =>
               machineCalls[c].phase \in {"success", "undo"} /\ call.id = machineCalls[c].id,
           RouteIsGoing /\ call.phase # "ended" => call.id \in unsettled'
    PROVE  MachinesInv'
<1>1. /\ machineCalls'[c] = call /\ DOMAIN machineCalls' = MachineCallers
      /\ \A d \in MachineCallers \ {c} :
             machineCalls'[d] = machineCalls[d] /\ HasMachine(d)' = HasMachine(d)
  BY OtherMachineCalls
<1>2. HasMachine(c)' => call \in MachineCallDocs /\ (call.id \notin unsettled' => Knows(call))
  BY <1>1 DEF HasMachine
<1>3. call.phase \in {"ended", "attempt", "write", "success", "undo"}
  BY DEF MachineCallDocs
<1>4. MachinesTypes'
  BY <1>1, <1>2, <1>3 DEF MachinesInv, MachinesTypes
<1>5. ASSUME NEW i, i \notin unsettled', NEW d \in MachineCallers
      PROVE  Wrote(d, i)' <=> Wrote(d, i)
  <2>1. CASE d = c
    BY <1>1, <1>5, <2>1 DEF Wrote, Holds, HasMachine
  <2>2. CASE d # c
    BY <1>1, <2>2 DEF Wrote, Holds
  <2> QED BY <2>1, <2>2
<1>6. \A i : i \notin unsettled' =>
         AsAudited(i)' \/ \E d \in MachineCallers : Wrote(d, i)'
  BY <1>5 DEF MachinesInv, AsAudited
<1>7. \A i : i \notin unsettled' =>
         \A d, e \in MachineCallers : Wrote(d, i)' /\ Wrote(e, i)' => d = e
  BY <1>5 DEF MachinesInv
<1>8. ASSUME NEW d \in MachineCallers, HasMachine(d)', machineCalls'[d].id \notin unsettled'
      PROVE  Knows(machineCalls[d])'
  <2>1. CASE d = c
    BY <1>1, <1>2, <1>8, <2>1 DEF Knows, KnowsBefore, KnowsAfter
  <2>2. CASE d # c
    BY <1>1, <1>8, <2>2 DEF MachinesInv, Knows, KnowsBefore, KnowsAfter
  <2> QED BY <2>1, <2>2
<1>9. RouteIsGoing' => RouteIsGoing
  BY <1>1, <1>3 DEF RouteIsGoing
<1>10. RouteIsGoing' =>
          /\ DOMAIN machines' \subseteq unsettled'
          /\ DOMAIN audited' \subseteq unsettled'
          /\ \A d \in MachineCallers : HasMachine(d)' => machineCalls'[d].id \in unsettled'
  BY <1>1, <1>9 DEF MachinesInv, HasMachine
<1> QED BY <1>4, <1>6, <1>7, <1>8, <1>10 DEF MachinesInv

LEMMA BeginsKeeps ==
    ASSUME MachinesInv, NEW c \in MachineCallers, NEW id \in MachineIDs,
           \/ \E address \in Addresses : CreateVMEndpoint(c, id, address)
           \/ DeleteVMEndpoint(c, id) \/ ProbeVMEndpoint(c, id)
    PROVE  MachinesInv'
<1>1. CASE \E address \in Addresses : CreateVMEndpoint(c, id, address)
  <2>1. PICK address \in Addresses : CreateVMEndpoint(c, id, address)
    BY <1>1
  <2>2. PICK machine : machine = [address |-> address, status |-> "pending_probe"]
    OBVIOUS
  <2>3. PICK call : call = [phase |-> "attempt", op |-> "create", id |-> id, old |-> machine, new |-> machine]
    OBVIOUS
  <2>4. /\ call \in MachineCallDocs /\ call.phase = "attempt" /\ call.op = "create" /\ call.id = id
    BY <2>2, <2>3 DEF MachineCallDocs, MachineDocs
  <2>5. /\ id \notin DOMAIN machines \cup DOMAIN audited /\ routeExists
        /\ machineCalls' = [machineCalls EXCEPT ![c] = call]
        /\ unsettled' = IF DeletingRoute(c) THEN unsettled \cup {id} ELSE unsettled
        /\ UNCHANGED <<routeExists, machines, audited>>
        /\ machineCalls[c].phase = "ended"
    BY <2>1, <2>2, <2>3 DEF CreateVMEndpoint, MachineBegins
  <2>6. RouteIsGoing => DeletingRoute(c)
    BY <2>5 DEF RouteIsGoing, DeletingRoute
  <2>7. Knows(call)
    BY <2>4, <2>5 DEF Knows, KnowsBefore
  <2> QED BY <2>4, <2>5, <2>6, <2>7, MachineStepKeeps
<1>2. CASE DeleteVMEndpoint(c, id) \/ ProbeVMEndpoint(c, id)
  <2>1. PICK op \in {"delete", "probe"} : FindMachine(c, op, id)
    BY <1>2 DEF DeleteVMEndpoint, ProbeVMEndpoint
  <2>2. PICK call : call = [phase |-> "attempt", op |-> op, id |-> id,
                            old |-> machines[id], new |-> machines[id]]
    OBVIOUS
  <2>3. /\ id \in DOMAIN machines /\ machines[id] \in MachineDocs
        /\ machineCalls' = [machineCalls EXCEPT ![c] = call]
        /\ UNCHANGED <<routeExists, machines, audited, unsettled>>
        /\ machineCalls[c].phase = "ended"
    BY <2>1, <2>2 DEF FindMachine, MachineStep, MachineBegins, MachinesInv, MachinesTypes
  <2>4. /\ call \in MachineCallDocs /\ call.phase = "attempt" /\ call.op # "create" /\ call.id = id
        /\ call.old = machines[id]
    BY <2>2, <2>3 DEF MachineCallDocs
  <2>5. Knows(call)
    BY <2>3, <2>4 DEF Knows, KnowsBefore
  <2>6. RouteIsGoing => id \in unsettled
    BY <2>3 DEF MachinesInv
  <2> QED BY <2>3, <2>4, <2>5, <2>6, MachineStepKeeps
<1> QED BY <1>1, <1>2

\* An audit event before the write, or none after it.
LEMMA AuditKeeps ==
    ASSUME MachinesInv, NEW c \in MachineCallers, AuditAttempt(c) \/ AuditFails(c)
    PROVE  MachinesInv'
<1>1. PICK q : q = machineCalls[c]
  OBVIOUS
<1>2. HasMachine(c) /\ q.phase \in {"attempt", "success"}
  BY <1>1 DEF AuditAttempt, AuditFails, HasMachine
<1>3. q \in MachineCallDocs /\ (q.id \notin unsettled => Knows(q)) /\ (RouteIsGoing => q.id \in unsettled)
  BY <1>1, <1>2 DEF MachinesInv, MachinesTypes
<1>4. PICK to \in {"write", "undo"} : /\ MachineStep(c, [q EXCEPT !.phase = to])
                                      /\ q.phase = "attempt" <=> to = "write"
  BY <1>1, <1>2 DEF AuditAttempt, AuditFails
<1>5. PICK call : call = [q EXCEPT !.phase = to]
  OBVIOUS
<1>6. /\ call \in MachineCallDocs /\ call.phase = to /\ call.op = q.op /\ call.id = q.id
      /\ call.old = q.old /\ call.new = q.new
  BY <1>3, <1>5 DEF MachineCallDocs
<1>7. q.id \notin unsettled => Knows(call)
  BY <1>2, <1>3, <1>4, <1>6 DEF Knows, KnowsBefore, KnowsAfter
<1>8. machineCalls' = [machineCalls EXCEPT ![c] = call]
      /\ UNCHANGED <<routeExists, machines, audited, unsettled>>
  BY <1>4, <1>5 DEF MachineStep
<1> QED BY <1>1, <1>2, <1>3, <1>4, <1>6, <1>7, <1>8, MachineStepKeeps

LEMMA MachineFailsKeeps ==
    ASSUME MachinesInv, NEW c \in MachineCallers, MachineCallFails(c)
    PROVE  MachinesInv'
<1>1. /\ machineCalls' = [machineCalls EXCEPT ![c] = NoMachineCall]
      /\ unsettled \subseteq unsettled'
      /\ UNCHANGED <<routeExists, machines, audited>>
      /\ machineCalls[c].phase \notin {"success", "undo"} \/ machineCalls[c].id \in unsettled'
  BY DEF MachineCallFails
<1>2. NoMachineCall.phase = "ended"
  BY DEF NoMachineCall
<1> QED BY <1>1, <1>2, MachineStepKeeps

-------------------------------------------------------------------------------
\* A call changes one document, of the cluster or as audited, and nobody else holds the
\* machine, or it is given up as interfered with.
LEMMA ChangeKeeps ==
    ASSUME MachinesInv, NEW c \in MachineCallers, NEW call, NEW id \in MachineIDs,
           HasMachine(c), machineCalls[c].id = id,
           machineCalls' = [machineCalls EXCEPT ![c] = call],
           UNCHANGED routeExists,
           unsettled \subseteq unsettled',
           \A i \in DOMAIN machines' \ {id} : i \in DOMAIN machines,
           \A i \in DOMAIN machines \ {id} : i \in DOMAIN machines' /\ machines'[i] = machines[i],
           \A i \in DOMAIN audited' \ {id} : i \in DOMAIN audited,
           \A i \in DOMAIN audited \ {id} : i \in DOMAIN audited' /\ audited'[i] = audited[i],
           id \in DOMAIN machines' => machines'[id] \in MachineDocs,
           \/ call.phase = "ended" /\ (id \notin unsettled' => AsAudited(id)')
           \/ /\ call.phase = "success" /\ machineCalls[c].phase \notin {"success", "undo"}
              /\ call \in MachineCallDocs /\ call.id = id
              /\ id \notin unsettled' => Knows(call)',
           id \notin unsettled' => \A d \in MachineCallers \ {c} :
               Holds(d, id) => /\ call.phase = "ended"
                               /\ machineCalls[d].phase \notin {"success", "undo"}
                               /\ machineCalls[d].op # "create" /\ UNCHANGED machines
    PROVE  MachinesInv'
<1>1. /\ machineCalls'[c] = call /\ DOMAIN machineCalls' = MachineCallers
      /\ \A d \in MachineCallers \ {c} :
             machineCalls'[d] = machineCalls[d] /\ HasMachine(d)' = HasMachine(d)
  BY OtherMachineCalls
<1>2. HasMachine(c)' => call \in MachineCallDocs /\ call.phase = "success" /\ call.id = id
  BY <1>1 DEF HasMachine
<1>3. MachinesTypes'
  BY <1>1, <1>2 DEF MachinesInv, MachinesTypes
<1>4. \A i : i # id => AsAudited(i)' = AsAudited(i)
  BY DEF AsAudited
<1>5. ASSUME NEW i, i # id, NEW d \in MachineCallers PROVE Wrote(d, i)' <=> Wrote(d, i)
  <2>1. CASE d = c
    BY <1>1, <1>2, <1>5, <2>1 DEF Wrote, Holds
  <2>2. CASE d # c
    BY <1>1, <2>2 DEF Wrote, Holds
  <2> QED BY <2>1, <2>2
<1>6. ASSUME id \notin unsettled', NEW d \in MachineCallers, Wrote(d, id)' PROVE d = c
  BY <1>1, <1>6 DEF Wrote, Holds
<1>7. \A i : i \notin unsettled' =>
         AsAudited(i)' \/ \E d \in MachineCallers : Wrote(d, i)'
  <2> SUFFICES ASSUME NEW i, i \notin unsettled'
               PROVE  AsAudited(i)' \/ \E d \in MachineCallers : Wrote(d, i)'
    OBVIOUS
  <2>1. CASE i = id
    BY <1>1, <1>2, <2>1 DEF Wrote, Holds, HasMachine
  <2>2. CASE i # id
    BY <1>4, <1>5, <2>2 DEF MachinesInv
  <2> QED BY <2>1, <2>2
<1>8. \A i : i \notin unsettled' =>
         \A d, e \in MachineCallers : Wrote(d, i)' /\ Wrote(e, i)' => d = e
  <2> SUFFICES ASSUME NEW i, i \notin unsettled', NEW d \in MachineCallers, NEW e \in MachineCallers,
                      Wrote(d, i)', Wrote(e, i)'
               PROVE  d = e
    OBVIOUS
  <2>1. CASE i = id
    BY <1>6, <2>1
  <2>2. CASE i # id
    BY <1>5, <2>2 DEF MachinesInv
  <2> QED BY <2>1, <2>2
<1>9. ASSUME NEW d \in MachineCallers, HasMachine(d)', machineCalls'[d].id \notin unsettled'
      PROVE  Knows(machineCalls[d])'
  <2>1. CASE d = c
    BY <1>1, <1>2, <1>9, <2>1 DEF Knows, KnowsBefore, KnowsAfter, HasMachine
  <2>2. CASE d # c
    <3>1. PICK q : q = machineCalls[d]
      OBVIOUS
    <3>2. /\ machineCalls'[d] = q /\ HasMachine(d) /\ q.id \notin unsettled /\ q.id \notin unsettled'
          /\ Knows(q)
      BY <1>1, <1>9, <2>2, <3>1 DEF MachinesInv
    <3>3. CASE q.id = id
      <4>1. q.phase \notin {"success", "undo"} /\ q.op # "create" /\ UNCHANGED machines
        BY <2>2, <3>1, <3>2, <3>3 DEF Holds
      <4>2. KnowsBefore(q)
        BY <3>1, <3>2, <4>1 DEF Knows, HasMachine
      <4>3. q.phase \in {"attempt", "write"}
        BY <3>1, <3>2, <4>1 DEF HasMachine
      <4> QED BY <3>2, <4>1, <4>2, <4>3 DEF Knows, KnowsBefore
    <3>4. CASE q.id # id
      BY <3>2, <3>4 DEF Knows, KnowsBefore, KnowsAfter
    <3> QED BY <3>3, <3>4
  <2> QED BY <2>1, <2>2
<1>10. RouteIsGoing' => RouteIsGoing
  <2>1. call.phase # "route"
    OBVIOUS
  <2> QED BY <1>1, <2>1 DEF RouteIsGoing
<1>11. RouteIsGoing' =>
          /\ DOMAIN machines' \subseteq unsettled'
          /\ DOMAIN audited' \subseteq unsettled'
          /\ \A d \in MachineCallers : HasMachine(d)' => machineCalls'[d].id \in unsettled'
  BY <1>1, <1>2, <1>10 DEF MachinesInv
<1> QED BY <1>3, <1>7, <1>8, <1>9, <1>11 DEF MachinesInv

\* What With and Without do to the documents.
LEMMA WithDocument ==
    ASSUME NEW stored, NEW id, NEW machine, NEW result, result = With(stored, id, machine)
    PROVE  /\ \A i \in DOMAIN result \ {id} : i \in DOMAIN stored
           /\ \A i \in DOMAIN stored \ {id} : i \in DOMAIN result /\ result[i] = stored[i]
           /\ id \in DOMAIN result /\ result[id] = machine
BY DEF With

LEMMA WithoutDocument ==
    ASSUME NEW stored, NEW id, NEW result, result = Without(stored, id)
    PROVE  /\ \A i \in DOMAIN result \ {id} : i \in DOMAIN stored
           /\ \A i \in DOMAIN stored \ {id} : i \in DOMAIN result /\ result[i] = stored[i]
           /\ id \notin DOMAIN result
BY DEF Without, Restrict

LEMMA MachineWriteKeeps ==
    ASSUME MachinesInv, NEW c \in MachineCallers, WriteMachine(c)
    PROVE  MachinesInv'
<1>1. PICK q : q = machineCalls[c]
  OBVIOUS
<1>2. /\ HasMachine(c) /\ q.phase = "write" /\ q \in MachineCallDocs
      /\ q.id \notin unsettled => KnowsBefore(q)
  BY <1>1 DEF WriteMachine, HasMachine, MachinesInv, MachinesTypes, Knows
<1>3. /\ unsettled' = IF q.id \in InUse(c) THEN unsettled \cup {q.id} ELSE unsettled
      /\ UNCHANGED <<routeExists, audited>>
  BY <1>1 DEF WriteMachine
<1>4. q.id \notin unsettled' =>
         /\ q.id \notin unsettled
         /\ \A d \in MachineCallers \ {c} : ~Holds(d, q.id)
  BY <1>3 DEF InUse, Holds
<1>5. q.id \notin unsettled' => AsAudited(q.id)
  <2>1. ~Wrote(c, q.id)
    BY <1>1, <1>2 DEF Wrote
  <2> QED BY <1>4, <2>1 DEF MachinesInv, Wrote
<1>6. PICK call, new :
         /\ machineCalls' = [machineCalls EXCEPT ![c] = call]
         /\ call \in MachineCallDocs /\ call.phase = "success" /\ call.op = q.op /\ call.id = q.id
         /\ call.old = q.old /\ call.new = new
         /\ machines' = IF q.op = "delete" THEN Without(machines, q.id) ELSE With(machines, q.id, new)
  <2>1. CASE q.op \in {"create", "delete"}
    <3>1. PICK call : call = [q EXCEPT !.phase = "success"]
      OBVIOUS
    <3>2. call \in MachineCallDocs /\ call.phase = "success" /\ call.op = q.op /\ call.id = q.id
          /\ call.old = q.old /\ call.new = q.new
      BY <1>2, <3>1 DEF MachineCallDocs
    <3>3. machineCalls' = [machineCalls EXCEPT ![c] = call]
      BY <1>1, <2>1, <3>1 DEF WriteMachine
    <3>4. machines' = IF q.op = "delete" THEN Without(machines, q.id) ELSE With(machines, q.id, q.new)
      BY <1>1, <2>1 DEF WriteMachine
    <3> QED BY <3>2, <3>3, <3>4
  <2>2. CASE q.op = "probe"
    <3>1. PICK status \in Check :
             /\ machines' = With(machines, q.id, [q.old EXCEPT !.status = status])
             /\ machineCalls' = [machineCalls EXCEPT ![c].phase = "success",
                                     ![c].new = [q.old EXCEPT !.status = status]]
      BY <1>1, <2>2 DEF WriteMachine
    <3>2. PICK new : new = [q.old EXCEPT !.status = status]
      OBVIOUS
    <3>3. new \in MachineDocs
      BY <1>2, <3>2 DEF MachineDocs, MachineCallDocs
    <3>4. PICK call : call = [q EXCEPT !.phase = "success", !.new = new]
      OBVIOUS
    <3>5. call \in MachineCallDocs /\ call.phase = "success" /\ call.op = q.op /\ call.id = q.id
          /\ call.old = q.old /\ call.new = new
      BY <1>2, <3>3, <3>4 DEF MachineCallDocs
    <3>6. machineCalls' = [machineCalls EXCEPT ![c] = call]
      <4>1. machineCalls' = [machineCalls EXCEPT ![c].phase = "success", ![c].new = new]
        BY <3>1, <3>2
      <4> QED BY <1>1, <3>4, <4>1 DEF MachinesInv, MachinesTypes
    <3>7. machines' = With(machines, q.id, new)
      BY <3>1, <3>2
    <3> QED BY <2>2, <3>5, <3>6, <3>7
  <2> QED BY <1>2, <2>1, <2>2 DEF MachineCallDocs
<1>7. /\ new \in MachineDocs /\ q.id \in MachineIDs
  BY <1>2, <1>6 DEF MachineCallDocs
<1>8. /\ \A i \in DOMAIN machines' \ {q.id} : i \in DOMAIN machines
      /\ \A i \in DOMAIN machines \ {q.id} : i \in DOMAIN machines' /\ machines'[i] = machines[i]
      /\ q.id \in DOMAIN machines' => machines'[q.id] = new
      /\ q.id \in DOMAIN machines' <=> q.op # "delete"
  <2>1. CASE q.op = "delete"
    <3>1. machines' = Without(machines, q.id)
      BY <1>6, <2>1
    <3> QED BY <2>1, <3>1, WithoutDocument
  <2>2. CASE q.op # "delete"
    <3>1. machines' = With(machines, q.id, new)
      BY <1>6, <2>2
    <3> QED BY <2>2, <3>1, WithDocument
  <2> QED BY <2>1, <2>2
<1>9. q.id \notin unsettled' => Knows(call)'
  <2>1. q.id \notin unsettled' => KnowsAfter(call)'
    BY <1>2, <1>3, <1>4, <1>5, <1>6, <1>8 DEF KnowsBefore, KnowsAfter, AsAudited
  <2> QED BY <1>6, <2>1 DEF Knows, KnowsAfter
<1>10. unsettled \subseteq unsettled'
  BY <1>3
<1> QED BY <1>1, <1>2, <1>3, <1>4, <1>6, <1>7, <1>8, <1>9, <1>10, ChangeKeeps

LEMMA TakeBackKeeps ==
    ASSUME MachinesInv, NEW c \in MachineCallers, TakeBack(c)
    PROVE  MachinesInv'
<1>1. PICK q : q = machineCalls[c]
  OBVIOUS
<1>2. /\ HasMachine(c) /\ q.phase = "undo" /\ q \in MachineCallDocs
      /\ q.id \notin unsettled => KnowsAfter(q)
  BY <1>1 DEF TakeBack, HasMachine, MachinesInv, MachinesTypes, Knows
<1>3. /\ unsettled' = IF q.id \in InUse(c) THEN unsettled \cup {q.id} ELSE unsettled
      /\ machineCalls' = [machineCalls EXCEPT ![c] = NoMachineCall]
      /\ machines' = UndoMachine(q)
      /\ UNCHANGED <<routeExists, audited>>
  BY <1>1 DEF TakeBack
<1>4. q.id \notin unsettled' =>
         /\ q.id \notin unsettled
         /\ \A d \in MachineCallers \ {c} : ~Holds(d, q.id)
  BY <1>3 DEF InUse, Holds
<1>5. /\ q.id \in MachineIDs /\ q.old \in MachineDocs /\ q.op \in {"create", "delete", "probe"}
      /\ machines' = IF q.op = "create" THEN Without(machines, q.id) ELSE With(machines, q.id, q.old)
  BY <1>2, <1>3 DEF MachineCallDocs, UndoMachine
<1>6. /\ \A i \in DOMAIN machines' \ {q.id} : i \in DOMAIN machines
      /\ \A i \in DOMAIN machines \ {q.id} : i \in DOMAIN machines' /\ machines'[i] = machines[i]
      /\ q.id \in DOMAIN machines' => machines'[q.id] = q.old
      /\ q.id \in DOMAIN machines' <=> q.op # "create"
  <2>1. CASE q.op = "create"
    <3>1. machines' = Without(machines, q.id)
      BY <1>5, <2>1
    <3> QED BY <2>1, <3>1, WithoutDocument
  <2>2. CASE q.op # "create"
    <3>1. machines' = With(machines, q.id, q.old)
      BY <1>5, <2>2
    <3> QED BY <2>2, <3>1, WithDocument
  <2> QED BY <2>1, <2>2
<1>7. q.id \notin unsettled' => AsAudited(q.id)'
  BY <1>2, <1>3, <1>4, <1>6 DEF KnowsAfter, AsAudited
<1>8. unsettled \subseteq unsettled' /\ NoMachineCall.phase = "ended"
  BY <1>3 DEF NoMachineCall
<1> QED BY <1>1, <1>2, <1>3, <1>4, <1>5, <1>6, <1>7, <1>8, ChangeKeeps

LEMMA SuccessKeeps ==
    ASSUME MachinesInv, NEW c \in MachineCallers, AuditSuccess(c)
    PROVE  MachinesInv'
<1>1. PICK q : q = machineCalls[c]
  OBVIOUS
<1>2. /\ HasMachine(c) /\ q.phase = "success" /\ q \in MachineCallDocs
      /\ q.id \notin unsettled => KnowsAfter(q)
  BY <1>1 DEF AuditSuccess, HasMachine, MachinesInv, MachinesTypes, Knows
<1>3. /\ machineCalls' = [machineCalls EXCEPT ![c] = NoMachineCall]
      /\ audited' = IF q.op = "delete" THEN Without(audited, q.id) ELSE With(audited, q.id, q.new)
      /\ UNCHANGED <<routeExists, machines, unsettled>>
  BY <1>1 DEF AuditSuccess
<1>4. q.id \in MachineIDs
  BY <1>2 DEF MachineCallDocs
<1>5. /\ \A i \in DOMAIN audited' \ {q.id} : i \in DOMAIN audited
      /\ \A i \in DOMAIN audited \ {q.id} : i \in DOMAIN audited' /\ audited'[i] = audited[i]
      /\ q.id \in DOMAIN audited' => audited'[q.id] = q.new
      /\ q.id \in DOMAIN audited' <=> q.op # "delete"
  <2>1. CASE q.op = "delete"
    <3>1. audited' = Without(audited, q.id)
      BY <1>3, <2>1
    <3> QED BY <2>1, <3>1, WithoutDocument
  <2>2. CASE q.op # "delete"
    <3>1. audited' = With(audited, q.id, q.new)
      BY <1>3, <2>2
    <3> QED BY <2>2, <3>1, WithDocument
  <2> QED BY <2>1, <2>2
<1>6. q.id \notin unsettled => AsAudited(q.id)'
  BY <1>2, <1>3, <1>5 DEF KnowsAfter, AsAudited
<1>7. ASSUME q.id \notin unsettled, NEW d \in MachineCallers \ {c}, Holds(d, q.id)
      PROVE  machineCalls[d].phase \notin {"success", "undo"} /\ machineCalls[d].op # "create"
  <2>1. Wrote(c, q.id)
    BY <1>1, <1>2 DEF Wrote, Holds
  <2>2. machineCalls[d].phase \notin {"success", "undo"}
    BY <1>7, <2>1 DEF MachinesInv, Wrote
  <2>3. KnowsBefore(machineCalls[d]) /\ machineCalls[d].id = q.id
    BY <1>7, <2>2 DEF MachinesInv, Holds, Knows, HasMachine
  <2>4. q.id \in DOMAIN machines \cup DOMAIN audited
    BY <1>2, <1>7 DEF KnowsAfter
  <2> QED BY <2>2, <2>3, <2>4 DEF KnowsBefore
<1>8. /\ NoMachineCall.phase = "ended"
      /\ \A i \in DOMAIN machines : machines[i] \in MachineDocs
  BY DEF NoMachineCall, MachinesInv, MachinesTypes
<1> QED BY <1>1, <1>2, <1>3, <1>4, <1>5, <1>6, <1>7, <1>8, ChangeKeeps

-------------------------------------------------------------------------------
LEMMA DeleteRouteKeeps ==
    ASSUME MachinesInv, NEW c \in MachineCallers, DeleteRouteMachines(c)
    PROVE  MachinesInv'
<1>1. PICK call : call = [phase |-> "route"]
  OBVIOUS
<1>2. /\ machineCalls[c].phase = "ended" /\ call.phase = "route"
      /\ machineCalls' = [machineCalls EXCEPT ![c] = call]
      /\ DOMAIN machines' = {} /\ DOMAIN audited' = {}
      /\ unsettled' = unsettled \cup InUse(c) /\ UNCHANGED routeExists
  BY <1>1 DEF DeleteRouteMachines, MachineBegins, Restrict
<1>3. /\ machineCalls'[c] = call /\ DOMAIN machineCalls' = MachineCallers
      /\ \A d \in MachineCallers \ {c} :
             machineCalls'[d] = machineCalls[d] /\ HasMachine(d)' = HasMachine(d)
  BY <1>2, OtherMachineCalls
<1>4. ~HasMachine(c)'
  BY <1>2, <1>3 DEF HasMachine
<1>5. \A d \in MachineCallers : HasMachine(d)' => machineCalls'[d].id \in unsettled'
  BY <1>2, <1>3, <1>4 DEF InUse
<1>6. MachinesTypes'
  BY <1>2, <1>3, <1>4 DEF MachinesInv, MachinesTypes
<1>7. \A i : AsAudited(i)'
  BY <1>2 DEF AsAudited
<1>8. \A i : i \notin unsettled' => \A d \in MachineCallers : ~Wrote(d, i)'
  BY <1>5 DEF Wrote, Holds
<1> QED BY <1>2, <1>5, <1>6, <1>7, <1>8 DEF MachinesInv

LEMMA DeleteDocumentKeeps ==
    ASSUME MachinesInv, NEW c \in MachineCallers, DeleteRouteDocument(c)
    PROVE  MachinesInv'
<1>1. /\ machineCalls[c].phase = "route"
      /\ machineCalls' = [machineCalls EXCEPT ![c] = NoMachineCall]
      /\ UNCHANGED <<machines, audited, unsettled>>
  BY DEF DeleteRouteDocument
<1>2. /\ machineCalls'[c] = NoMachineCall /\ DOMAIN machineCalls' = MachineCallers
      /\ \A d \in MachineCallers \ {c} :
             machineCalls'[d] = machineCalls[d] /\ HasMachine(d)' = HasMachine(d)
      /\ NoMachineCall.phase = "ended"
  BY <1>1, OtherMachineCalls DEF NoMachineCall
<1>3. ~HasMachine(c)' /\ ~HasMachine(c)
  BY <1>1, <1>2 DEF HasMachine
<1>4. MachinesTypes'
  BY <1>1, <1>2, <1>3 DEF MachinesInv, MachinesTypes
<1>5. \A i, d : d \in MachineCallers => (Wrote(d, i)' <=> Wrote(d, i))
  BY <1>2, <1>3 DEF Wrote, Holds
<1>6. RouteIsGoing
  BY <1>1 DEF RouteIsGoing
<1>7. \A d \in MachineCallers : HasMachine(d)' => machineCalls'[d].id \in unsettled'
  BY <1>1, <1>2, <1>3, <1>6 DEF MachinesInv
<1> QED BY <1>1, <1>4, <1>5, <1>6, <1>7 DEF MachinesInv, AsAudited

LEMMA MachinesInvNext == MachinesInv /\ [MachinesNext]_machineVars => MachinesInv'
<1> SUFFICES ASSUME MachinesInv, [MachinesNext]_machineVars PROVE MachinesInv'
  OBVIOUS
<1>1. ASSUME NEW c \in MachineCallers, NEW id \in MachineIDs,
             \/ \E address \in Addresses : CreateVMEndpoint(c, id, address)
             \/ DeleteVMEndpoint(c, id) \/ ProbeVMEndpoint(c, id)
      PROVE  MachinesInv'
  BY <1>1, BeginsKeeps
<1>2. ASSUME NEW c \in MachineCallers,
             AuditAttempt(c) \/ WriteMachine(c) \/ AuditSuccess(c) \/ AuditFails(c) \/ TakeBack(c)
                 \/ MachineCallFails(c)
      PROVE  MachinesInv'
  BY <1>2, AuditKeeps, MachineWriteKeeps, SuccessKeeps, TakeBackKeeps, MachineFailsKeeps
<1>3. ASSUME NEW c \in MachineCallers, DeleteRouteMachines(c) \/ DeleteRouteDocument(c)
      PROVE  MachinesInv'
  BY <1>3, DeleteRouteKeeps, DeleteDocumentKeeps
<1>4. CASE UNCHANGED machineVars
  BY <1>4 DEF machineVars, MachinesInv, MachinesTypes, HasMachine, AsAudited, Wrote, Holds, Knows,
              KnowsBefore, KnowsAfter, RouteIsGoing
<1> QED BY <1>1, <1>2, <1>3, <1>4 DEF MachinesNext

LEMMA SettledMachines == MachinesInv => MachinesAreSound
<1> SUFFICES ASSUME MachinesInv PROVE MachinesAreSound
  OBVIOUS
<1>1. PICK pending : pending = { machineCalls[c].id : c \in { d \in MachineCallers : HasMachine(d) } }
  OBVIOUS
<1>2. \A i : i \notin pending \cup unsettled => AsAudited(i)
  BY <1>1 DEF MachinesInv, Wrote, Holds
<1>3. Restrict(machines, DOMAIN machines \ (pending \cup unsettled))
        = Restrict(audited, DOMAIN audited \ (pending \cup unsettled))
  BY <1>2 DEF Restrict, AsAudited
<1>4. ~routeExists => DOMAIN machines \ (pending \cup unsettled) = {}
  BY DEF MachinesInv, RouteIsGoing
<1>5. PICK none : none = [i \in {} |-> 0]
  OBVIOUS
<1>6. DOMAIN none \ (pending \cup unsettled) = {}
  BY <1>5
<1>7. \A stored : Restrict(stored, {}) = Restrict(none, {})
  BY DEF Restrict
<1>8. ~routeExists => Restrict(machines, DOMAIN machines \ (pending \cup unsettled))
                        = Restrict(none, DOMAIN none \ (pending \cup unsettled))
  BY <1>4, <1>6, <1>7
<1> QED BY <1>1, <1>3, <1>5, <1>8 DEF MachinesAreSound

\* An operation on a machine leaves a trace exactly when it has an event of its success,
\* unless another call was about to write the machine or a call was cut off after its write.
THEOREM MachinesAreRight == MachinesSpec => []MachinesAreSound
<1>1. MachinesInit => MachinesInv
  BY MachinesInvInit
<1>2. MachinesInv /\ [MachinesNext]_machineVars => MachinesInv'
  BY MachinesInvNext
<1>3. MachinesInv => MachinesAreSound
  BY SettledMachines
<1> QED BY <1>1, <1>2, <1>3, PTL DEF MachinesSpec

-------------------------------------------------------------------------------
(*****************************************************************************)
(* Bundles.  What the documents, the cluster and the calls under way hold is *)
(* well formed, and whatever names a hash has stored it before.              *)
(*****************************************************************************)
Bundles == UNION {[D -> Texts] : D \in SUBSET Files}

Docs == [content : Contents, hash : Bundles, publish : States]

RouteMaps == UNION {[D -> Docs] : D \in SUBSET Routes}

RuntimeShapes == [status : {"previewed", "ready"}, hash : Bundles, published : BOOLEAN]

Manifests == [maps : Bundles, daemon : Bundles]

EditCalls ==
    [op : {"create", "update"}, phase : {"version", "source", "route", "list"}, route : Routes,
     doc : Docs, bundle : Bundles]

CheckCalls == [op : {"publish"}, phase : {"check"}, bundle : Bundles]

PlanCalls ==
    [op : {"publish"}, phase : {"version", "deploy"}, bundle : Bundles, task : {"base", "incremental"},
     manifest : Manifests, baseline : {NoRuntime} \cup RuntimeShapes]

OutcomeCalls ==
    [op : {"publish"}, phase : {"record", "list"}, bundle : Bundles, outcome : {"previewed", "applied"},
     runtime : RuntimeShapes]

MarkCalls ==
    [op : {"create", "update", "publish"}, phase : {"mark"}, bundle : Bundles, route : {Base} \cup Routes,
     outcome : {"pending_publish", "previewed", "applied"}, copies : RouteMaps]

ProbeCalls == [op : {"probe"}, phase : {"probe"}, route : Routes, doc : Docs]

IsCall(q) ==
    \/ q = NoCall \/ q \in EditCalls \/ q \in CheckCalls \/ q \in PlanCalls
    \/ q \in OutcomeCalls \/ q \in MarkCalls \/ q \in ProbeCalls

\* The files of route r in a bundle are for content.
Shows(bundle, r, content) ==
    /\ FilesOf(r, bundle) # {}
    /\ \A f \in FilesOf(r, bundle) :
          bundle[f] \in RouteTexts /\ f.workload = Workload[content] /\ bundle[f].content = content

\* They are what a publication renders for it.
ShowsPublished(bundle, r, content) ==
    /\ FilesOf(r, bundle) # {}
    /\ \A f \in FilesOf(r, bundle) : AsPublished(f, bundle[f], content)

\* What a call names is stored.
CallKept(q) ==
    /\ q \in EditCalls =>
           /\ q.doc.hash = q.bundle
           /\ Shows(q.bundle, q.route, q.doc.content)
           /\ q.phase # "version" => q.bundle \in versions
    /\ q \in PlanCalls =>
           /\ q.phase = "deploy" => q.bundle \in versions
           /\ q.baseline \in RuntimeShapes => q.baseline.hash \in versions
    /\ q \in OutcomeCalls => q.bundle \in versions /\ q.runtime.hash \in versions
    /\ q \in MarkCalls => q.bundle \in versions /\ \A r \in DOMAIN q.copies : q.copies[r].hash \in versions
    /\ q \in ProbeCalls => q.doc.hash \in versions

StateShape ==
    /\ routes \in RouteMaps
    /\ source \in {NoBundle} \cup Bundles
    /\ versions \subseteq Bundles
    /\ patch \in Patches
    /\ runtime \in {NoRuntime} \cup RuntimeShapes
    /\ maps \in Bundles
    /\ daemon \in {NoBundle} \cup Bundles
    /\ \A t \in issued : t.manifest \in Manifests /\ Maps(t.live, Files, Texts \cup {Gone})
    /\ \A r \in DOMAIN routes : routes[r].hash \in versions
    /\ source \in Bundles => source \in versions
    /\ runtime \in RuntimeShapes => runtime.hash \in versions

CallsShape ==
    /\ DOMAIN calls = Callers
    /\ \A c \in Callers : IsCall(calls[c]) /\ CallKept(calls[c])

ShapeInv == StateShape /\ CallsShape

-------------------------------------------------------------------------------
LEMMA BundleIntro ==
    ASSUME NEW D \in SUBSET Files, NEW f \in [D -> Texts]
    PROVE  f \in Bundles /\ DOMAIN f = D
BY DEF Bundles

LEMMA BundleElim ==
    ASSUME NEW f \in Bundles
    PROVE  /\ DOMAIN f \subseteq Files /\ f \in [DOMAIN f -> Texts]
           /\ \A x \in DOMAIN f : f[x] \in Texts
BY DEF Bundles

LEMMA RouteMapIntro ==
    ASSUME NEW D \in SUBSET Routes, NEW f \in [D -> Docs]
    PROVE  f \in RouteMaps /\ DOMAIN f = D
BY DEF RouteMaps

LEMMA RouteMapElim ==
    ASSUME NEW f \in RouteMaps
    PROVE  /\ DOMAIN f \subseteq Routes /\ f \in [DOMAIN f -> Docs]
           /\ \A r \in DOMAIN f : f[r] \in Docs
BY DEF RouteMaps

LEMMA BundleIsNotNone == NoBundle \notin Bundles
BY BundleAssumption DEF Bundles

LEMMA RuntimeIsNotNone == NoRuntime \notin RuntimeShapes
<1>1. NoRuntime.status = "none"
  BY DEF NoRuntime
<1> QED BY <1>1 DEF RuntimeShapes

LEMMA NoCallIsCall ==
    /\ NoCall.op = "none" /\ IsCall(NoCall) /\ CallKept(NoCall) /\ CallKept(NoCall)'
<1>1. NoCall.op = "none"
  BY DEF NoCall
<1>2. /\ NoCall \notin EditCalls /\ NoCall \notin PlanCalls /\ NoCall \notin OutcomeCalls
      /\ NoCall \notin MarkCalls /\ NoCall \notin ProbeCalls
  BY <1>1 DEF EditCalls, PlanCalls, OutcomeCalls, MarkCalls, ProbeCalls
<1> QED BY <1>1, <1>2 DEF IsCall, CallKept

\* What the phase of a call tells.
LEMMA CallsByPhase ==
    ASSUME NEW q, IsCall(q), q # NoCall
    PROVE  /\ q.phase = "version" => q \in EditCalls \/ q \in PlanCalls
           /\ q.phase \in {"source", "route"} => q \in EditCalls
           /\ q.phase = "list" => q \in EditCalls \/ q \in OutcomeCalls
           /\ q.phase = "check" => q \in CheckCalls
           /\ q.phase = "deploy" => q \in PlanCalls
           /\ q.phase = "record" => q \in OutcomeCalls
           /\ q.phase = "mark" => q \in MarkCalls
           /\ q.phase = "probe" => q \in ProbeCalls
BY DEF IsCall, EditCalls, CheckCalls, PlanCalls, OutcomeCalls, MarkCalls, ProbeCalls

\* A call of one kind is of no other.
LEMMA CallKinds ==
    ASSUME NEW q
    PROVE  /\ q \in EditCalls => q \notin PlanCalls \cup OutcomeCalls \cup MarkCalls \cup ProbeCalls
           /\ q \in CheckCalls => q \notin EditCalls \cup PlanCalls \cup OutcomeCalls \cup MarkCalls \cup ProbeCalls
           /\ q \in PlanCalls => q \notin OutcomeCalls \cup MarkCalls \cup ProbeCalls
           /\ q \in OutcomeCalls => q \notin MarkCalls \cup ProbeCalls
           /\ q \in MarkCalls => q \notin ProbeCalls
BY DEF EditCalls, CheckCalls, PlanCalls, OutcomeCalls, MarkCalls, ProbeCalls

LEMMA NowBusy ==
    ASSUME ShapeInv, NEW c \in Callers, NEW q, q = calls[c], q # NoCall
    PROVE  IsCall(q) /\ CallKept(q)
BY DEF ShapeInv, CallsShape

\* One call moves on.
LEMMA CallMovesOn ==
    ASSUME CallsShape, NEW c \in Callers, NEW call, calls' = [calls EXCEPT ![c] = call],
           IsCall(call), CallKept(call)', versions \subseteq versions'
    PROVE  CallsShape'
<1>1. DOMAIN calls' = Callers /\ calls'[c] = call /\ \A d \in Callers \ {c} : calls'[d] = calls[d]
  BY DEF CallsShape
<1>2. ASSUME NEW d \in Callers PROVE IsCall(calls[d])' /\ CallKept(calls[d])'
  <2>1. CASE d = c
    BY <1>1, <2>1 DEF CallKept, IsCall
  <2>2. CASE d # c
    <3>1. PICK q : q = calls[d]
      OBVIOUS
    <3>2. q = calls'[d] /\ IsCall(q) /\ CallKept(q)
      BY <1>1, <2>2, <3>1 DEF CallsShape
    <3>3. CallKept(q)'
      BY <3>2 DEF CallKept
    <3> QED BY <3>2, <3>3 DEF IsCall, CallKept
  <2> QED BY <2>1, <2>2
<1> QED BY <1>1, <1>2 DEF CallsShape

LEMMA CallEndsKeeps ==
    ASSUME CallsShape, NEW c \in Callers, Ends(c), versions \subseteq versions'
    PROVE  CallsShape'
BY CallMovesOn, NoCallIsCall DEF Ends

RenderInputs == [content : Contents, tenant : BOOLEAN]

LEMMA TextOfInput ==
    ASSUME NEW x \in Contents, NEW tenant \in BOOLEAN
    PROVE  /\ Input(x, tenant) \in RenderInputs /\ Input(x, tenant).content = x
           /\ Text(Input(x, tenant)) \in RouteTexts /\ Text(Input(x, tenant)).content = x
BY DEF Input, Text, RenderInputs, RouteTexts

\* A rendered bundle has one file per route, and base.yaml.
LEMMA RenderedBundle ==
    ASSUME NEW D \in SUBSET Routes, NEW inputs \in [D -> RenderInputs], NEW p \in Patches
    PROVE  /\ Render(inputs, p) \in Bundles
           /\ \A r \in D :
                /\ FilesOf(r, Render(inputs, p)) = {FileOf(r, inputs)}
                /\ Render(inputs, p)[FileOf(r, inputs)] = Text(inputs[r])
<1> DEFINE files == { FileOf(r, inputs) : r \in DOMAIN inputs }
           bundle == Render(inputs, p)
<1>0. DOMAIN inputs = D
  OBVIOUS
<1>1. ASSUME NEW r \in D
      PROVE  /\ FileOf(r, inputs) \in RouteFiles /\ FileOf(r, inputs).route = r
             /\ Text(inputs[r]) \in RouteTexts
  <2>1. inputs[r] \in RenderInputs /\ r \in Routes
    OBVIOUS
  <2>2. Text(inputs[r]) \in RouteTexts /\ inputs[r].content \in Contents
    BY <2>1 DEF RenderInputs, Text, RouteTexts
  <2>3. Shared(r, inputs) \in BOOLEAN
    BY DEF Shared
  <2>4. Workload[inputs[r].content] \in {Workload[x] : x \in Contents}
    BY <2>2
  <2>5. PICK w, shared : w = Workload[inputs[r].content] /\ shared = Shared(r, inputs)
    OBVIOUS
  <2>6. FileOf(r, inputs) = [route |-> r, workload |-> w, shared |-> shared]
    BY <2>5 DEF FileOf
  <2>7. w \in {Workload[x] : x \in Contents} /\ shared \in BOOLEAN
    BY <2>3, <2>4, <2>5
  <2> QED BY <2>1, <2>2, <2>6, <2>7 DEF RouteFiles
<1>2. files \subseteq RouteFiles /\ {Base} \cup files \in SUBSET Files
  BY <1>0, <1>1 DEF Files
<1>3. ASSUME NEW f \in {Base} \cup files
      PROVE  (IF f = Base THEN BaseText(inputs, p) ELSE Text(inputs[f.route])) \in Texts
  BY <1>0, <1>1 DEF BaseText, Texts
<1>4. bundle \in [{Base} \cup files -> Texts] /\ DOMAIN bundle = {Base} \cup files
  BY <1>3 DEF Render
<1>5. Base \notin files
  BY <1>2, BundleAssumption
<1>6. ASSUME NEW r \in D
      PROVE  /\ FilesOf(r, bundle) = {FileOf(r, inputs)}
             /\ bundle[FileOf(r, inputs)] = Text(inputs[r])
  <2>1. DOMAIN bundle \ {Base} = files
    BY <1>4, <1>5
  <2>2. { f \in files : f.route = r } = {FileOf(r, inputs)}
    BY <1>0, <1>1
  <2>3. FileOf(r, inputs) \in files /\ FileOf(r, inputs) # Base
    BY <1>0, <1>5
  <2> QED BY <1>1, <2>1, <2>2, <2>3 DEF FilesOf, Render
<1>7. bundle \in Bundles
  BY <1>2, <1>4, BundleIntro
<1> HIDE DEF bundle
<1> QED BY <1>6, <1>7 DEF bundle

\* What a bundle shows of a route.
LEMMA BundleShows ==
    ASSUME NEW D \in SUBSET Routes, NEW inputs \in [D -> RenderInputs], NEW p \in Patches,
           NEW r \in D, NEW x \in Contents, NEW tenant \in BOOLEAN, inputs[r] = Input(x, tenant)
    PROVE  /\ Shows(Render(inputs, p), r, x)
           /\ ~tenant => ShowsPublished(Render(inputs, p), r, x)
<1>1. PICK bundle, file : bundle = Render(inputs, p) /\ file = FileOf(r, inputs)
  OBVIOUS
<1>2. FilesOf(r, bundle) = {file} /\ bundle[file] = Text(Input(x, tenant))
  BY <1>1, RenderedBundle
<1>3. file.workload = Workload[x]
  BY <1>1, TextOfInput DEF FileOf
<1>4. Text(Input(x, tenant)) \in RouteTexts /\ Text(Input(x, tenant)).content = x
  BY TextOfInput
<1>5. Shows(bundle, r, x)
  BY <1>2, <1>3, <1>4 DEF Shows
<1>6. ~tenant => ShowsPublished(bundle, r, x)
  BY <1>2, <1>3 DEF ShowsPublished, AsPublished
<1> QED BY <1>1, <1>5, <1>6

LEMMA PublishedShows ==
    ASSUME NEW bundle, NEW r, NEW x \in Contents, ShowsPublished(bundle, r, x)
    PROVE  Shows(bundle, r, x)
BY TextOfInput DEF Shows, ShowsPublished, AsPublished

LEMMA RestrictedBundle ==
    ASSUME NEW f \in Bundles, NEW S \in SUBSET DOMAIN f
    PROVE  Restrict(f, S) \in Bundles /\ DOMAIN Restrict(f, S) = S /\ \A x \in S : Restrict(f, S)[x] = f[x]
<1>1. Restrict(f, S) \in [S -> Texts] /\ S \in SUBSET Files
  BY BundleElim DEF Restrict
<1> QED BY <1>1, BundleIntro DEF Restrict

LEMMA IdleBundles == Nothing \in Bundles /\ IdleBundle \in Bundles /\ Nothing \in RouteMaps
<1>1. Nothing \in [{} -> Texts] /\ IdleBundle \in [{Base} -> Texts] /\ {Base} \subseteq Files
  BY DEF Nothing, IdleBundle, Texts, Files
<1>2. Nothing \in [{} -> Docs]
  BY DEF Nothing
<1> QED BY <1>1, <1>2, BundleIntro, RouteMapIntro

LEMMA ShapeInit == Init => ShapeInv
<1> SUFFICES ASSUME Init PROVE ShapeInv
  OBVIOUS
<1>1. CallsShape
  BY NoCallIsCall DEF Init, CallsShape
<1>2. routes \in RouteMaps /\ DOMAIN routes = {} /\ source = NoBundle /\ patch \in Patches /\ issued = {}
  BY IdleBundles DEF Init, Nothing
<1>3. CASE StartsBare
  BY <1>1, <1>2, <1>3, IdleBundles, RuntimeIsNotNone, BundleIsNotNone DEF StartsBare, StateShape, ShapeInv
<1>4. CASE StartsInstalled
  <2>1. runtime \in RuntimeShapes /\ runtime.hash = IdleBundle
    BY <1>4, IdleBundles DEF StartsInstalled, RuntimeShapes
  <2>2. StateShape
    BY <1>2, <1>4, <2>1, IdleBundles, BundleIsNotNone DEF StartsInstalled, StateShape
  <2> QED BY <1>1, <2>2 DEF ShapeInv
<1> QED BY <1>3, <1>4 DEF Init

\* The route of an edit as it will be.
LEMMA EditShape ==
    ASSUME StateShape, NEW r \in Routes, NEW x \in Contents, NEW bundle,
           bundle = Render(InputsWith(r, x), patch)
    PROVE  bundle \in Bundles /\ Shows(bundle, r, x)
<1>1. DOMAIN routes \subseteq Routes /\ \A s \in DOMAIN routes : routes[s] \in Docs
  BY RouteMapElim DEF StateShape
<1>2. PICK D : D = DOMAIN routes \cup {r}
  OBVIOUS
<1>3. PICK inputs : inputs = InputsWith(r, x)
  OBVIOUS
<1>4. \A s \in DOMAIN routes : routes[s].content \in Contents
  BY <1>1 DEF Docs
<1>5. inputs \in [D -> RenderInputs] /\ inputs[r] = Input(x, TRUE)
  BY <1>2, <1>3, <1>4, TextOfInput DEF InputsWith
<1>6. D \in SUBSET Routes /\ r \in D /\ patch \in Patches
  BY <1>1, <1>2 DEF StateShape
<1>7. bundle \in Bundles
  BY <1>3, <1>5, <1>6, RenderedBundle
<1>8. Shows(Render(inputs, patch), r, x)
  BY <1>5, <1>6, BundleShows
<1> QED BY <1>3, <1>7, <1>8

\* The routes as they are.
LEMMA InputShape ==
    ASSUME StateShape, NEW bundle, bundle = Render(Inputs, patch)
    PROVE  /\ bundle \in Bundles
           /\ \A s \in DOMAIN routes : ShowsPublished(bundle, s, routes[s].content)
<1>1. DOMAIN routes \subseteq Routes /\ \A s \in DOMAIN routes : routes[s] \in Docs
  BY RouteMapElim DEF StateShape
<1>2. PICK inputs : inputs = Inputs
  OBVIOUS
<1>3. \A s \in DOMAIN routes : routes[s].content \in Contents
  BY <1>1 DEF Docs
<1>4. /\ inputs \in [DOMAIN routes -> RenderInputs]
      /\ \A s \in DOMAIN routes : inputs[s] = Input(routes[s].content, FALSE)
  BY <1>2, <1>3, TextOfInput DEF Inputs
<1>5. DOMAIN routes \in SUBSET Routes /\ patch \in Patches
  BY <1>1 DEF StateShape
<1>6. bundle \in Bundles
  BY <1>2, <1>4, <1>5, RenderedBundle
<1>7. ASSUME NEW s \in DOMAIN routes PROVE ShowsPublished(bundle, s, routes[s].content)
  <2>1. ShowsPublished(Render(inputs, patch), s, routes[s].content)
    BY <1>3, <1>4, <1>5, BundleShows
  <2> QED BY <1>2, <2>1
<1> QED BY <1>6, <1>7

LEMMA EditCallShape ==
    ASSUME NEW op \in {"create", "update"}, NEW r \in Routes, NEW x \in Contents, NEW bundle \in Bundles,
           NEW state \in States, Shows(bundle, r, x),
           NEW call, call = Edit(op, r, [content |-> x, hash |-> bundle, publish |-> state], bundle)
    PROVE  /\ IsCall(call) /\ CallKept(call) /\ CallKept(call)' /\ call \in EditCalls
           /\ call.op = op /\ call.phase = "version" /\ call.route = r /\ call.bundle = bundle
           /\ call.doc.content = x /\ call.doc.hash = bundle /\ call.doc.publish = state
<1>1. PICK doc : doc = [content |-> x, hash |-> bundle, publish |-> state]
  OBVIOUS
<1>2. doc \in Docs /\ doc.content = x /\ doc.hash = bundle /\ doc.publish = state
  BY <1>1 DEF Docs
<1>3. /\ call \in EditCalls
      /\ call.op = op /\ call.phase = "version" /\ call.route = r /\ call.bundle = bundle
      /\ call.doc = doc
  BY <1>1, <1>2 DEF Edit, EditCalls
<1>4. call \notin PlanCalls \cup OutcomeCalls \cup MarkCalls \cup ProbeCalls
  BY <1>3, CallKinds
<1> QED BY <1>2, <1>3, <1>4 DEF IsCall, CallKept

\* What an edit begins with: its document names the bundle that has its content.
EditBegun(c, r, x, call, bundle) ==
    /\ Begins(c, call) /\ call \in EditCalls /\ CallKept(call) /\ CallKept(call)'
    /\ call.phase = "version" /\ call.route = r /\ call.doc.content = x /\ call.bundle = bundle
    /\ bundle = Render(InputsWith(r, x), patch)
    /\ \/ call.op = "create" /\ call.doc.publish = "" /\ CreateReads(c, r, x)
       \/ /\ call.op = "update" /\ UpdateReads(c, r, x)
          /\ call.doc.publish = StateAfterUpdate(routes[r], bundle)
    /\ UNCHANGED <<documents, clusterVars, serial, latest, raced, orderly>>

LEMMA EditBegins ==
    ASSUME ShapeInv, NEW c \in Callers, NEW r \in Routes, NEW x \in Contents,
           CreateReads(c, r, x) \/ UpdateReads(c, r, x)
    PROVE  \E call, bundle : EditBegun(c, r, x, call, bundle)
<1>1. PICK bundle : bundle = Render(InputsWith(r, x), patch)
  OBVIOUS
<1>2. bundle \in Bundles /\ Shows(bundle, r, x)
  <2>1. StateShape
    BY DEF ShapeInv
  <2> QED BY <1>1, <2>1, EditShape
<1>3. CASE CreateReads(c, r, x)
  <2>2. PICK state \in States, op \in {"create", "update"} : state = "" /\ op = "create"
    BY DEF States
  <2>1. PICK call : call = Edit(op, r, [content |-> x, hash |-> bundle, publish |-> state], bundle)
    OBVIOUS
  <2>3. Begins(c, call) /\ UNCHANGED <<documents, clusterVars, serial, latest, raced, orderly>>
    BY <1>1, <1>3, <2>1, <2>2 DEF CreateReads, history
  <2>4. /\ call \in EditCalls /\ CallKept(call) /\ CallKept(call)'
        /\ call.phase = "version" /\ call.route = r /\ call.doc.content = x /\ call.bundle = bundle
        /\ call.op = op /\ call.doc.publish = state
    BY <1>2, <2>1, EditCallShape
  <2> QED BY <1>1, <1>3, <2>2, <2>3, <2>4 DEF EditBegun
<1>4. CASE UpdateReads(c, r, x)
  <2>1. PICK state : state = StateAfterUpdate(routes[r], bundle)
    OBVIOUS
  <2>2. state \in States
    <3>1. routes[r] \in Docs
      BY <1>4, RouteMapElim DEF UpdateReads, ShapeInv, StateShape
    <3> QED BY <2>1, <3>1 DEF StateAfterUpdate, Docs, States, EditBegun
  <2>3. PICK call : call = Edit("update", r, [content |-> x, hash |-> bundle, publish |-> state], bundle)
    OBVIOUS
  <2>4. Begins(c, call) /\ UNCHANGED <<documents, clusterVars, serial, latest, raced, orderly>>
    BY <1>1, <1>4, <2>1, <2>3 DEF UpdateReads, history
  <2>5. /\ call \in EditCalls /\ CallKept(call) /\ CallKept(call)'
        /\ call.phase = "version" /\ call.route = r /\ call.doc.content = x /\ call.bundle = bundle
        /\ call.op = "update" /\ call.doc.publish = StateAfterUpdate(routes[r], bundle)
    BY <1>2, <2>1, <2>2, <2>3, EditCallShape
  <2> QED BY <1>1, <1>4, <2>4, <2>5 DEF EditBegun
<1> QED BY <1>3, <1>4

LEMMA EditBeginsShape ==
    ASSUME ShapeInv, NEW c \in Callers, NEW r \in Routes, NEW x \in Contents,
           CreateReads(c, r, x) \/ UpdateReads(c, r, x)
    PROVE  ShapeInv'
<1>1. PICK call : /\ Begins(c, call) /\ call \in EditCalls /\ CallKept(call)'
                  /\ UNCHANGED <<documents, clusterVars>>
  BY EditBegins DEF EditBegun
<1>2. CallsShape'
  BY <1>1, CallMovesOn DEF Begins, IsCall, ShapeInv, documents
<1> QED BY <1>1, <1>2 DEF ShapeInv, StateShape, documents, clusterVars

\* An edit is the same in another phase.
SameEdit(q, call) ==
    /\ q \in EditCalls /\ call \in EditCalls
    /\ call.op = q.op /\ call.route = q.route /\ call.doc = q.doc /\ call.bundle = q.bundle

LEMMA EditGoesOn ==
    ASSUME NEW q \in EditCalls, NEW phase \in {"version", "source", "route", "list"}, NEW call,
           call = [q EXCEPT !.phase = phase]
    PROVE  SameEdit(q, call) /\ call.phase = phase
BY DEF EditCalls, SameEdit

StoreVersionDone(c, q, call) ==
    /\ q = calls[c] /\ q # NoCall /\ q.phase = "version"
    /\ calls' = [calls EXCEPT ![c] = call] /\ versions' = versions \cup {q.bundle}
    /\ UNCHANGED <<routes, source, patch, runtime, clusterVars, serial, history>>
    /\ \/ SameEdit(q, call) /\ call.phase = "source"
       \/ /\ q \in PlanCalls /\ call \in PlanCalls /\ call.phase = "deploy"
          /\ call.bundle = q.bundle /\ call.task = q.task
          /\ call.manifest = q.manifest /\ call.baseline = q.baseline

LEMMA StoreVersionDoes ==
    ASSUME ShapeInv, NEW c \in Callers, StoreVersion(c)
    PROVE  \E q, call : StoreVersionDone(c, q, call)
<1>1. PICK q : q = calls[c]
  OBVIOUS
<1>2. /\ q # NoCall /\ q.phase = "version" /\ versions' = versions \cup {q.bundle}
      /\ UNCHANGED <<routes, source, patch, runtime, clusterVars, serial, history>>
  BY <1>1 DEF StoreVersion, Busy
<1>3. IsCall(q) /\ CallKept(q) /\ (q \in EditCalls \/ q \in PlanCalls)
  BY <1>1, <1>2, NowBusy, CallsByPhase
<1>4. PICK call : /\ call = [q EXCEPT !.phase = IF q.op = "publish" THEN "deploy" ELSE "source"]
                  /\ calls' = [calls EXCEPT ![c] = call]
  BY <1>1 DEF StoreVersion
<1>5. CASE q \in EditCalls
  <2>1. q.op # "publish"
    BY <1>5 DEF EditCalls
  <2>2. PICK phase \in {"version", "source", "route", "list"} : phase = "source"
    OBVIOUS
  <2>3. call = [q EXCEPT !.phase = phase]
    BY <1>4, <2>1, <2>2
  <2>4. SameEdit(q, call) /\ call.phase = "source"
    BY <1>5, <2>2, <2>3, EditGoesOn
  <2> QED BY <1>1, <1>2, <1>4, <2>4 DEF StoreVersionDone
<1>6. CASE q \in PlanCalls
  <2>1. q.op = "publish"
    BY <1>6 DEF PlanCalls
  <2>2. call = [q EXCEPT !.phase = "deploy"]
    BY <1>4, <2>1
  <2>3. /\ call \in PlanCalls /\ call.phase = "deploy" /\ call.bundle = q.bundle /\ call.task = q.task
        /\ call.manifest = q.manifest /\ call.baseline = q.baseline
    BY <1>6, <2>2 DEF PlanCalls
  <2> QED BY <1>1, <1>2, <1>4, <1>6, <2>3, ZenonT(60) DEF StoreVersionDone
<1> QED BY <1>3, <1>5, <1>6

LEMMA StoreVersionShape ==
    ASSUME ShapeInv, NEW c \in Callers, StoreVersion(c)
    PROVE  ShapeInv'
<1>1. PICK q, call :
         /\ q = calls[c] /\ q # NoCall
         /\ calls' = [calls EXCEPT ![c] = call] /\ versions' = versions \cup {q.bundle}
         /\ UNCHANGED <<routes, source, patch, runtime, clusterVars>>
         /\ \/ SameEdit(q, call) /\ call.phase = "source"
            \/ /\ q \in PlanCalls /\ call \in PlanCalls
               /\ call.bundle = q.bundle /\ call.baseline = q.baseline
  BY StoreVersionDoes DEF StoreVersionDone
<1>2. IsCall(q) /\ CallKept(q)
  BY <1>1, NowBusy
<1>3. CallKept(call)' /\ IsCall(call)
  <2>1. CASE SameEdit(q, call)
    BY <1>1, <1>2, <2>1, CallKinds DEF CallKept, IsCall, SameEdit
  <2>2. CASE q \in PlanCalls /\ call \in PlanCalls /\ call.bundle = q.bundle /\ call.baseline = q.baseline
    BY <1>1, <1>2, <2>2, CallKinds DEF CallKept, IsCall
  <2> QED BY <1>1, <2>1, <2>2
<1>4. q.bundle \in Bundles
  BY <1>1 DEF SameEdit, EditCalls, PlanCalls
<1>5. CallsShape'
  BY <1>1, <1>3, CallMovesOn DEF ShapeInv
<1> QED BY <1>1, <1>4, <1>5 DEF ShapeInv, StateShape, clusterVars

StoreSourceDone(c, q, call) ==
    /\ q = calls[c] /\ q # NoCall /\ q.phase = "source" /\ SameEdit(q, call) /\ call.phase = "route"
    /\ calls' = [calls EXCEPT ![c] = call] /\ source' = q.bundle
    /\ UNCHANGED <<routes, versions, patch, runtime, clusterVars, serial, history>>

LEMMA StoreSourceDoes ==
    ASSUME ShapeInv, NEW c \in Callers, StoreSource(c)
    PROVE  \E q, call : StoreSourceDone(c, q, call)
<1>1. PICK q : q = calls[c]
  OBVIOUS
<1>2. /\ q # NoCall /\ q.phase = "source" /\ source' = q.bundle
      /\ UNCHANGED <<routes, versions, patch, runtime, clusterVars, serial, history>>
  BY <1>1 DEF StoreSource, Busy
<1>3. q \in EditCalls
  BY <1>1, <1>2, NowBusy, CallsByPhase
<1>4. PICK phase \in {"version", "source", "route", "list"} : phase = "route"
  OBVIOUS
<1>5. PICK call : call = [q EXCEPT !.phase = phase] /\ calls' = [calls EXCEPT ![c] = call]
  BY <1>1, <1>4 DEF StoreSource
<1>6. SameEdit(q, call) /\ call.phase = "route"
  BY <1>3, <1>4, <1>5, EditGoesOn
<1> QED BY <1>1, <1>2, <1>5, <1>6 DEF StoreSourceDone

LEMMA StoreSourceShape ==
    ASSUME ShapeInv, NEW c \in Callers, StoreSource(c)
    PROVE  ShapeInv'
<1>1. PICK q, call :
         /\ q = calls[c] /\ q # NoCall /\ q.phase = "source" /\ SameEdit(q, call)
         /\ calls' = [calls EXCEPT ![c] = call] /\ source' = q.bundle
         /\ UNCHANGED <<routes, versions, patch, runtime, clusterVars>>
  BY StoreSourceDoes DEF StoreSourceDone
<1>2. CallKept(q)
  BY <1>1, NowBusy
<1>3. CallKept(call)' /\ IsCall(call) /\ q.bundle \in versions /\ q.bundle \in Bundles
  BY <1>1, <1>2, CallKinds DEF CallKept, IsCall, SameEdit, EditCalls
<1>4. CallsShape'
  BY <1>1, <1>3, CallMovesOn DEF ShapeInv
<1> QED BY <1>1, <1>3, <1>4 DEF ShapeInv, StateShape, clusterVars

\* A document is written into the routes.
LEMMA RoutesWith ==
    ASSUME NEW f \in RouteMaps, NEW r \in Routes, NEW doc \in Docs, NEW result,
           result = [x \in DOMAIN f \cup {r} |-> IF x = r THEN doc ELSE f[x]]
    PROVE  /\ result \in RouteMaps /\ DOMAIN result = DOMAIN f \cup {r}
           /\ result[r] = doc /\ \A x \in DOMAIN f \ {r} : result[x] = f[x]
<1>1. DOMAIN f \cup {r} \in SUBSET Routes /\ result \in [DOMAIN f \cup {r} -> Docs]
  BY RouteMapElim
<1> QED BY <1>1, RouteMapIntro

LEMMA RoutesWithout ==
    ASSUME NEW f \in RouteMaps, NEW S \in SUBSET DOMAIN f
    PROVE  /\ Restrict(f, S) \in RouteMaps /\ DOMAIN Restrict(f, S) = S
           /\ \A x \in S : Restrict(f, S)[x] = f[x]
<1>1. S \in SUBSET Routes /\ Restrict(f, S) \in [S -> Docs]
  BY RouteMapElim DEF Restrict
<1> QED BY <1>1, RouteMapIntro DEF Restrict

\* What storing, marking and probing do to the routes, once and for all.
LEMMA RouteStored ==
    ASSUME StateShape, NEW r \in Routes, NEW doc \in Docs, doc.hash \in versions,
           \/ routes' = [x \in DOMAIN routes \cup {r} |-> IF x = r THEN doc ELSE routes[x]]
           \/ r \in DOMAIN routes /\ routes' = [routes EXCEPT ![r] = doc],
           UNCHANGED <<source, versions, patch, runtime, clusterVars>>
    PROVE  /\ StateShape' /\ DOMAIN routes' = DOMAIN routes \cup {r}
           /\ routes'[r] = doc /\ \A x \in DOMAIN routes \ {r} : routes'[x] = routes[x]
<1>1. routes \in RouteMaps
  BY DEF StateShape
<1>2. routes' = [x \in DOMAIN routes \cup {r} |-> IF x = r THEN doc ELSE routes[x]]
  <2>1. CASE r \in DOMAIN routes /\ routes' = [routes EXCEPT ![r] = doc]
    BY <1>1, <2>1, RouteMapElim
  <2> QED BY <2>1
<1>3. /\ routes' \in RouteMaps /\ DOMAIN routes' = DOMAIN routes \cup {r}
      /\ routes'[r] = doc /\ \A x \in DOMAIN routes \ {r} : routes'[x] = routes[x]
  BY <1>1, <1>2, RoutesWith
<1>4. \A x \in DOMAIN routes' : routes'[x].hash \in versions
  BY <1>3 DEF StateShape
<1> QED BY <1>3, <1>4 DEF StateShape, clusterVars

\* The store keeps the new document of a route, or does not find the route any more.
StoreRouteDone(c, q, call) ==
    /\ q = calls[c] /\ q # NoCall /\ q.phase = "route" /\ q \in EditCalls
    /\ calls' = [calls EXCEPT ![c] = call]
    /\ UNCHANGED <<source, versions, patch, runtime, clusterVars, serial, orderly>>
    /\ \/ /\ q.op = "update" /\ q.route \notin DOMAIN routes /\ call = NoCall
          /\ UNCHANGED <<routes, latest, raced>>
       \/ /\ q.op = "update" => q.route \in DOMAIN routes
          /\ SameEdit(q, call) /\ call.phase = "list"
          /\ routes' = [x \in DOMAIN routes \cup {q.route} |->
                           IF x = q.route THEN q.doc ELSE routes[x]]
          /\ latest' = [x \in DOMAIN latest \cup {q.route} |->
                           IF x = q.route THEN q.doc.content ELSE latest[x]]
          /\ raced' = raced \cup ({q.route} \cap HeldByOthers(c))

LEMMA StoreRouteDoes ==
    ASSUME ShapeInv, NEW c \in Callers, StoreRoute(c)
    PROVE  \E q, call : StoreRouteDone(c, q, call)
<1>1. PICK q : q = calls[c]
  OBVIOUS
<1>2. /\ q # NoCall /\ q.phase = "route"
      /\ UNCHANGED <<source, versions, patch, runtime, clusterVars, serial, orderly>>
  BY <1>1 DEF StoreRoute, Busy
<1>3. q \in EditCalls
  BY <1>1, <1>2, NowBusy, CallsByPhase
<1>4. CASE q.op = "update" /\ q.route \notin DOMAIN routes
  BY <1>1, <1>2, <1>3, <1>4 DEF StoreRoute, Ends, StoreRouteDone
<1>5. CASE ~(q.op = "update" /\ q.route \notin DOMAIN routes)
  <2>1. PICK phase \in {"version", "source", "route", "list"} : phase = "list"
    OBVIOUS
  <2>2. PICK call : call = [q EXCEPT !.phase = phase]
    OBVIOUS
  <2>3. calls' = [calls EXCEPT ![c] = call]
    BY <1>1, <1>5, <2>1, <2>2 DEF StoreRoute
  <2>4. SameEdit(q, call) /\ call.phase = "list"
    BY <1>3, <2>1, <2>2, EditGoesOn
  <2>5. /\ routes' = [x \in DOMAIN routes \cup {q.route} |->
                         IF x = q.route THEN q.doc ELSE routes[x]]
        /\ latest' = [x \in DOMAIN latest \cup {q.route} |->
                         IF x = q.route THEN q.doc.content ELSE latest[x]]
        /\ raced' = raced \cup ({q.route} \cap HeldByOthers(c))
    BY <1>1, <1>5 DEF StoreRoute
  <2> QED BY <1>1, <1>2, <1>3, <1>5, <2>3, <2>4, <2>5 DEF StoreRouteDone
<1> QED BY <1>4, <1>5

LEMMA StoreRouteShape ==
    ASSUME ShapeInv, NEW c \in Callers, StoreRoute(c)
    PROVE  ShapeInv'
<1>1. PICK q, call : StoreRouteDone(c, q, call)
  BY StoreRouteDoes
<1>7. StateShape /\ q # NoCall /\ q = calls[c] /\ q \in EditCalls
  BY <1>1 DEF ShapeInv, StoreRouteDone
<1>8. UNCHANGED <<source, versions, patch, runtime, clusterVars>>
  BY <1>1 DEF StoreRouteDone
<1>2. CallKept(q)
  BY <1>7, NowBusy
<1>3. q.doc.hash \in versions /\ q.route \in Routes /\ q.doc \in Docs
  BY <1>1, <1>2, <1>7 DEF CallKept, EditCalls, StoreRouteDone
<1>4. StateShape'
  <2>1. CASE UNCHANGED routes
    BY <1>7, <1>8, <2>1 DEF StateShape, clusterVars
  <2>2. CASE routes' = [x \in DOMAIN routes \cup {q.route} |-> IF x = q.route THEN q.doc ELSE routes[x]]
    BY <1>3, <1>7, <1>8, <2>2, RouteStored
  <2> QED BY <1>1, <2>1, <2>2 DEF StoreRouteDone
<1>5. CallKept(call)' /\ IsCall(call)
  <2>1. CASE SameEdit(q, call)
    BY <1>1, <1>2, <2>1, CallKinds DEF CallKept, IsCall, SameEdit, StoreRouteDone
  <2> QED BY <1>1, <2>1, NoCallIsCall DEF StoreRouteDone
<1>6. CallsShape'
  BY <1>1, <1>5, CallMovesOn DEF ShapeInv, StoreRouteDone
<1> QED BY <1>4, <1>6 DEF ShapeInv

-------------------------------------------------------------------------------
\* Marking the routes.
ListRoutesDone(c, q, call) ==
    /\ q = calls[c] /\ q # NoCall /\ q.phase = "list"
    /\ calls' = [calls EXCEPT ![c] = call]
    /\ UNCHANGED <<documents, clusterVars, serial, history>>
    /\ call \in MarkCalls /\ call.op = q.op /\ call.bundle = q.bundle /\ call.copies = routes
    /\ \/ q \in EditCalls /\ call.route = q.route /\ call.outcome = "pending_publish"
       \/ q \in OutcomeCalls /\ call.outcome = q.outcome

LEMMA ListRoutesDoes ==
    ASSUME ShapeInv, NEW c \in Callers, ListRoutes(c)
    PROVE  \E q, call : ListRoutesDone(c, q, call)
<1>1. PICK q : q = calls[c]
  OBVIOUS
<1>2. /\ q # NoCall /\ q.phase = "list" /\ UNCHANGED <<documents, clusterVars, serial, history>>
  BY <1>1 DEF ListRoutes, Busy
<1>3. q \in EditCalls \/ q \in OutcomeCalls
  BY <1>1, <1>2, NowBusy, CallsByPhase
<1>4. PICK route, outcome, call :
         /\ route = IF q.op = "publish" THEN Base ELSE q.route
         /\ outcome = IF q.op = "publish" THEN q.outcome ELSE "pending_publish"
         /\ call = [op |-> q.op, phase |-> "mark", bundle |-> q.bundle, route |-> route,
                    outcome |-> outcome, copies |-> routes]
         /\ calls' = [calls EXCEPT ![c] = call]
  BY <1>1 DEF ListRoutes
<1>5. routes \in RouteMaps
  BY DEF ShapeInv, StateShape
<1>6. CASE q \in EditCalls
  <2>1. q.op \in {"create", "update"} /\ q.route \in Routes /\ q.bundle \in Bundles
    BY <1>6 DEF EditCalls
  <2>2. route = q.route /\ outcome = "pending_publish"
    BY <1>4, <2>1
  <2>3. /\ call \in MarkCalls /\ call.op = q.op /\ call.bundle = q.bundle /\ call.copies = routes
        /\ call.route = q.route /\ call.outcome = "pending_publish"
    BY <1>4, <1>5, <2>1, <2>2 DEF MarkCalls
  <2> QED BY <1>1, <1>2, <1>4, <1>6, <2>3 DEF ListRoutesDone
<1>7. CASE q \in OutcomeCalls
  <2>1. q.op = "publish" /\ q.bundle \in Bundles /\ q.outcome \in {"previewed", "applied"}
    BY <1>7 DEF OutcomeCalls
  <2>2. route = Base /\ outcome = q.outcome
    BY <1>4, <2>1
  <2>3. /\ call \in MarkCalls /\ call.op = q.op /\ call.bundle = q.bundle /\ call.copies = routes
        /\ call.outcome = q.outcome
    BY <1>4, <1>5, <2>1, <2>2 DEF MarkCalls
  <2> QED BY <1>1, <1>2, <1>4, <1>7, <2>3 DEF ListRoutesDone
<1> QED BY <1>3, <1>6, <1>7

LEMMA ListRoutesShape ==
    ASSUME ShapeInv, NEW c \in Callers, ListRoutes(c)
    PROVE  ShapeInv'
<1>1. PICK q, call :
         /\ q = calls[c] /\ q # NoCall /\ q.phase = "list"
         /\ calls' = [calls EXCEPT ![c] = call]
         /\ UNCHANGED <<routes, source, versions, patch, runtime, clusterVars>>
         /\ call \in MarkCalls /\ call.bundle = q.bundle /\ call.copies = routes
         /\ q \in EditCalls \/ q \in OutcomeCalls
  BY ListRoutesDoes DEF ListRoutesDone, documents
<1>2. CallKept(q)
  BY <1>1, NowBusy
<1>3. q.bundle \in versions
  BY <1>1, <1>2 DEF CallKept
<1>4. \A r \in DOMAIN routes : routes[r].hash \in versions
  BY DEF ShapeInv, StateShape
<1>5. CallKept(call)' /\ IsCall(call)
  BY <1>1, <1>3, <1>4, CallKinds DEF CallKept, IsCall
<1>6. CallsShape'
  BY <1>1, <1>5, CallMovesOn DEF ShapeInv
<1> QED BY <1>1, <1>6 DEF ShapeInv, StateShape, clusterVars

\* The document a marking writes.
LEMMA MarkedDoc ==
    ASSUME NEW q \in MarkCalls, NEW r \in DOMAIN q.copies, NEW doc, doc = Marked(q, r)
    PROVE  /\ r \in Routes /\ q.copies[r] \in Docs /\ doc \in Docs
           /\ doc.content = q.copies[r].content /\ doc.hash = q.bundle
           /\ doc.publish = IF q.op = "publish" \/ r = q.route
                               \/ q.copies[r].publish \notin {"", "pending_publish"}
                            THEN q.outcome ELSE q.copies[r].publish
<1>1. q.copies \in RouteMaps /\ q.bundle \in Bundles /\ q.outcome \in States
  BY DEF MarkCalls, States
<1>2. r \in Routes /\ q.copies[r] \in Docs
  BY <1>1, RouteMapElim
<1>3. PICK copy \in Docs : copy = q.copies[r]
  BY <1>2
<1>4. PICK state : state = IF q.op = "publish" \/ r = q.route \/ copy.publish \notin {"", "pending_publish"}
                           THEN q.outcome ELSE copy.publish
  OBVIOUS
<1>5. state \in States
  BY <1>1, <1>4 DEF Docs
<1>6. doc = [copy EXCEPT !.hash = q.bundle, !.publish = state]
  BY <1>3, <1>4 DEF Marked, Docs
<1>7. doc \in Docs /\ doc.content = copy.content /\ doc.hash = q.bundle /\ doc.publish = state
  BY <1>1, <1>5, <1>6 DEF Docs
<1> QED BY <1>2, <1>3, <1>4, <1>7

MarkRouteDone(c, q, call, r, doc) ==
    /\ q = calls[c] /\ q # NoCall /\ q.phase = "mark" /\ q \in MarkCalls
    /\ r \in DOMAIN q.copies /\ r \in Routes /\ doc = Marked(q, r)
    /\ calls' = [calls EXCEPT ![c] = call]
    /\ UNCHANGED <<source, versions, patch, runtime, clusterVars, serial, history>>
    /\ \/ r \notin DOMAIN routes /\ call = NoCall /\ UNCHANGED routes
       \/ /\ r \in DOMAIN routes /\ routes' = [routes EXCEPT ![r] = doc]
          /\ call \in MarkCalls /\ call.op = q.op /\ call.bundle = q.bundle
          /\ call.outcome = q.outcome /\ call.route = q.route
          /\ DOMAIN call.copies = DOMAIN q.copies \ {r}
          /\ \A x \in DOMAIN call.copies : call.copies[x] = q.copies[x]

LEMMA MarkRouteDoes ==
    ASSUME ShapeInv, NEW c \in Callers, MarkRoute(c)
    PROVE  \E q, call, r, doc : MarkRouteDone(c, q, call, r, doc)
<1>1. PICK q : q = calls[c]
  OBVIOUS
<1>2. /\ q # NoCall /\ q.phase = "mark"
      /\ UNCHANGED <<source, versions, patch, runtime, clusterVars, serial, history>>
  BY <1>1 DEF MarkRoute, Busy
<1>3. q \in MarkCalls
  BY <1>1, <1>2, NowBusy, CallsByPhase
<1>4. PICK r \in DOMAIN q.copies :
         IF r \notin DOMAIN routes
         THEN Ends(c) /\ UNCHANGED routes
         ELSE /\ routes' = [routes EXCEPT ![r] = Marked(q, r)]
              /\ calls' = [calls EXCEPT ![c].copies = Restrict(@, DOMAIN @ \ {r})]
  BY <1>1 DEF MarkRoute
<1>5. PICK doc : doc = Marked(q, r)
  OBVIOUS
<1>6. r \in Routes
  BY <1>3, <1>5, MarkedDoc
<1>7. CASE r \notin DOMAIN routes
  BY <1>1, <1>2, <1>3, <1>4, <1>5, <1>6, <1>7 DEF Ends, MarkRouteDone
<1>8. CASE r \in DOMAIN routes
  <2>1. PICK S : S = DOMAIN q.copies \ {r}
    OBVIOUS
  <2>2. PICK rest : rest = Restrict(q.copies, S)
    OBVIOUS
  <2>3. /\ rest \in RouteMaps /\ DOMAIN rest = DOMAIN q.copies \ {r}
        /\ \A x \in DOMAIN rest : rest[x] = q.copies[x]
    BY <1>3, <2>1, <2>2, RoutesWithout DEF MarkCalls
  <2>4. PICK call : call = [q EXCEPT !.copies = rest]
    OBVIOUS
  <2>5. call \in MarkCalls /\ call.op = q.op /\ call.bundle = q.bundle /\ call.outcome = q.outcome
        /\ call.route = q.route /\ call.copies = rest
    BY <1>3, <2>3, <2>4 DEF MarkCalls
  <2>6. calls' = [calls EXCEPT ![c] = call]
    BY <1>1, <1>4, <1>8, <2>1, <2>2, <2>4
  <2>7. routes' = [routes EXCEPT ![r] = doc]
    BY <1>4, <1>5, <1>8
  <2>8. r \in DOMAIN q.copies /\ doc = Marked(q, r)
    BY <1>4, <1>5
  <2>9. MarkRouteDone(c, q, call, r, doc)
    BY <1>1, <1>2, <1>3, <1>6, <1>8, <2>3, <2>5, <2>6, <2>7, <2>8 DEF MarkRouteDone
  <2> QED BY <2>9
<1> QED BY <1>7, <1>8

LEMMA MarkRouteShape ==
    ASSUME ShapeInv, NEW c \in Callers, MarkRoute(c)
    PROVE  ShapeInv'
<1>1. PICK q, call, r, doc : MarkRouteDone(c, q, call, r, doc)
  BY MarkRouteDoes
<1>2. /\ StateShape /\ CallsShape /\ q = calls[c] /\ q # NoCall /\ q \in MarkCalls /\ r \in DOMAIN q.copies
      /\ doc = Marked(q, r) /\ calls' = [calls EXCEPT ![c] = call]
      /\ UNCHANGED <<source, versions, patch, runtime, clusterVars>>
  BY <1>1 DEF ShapeInv, MarkRouteDone
<1>3. CallKept(q)
  BY <1>2, NowBusy
<1>4. q.bundle \in versions /\ \A x \in DOMAIN q.copies : q.copies[x].hash \in versions
  BY <1>2, <1>3 DEF CallKept
<1>5. r \in Routes /\ doc \in Docs /\ doc.hash = q.bundle
  <2>1. q \in MarkCalls /\ r \in DOMAIN q.copies /\ doc = Marked(q, r)
    BY <1>2
  <2> QED BY <2>1, MarkedDoc
<1>6. CASE call = NoCall /\ UNCHANGED routes
  <2>1. CallsShape'
    BY <1>2, <1>6, NoCallIsCall, CallMovesOn
  <2> QED BY <1>2, <1>6, <2>1 DEF ShapeInv, StateShape, clusterVars
<1>7. CASE /\ r \in DOMAIN routes /\ routes' = [routes EXCEPT ![r] = doc]
           /\ call \in MarkCalls /\ call.bundle = q.bundle
           /\ DOMAIN call.copies = DOMAIN q.copies \ {r}
           /\ \A x \in DOMAIN call.copies : call.copies[x] = q.copies[x]
  <2>1. CallKept(call)' /\ IsCall(call)
    BY <1>2, <1>4, <1>7, CallKinds DEF CallKept, IsCall
  <2>2. CallsShape'
    BY <1>2, <2>1, CallMovesOn
  <2>3. doc.hash \in versions
    BY <1>4, <1>5
  <2>4. StateShape'
    BY <1>2, <1>5, <1>7, <2>3, RouteStored
  <2> QED BY <2>2, <2>4 DEF ShapeInv
<1> QED BY <1>1, <1>6, <1>7 DEF MarkRouteDone

LEMMA MarkingEndsShape ==
    ASSUME ShapeInv, NEW c \in Callers, MarkingEnds(c)
    PROVE  ShapeInv'
<1>1. Ends(c) /\ UNCHANGED <<documents, clusterVars>>
  BY DEF MarkingEnds
<1>2. CallsShape'
  BY <1>1, CallEndsKeeps DEF ShapeInv, documents
<1> QED BY <1>1, <1>2 DEF ShapeInv, StateShape, documents, clusterVars

-------------------------------------------------------------------------------
\* Probing, deleting, configuring, uninstalling.
ProbeReadsDone(c, r, call) ==
    /\ r \in DOMAIN routes /\ Begins(c, call) /\ call \in ProbeCalls /\ call # NoCall
    /\ call.phase = "probe" /\ call.op = "probe" /\ call.route = r /\ call.doc = routes[r]
    /\ UNCHANGED <<documents, clusterVars, serial, history>>

LEMMA ProbeReadsDoes ==
    ASSUME ShapeInv, NEW c \in Callers, NEW r \in Routes, ProbeReads(c, r)
    PROVE  \E call : ProbeReadsDone(c, r, call)
<1>1. r \in DOMAIN routes /\ UNCHANGED <<documents, clusterVars, serial, history>>
  BY DEF ProbeReads
<1>2. PICK doc \in Docs : doc = routes[r]
  BY <1>1, RouteMapElim DEF ShapeInv, StateShape
<1>3. PICK call : call = [op |-> "probe", phase |-> "probe", route |-> r, doc |-> doc]
  OBVIOUS
<1>4. /\ call \in ProbeCalls /\ call.phase = "probe" /\ call.op = "probe" /\ call.route = r
      /\ call.doc = doc /\ call # NoCall
  BY <1>3, NoCallIsCall DEF ProbeCalls
<1>5. Begins(c, call)
  BY <1>2, <1>3 DEF ProbeReads
<1>6. ProbeReadsDone(c, r, call)
  BY <1>1, <1>2, <1>4, <1>5 DEF ProbeReadsDone
<1> QED BY <1>6

LEMMA ProbeReadsShape ==
    ASSUME ShapeInv, NEW c \in Callers, NEW r \in Routes, ProbeReads(c, r)
    PROVE  ShapeInv'
<1>1. PICK call : ProbeReadsDone(c, r, call)
  BY ProbeReadsDoes
<1>2. /\ StateShape /\ CallsShape /\ calls' = [calls EXCEPT ![c] = call] /\ call \in ProbeCalls
      /\ UNCHANGED <<documents, clusterVars>> /\ r \in DOMAIN routes /\ call.doc = routes[r]
  BY <1>1 DEF ShapeInv, ProbeReadsDone, Begins
<1>3. call.doc.hash \in versions /\ versions' = versions
  BY <1>2 DEF StateShape, documents
<1>4. CallKept(call)' /\ IsCall(call)
  BY <1>2, <1>3, CallKinds DEF CallKept, IsCall
<1>5. CallsShape'
  BY <1>2, <1>3, <1>4, CallMovesOn
<1> QED BY <1>2, <1>5 DEF ShapeInv, StateShape, documents, clusterVars

ProbeWritesDone(c, q) ==
    /\ q = calls[c] /\ q # NoCall /\ q \in ProbeCalls /\ Ends(c)
    /\ UNCHANGED <<source, versions, patch, runtime, clusterVars, serial, history>>
    /\ \/ q.route \notin DOMAIN routes /\ UNCHANGED routes
       \/ q.route \in DOMAIN routes /\ routes' = [routes EXCEPT ![q.route] = q.doc]

LEMMA ProbeWritesDoes ==
    ASSUME ShapeInv, NEW c \in Callers, ProbeWrites(c)
    PROVE  \E q : ProbeWritesDone(c, q)
<1>1. PICK q : q = calls[c]
  OBVIOUS
<1>2. /\ q # NoCall /\ q.phase = "probe" /\ Ends(c)
      /\ UNCHANGED <<source, versions, patch, runtime, clusterVars, serial, history>>
  BY <1>1 DEF ProbeWrites, Busy
<1>3. q \in ProbeCalls
  BY <1>1, <1>2, NowBusy, CallsByPhase
<1>4. routes' = IF q.route \in DOMAIN routes THEN [routes EXCEPT ![q.route] = q.doc] ELSE routes
  BY <1>1 DEF ProbeWrites
<1>5. ProbeWritesDone(c, q)
  BY <1>1, <1>2, <1>3, <1>4 DEF ProbeWritesDone
<1> QED BY <1>5

LEMMA ProbeWritesShape ==
    ASSUME ShapeInv, NEW c \in Callers, ProbeWrites(c)
    PROVE  ShapeInv'
<1>1. PICK q : ProbeWritesDone(c, q)
  BY ProbeWritesDoes
<1>2. /\ StateShape /\ CallsShape /\ q = calls[c] /\ q # NoCall /\ q \in ProbeCalls /\ Ends(c)
      /\ UNCHANGED <<source, versions, patch, runtime, clusterVars>>
  BY <1>1 DEF ShapeInv, ProbeWritesDone
<1>3. CallKept(q)
  BY <1>2, NowBusy
<1>4. q.doc.hash \in versions /\ q.route \in Routes /\ q.doc \in Docs
  BY <1>2, <1>3 DEF CallKept, ProbeCalls
<1>5. CallsShape'
  BY <1>2, CallEndsKeeps
<1>6. StateShape'
  <2>1. CASE UNCHANGED routes
    BY <1>2, <2>1 DEF StateShape, clusterVars
  <2>2. CASE q.route \in DOMAIN routes /\ routes' = [routes EXCEPT ![q.route] = q.doc]
    BY <1>2, <1>4, <2>2, RouteStored
  <2> QED BY <1>1, <2>1, <2>2 DEF ProbeWritesDone
<1> QED BY <1>5, <1>6 DEF ShapeInv

LEMMA DeleteRouteShape ==
    ASSUME ShapeInv, NEW r \in Routes, DeleteRoute(r)
    PROVE  ShapeInv'
<1>1. /\ UNCHANGED <<source, versions, patch, runtime, clusterVars, calls>>
      /\ routes' = Restrict(routes, DOMAIN routes \ {r})
  BY DEF DeleteRoute
<1>2. routes \in RouteMaps /\ \A x \in DOMAIN routes : routes[x].hash \in versions
  BY DEF ShapeInv, StateShape
<1>3. PICK S : S = DOMAIN routes \ {r}
  OBVIOUS
<1>4. /\ routes' \in RouteMaps /\ DOMAIN routes' = S /\ \A x \in S : routes'[x] = routes[x]
  BY <1>1, <1>2, <1>3, RoutesWithout
<1>5. \A x \in DOMAIN routes' : routes'[x].hash \in versions
  BY <1>2, <1>3, <1>4
<1>6. StateShape'
  BY <1>1, <1>4, <1>5 DEF ShapeInv, StateShape, clusterVars
<1> QED BY <1>1, <1>6 DEF ShapeInv, CallsShape, CallKept

LEMMA OutsideShape ==
    ASSUME ShapeInv, (\E p \in Patches : UpsertClusterConfig(p)) \/ Uninstall
    PROVE  ShapeInv'
<1>1. CASE \E p \in Patches : UpsertClusterConfig(p)
  BY <1>1 DEF UpsertClusterConfig, ShapeInv, StateShape, CallsShape, CallKept, clusterVars, history
<1>2. CASE Uninstall
  BY <1>2, IdleBundles, BundleIsNotNone
     DEF Uninstall, ShapeInv, StateShape, CallsShape, CallKept, documents, history
<1> QED BY <1>1, <1>2

-------------------------------------------------------------------------------
\* A publication: what each of its steps does.
PublishReadsDone(c, call) ==
    /\ Begins(c, call) /\ call \in CheckCalls /\ call # NoCall /\ call.op = "publish" /\ call.phase = "check"
    /\ call.bundle = Render(Inputs, patch)
    /\ orderly' => orderly /\ Publishing = {}
    /\ UNCHANGED <<documents, clusterVars, serial, latest, raced>>

LEMMA PublishReadsDoes ==
    ASSUME ShapeInv, NEW c \in Callers, PublishReads(c)
    PROVE  \E call : PublishReadsDone(c, call)
<1>1. PICK bundle : bundle = Render(Inputs, patch)
  OBVIOUS
<1>2. bundle \in Bundles
  <2>1. StateShape
    BY DEF ShapeInv
  <2> QED BY <1>1, <2>1, InputShape
<1>3. PICK call : call = [op |-> "publish", phase |-> "check", bundle |-> bundle]
  OBVIOUS
<1>4. /\ call \in CheckCalls /\ call.op = "publish" /\ call.phase = "check" /\ call.bundle = bundle
      /\ call # NoCall
  BY <1>2, <1>3, NoCallIsCall DEF CheckCalls
<1>5. /\ Begins(c, call) /\ orderly' = (orderly /\ Publishing = {})
      /\ UNCHANGED <<documents, clusterVars, serial, latest, raced>>
  BY <1>1, <1>3 DEF PublishReads
<1>6. PublishReadsDone(c, call)
  BY <1>1, <1>4, <1>5 DEF PublishReadsDone
<1> QED BY <1>6

PublishChecksDone(c, q, call, chosen) ==
    /\ q = calls[c] /\ q # NoCall /\ q \in CheckCalls /\ calls' = [calls EXCEPT ![c] = call]
    /\ chosen \subseteq DOMAIN q.bundle
    /\ orderly' => orderly /\ chosen = IF Installed THEN Changed(q.bundle, runtime) ELSE DOMAIN q.bundle
    /\ call \in PlanCalls /\ call # NoCall /\ call.phase = "version" /\ call.bundle = q.bundle
    /\ call.task = (IF Installed THEN "incremental" ELSE "base") /\ call.baseline = runtime
    /\ call.manifest.daemon = q.bundle /\ call.manifest.maps = Restrict(q.bundle, chosen)
    /\ UNCHANGED <<documents, clusterVars, serial, latest, raced>>

LEMMA PublishChecksDoes ==
    ASSUME ShapeInv, NEW c \in Callers, NEW scope \in SUBSET Routes, PublishChecks(c, scope)
    PROVE  \E q, call, chosen : PublishChecksDone(c, q, call, chosen)
<1>1. PICK q : q = calls[c]
  OBVIOUS
<1>2. /\ q # NoCall /\ q.phase = "check" /\ orderly' = (orderly /\ (scope = {} \/ ~Installed))
      /\ UNCHANGED <<documents, clusterVars, serial, latest, raced>>
  BY <1>1 DEF PublishChecks, Busy
<1>3. q \in CheckCalls
  BY <1>1, <1>2, NowBusy, CallsByPhase
<1>4. PICK chosen : chosen = IF Installed THEN InScope(Changed(q.bundle, runtime), scope)
                             ELSE DOMAIN q.bundle
  OBVIOUS
<1>5. Changed(q.bundle, runtime) \subseteq DOMAIN q.bundle
  BY DEF Changed
<1>6. chosen \in SUBSET DOMAIN q.bundle
  BY <1>4, <1>5 DEF InScope
<1>7. scope = {} \/ ~Installed =>
        chosen = IF Installed THEN Changed(q.bundle, runtime) ELSE DOMAIN q.bundle
  BY <1>4 DEF InScope
<1>8. PICK task \in {"base", "incremental"} : task = IF Installed THEN "incremental" ELSE "base"
  OBVIOUS
<1>9. q.bundle \in Bundles
  BY <1>3 DEF CheckCalls
<1>10. PICK part \in Bundles : part = Restrict(q.bundle, chosen)
  BY <1>6, <1>9, RestrictedBundle
<1>11. PICK manifest : manifest = [maps |-> part, daemon |-> q.bundle]
  OBVIOUS
<1>12. manifest \in Manifests /\ manifest.maps = part /\ manifest.daemon = q.bundle
  BY <1>9, <1>11 DEF Manifests
<1>13. runtime \in {NoRuntime} \cup RuntimeShapes
  BY DEF ShapeInv, StateShape
<1>14. PICK call : call = [op |-> "publish", phase |-> "version", bundle |-> q.bundle, task |-> task,
                           manifest |-> manifest, baseline |-> runtime]
  OBVIOUS
<1>15. /\ call \in PlanCalls /\ call.phase = "version" /\ call.bundle = q.bundle /\ call.op = "publish"
       /\ call.task = task /\ call.baseline = runtime /\ call.manifest = manifest
  BY <1>9, <1>12, <1>13, <1>14 DEF PlanCalls
<1>16. calls' = [calls EXCEPT ![c] = call]
  BY <1>1, <1>4, <1>8, <1>10, <1>11, <1>14 DEF PublishChecks, Manifest
<1>17. call # NoCall
  BY <1>15, NoCallIsCall
<1>18. PublishChecksDone(c, q, call, chosen)
  BY <1>1, <1>2, <1>3, <1>6, <1>7, <1>8, <1>10, <1>12, <1>15, <1>16, <1>17 DEF PublishChecksDone
<1> QED BY <1>18

PublishPreviewsDone(c, q, call) ==
    /\ q = calls[c] /\ q # NoCall /\ q \in PlanCalls /\ q.phase = "deploy"
    /\ calls' = [calls EXCEPT ![c] = call]
    /\ call \in OutcomeCalls /\ call # NoCall /\ call.phase = "record" /\ call.bundle = q.bundle
    /\ call.outcome = "previewed"
    /\ Published(q.baseline) => call.runtime.published /\ call.runtime.hash = q.baseline.hash
    /\ ~Published(q.baseline) =>
           /\ call.runtime.published = Published(runtime) /\ call.runtime.hash = q.bundle
    /\ issued' = issued \cup {Token(q.manifest)}
    /\ UNCHANGED <<documents, maps, daemon, serial, history>>

LEMMA PublishPreviewsDoes ==
    ASSUME ShapeInv, NEW c \in Callers, PublishPreviews(c)
    PROVE  \E q, call : PublishPreviewsDone(c, q, call)
<1>1. PICK q : q = calls[c]
  OBVIOUS
<1>2. /\ q # NoCall /\ q.phase = "deploy" /\ issued' = issued \cup {Token(q.manifest)}
      /\ UNCHANGED <<documents, maps, daemon, serial, history>>
  BY <1>1 DEF PublishPreviews, Busy
<1>3. q \in PlanCalls
  BY <1>1, <1>2, NowBusy, CallsByPhase
<1>4. q.bundle \in Bundles /\ q.baseline \in {NoRuntime} \cup RuntimeShapes
  BY <1>3 DEF PlanCalls
<1>5. Published(runtime) \in BOOLEAN
  BY DEF Published, ShapeInv, StateShape, RuntimeShapes
<1>6. PICK doc : doc = RuntimeAfterPreview(q)
  OBVIOUS
<1>7. /\ doc \in RuntimeShapes
      /\ Published(q.baseline) => doc.published /\ doc.hash = q.baseline.hash
      /\ ~Published(q.baseline) => doc.published = Published(runtime) /\ doc.hash = q.bundle
  <2>1. CASE Published(q.baseline)
    <3>1. PICK base \in RuntimeShapes : base = q.baseline
      BY <1>4, <2>1 DEF Published
    <3>2. doc = [base EXCEPT !.status = "previewed"] /\ base.published
      BY <1>6, <2>1, <3>1 DEF RuntimeAfterPreview, Published
    <3>3. doc \in RuntimeShapes /\ doc.published = base.published /\ doc.hash = base.hash
      BY <3>1, <3>2 DEF RuntimeShapes
    <3> QED BY <2>1, <3>1, <3>2, <3>3
  <2>2. CASE ~Published(q.baseline)
    <3>1. PICK shown \in BOOLEAN : shown = Published(runtime)
      BY <1>5
    <3>2. doc = [status |-> "previewed", hash |-> q.bundle, published |-> shown]
      BY <1>6, <2>2, <3>1 DEF RuntimeAfterPreview
    <3>3. doc \in RuntimeShapes /\ doc.published = shown /\ doc.hash = q.bundle
      BY <1>4, <3>2 DEF RuntimeShapes
    <3> QED BY <2>2, <3>1, <3>3
  <2> QED BY <2>1, <2>2
<1>8. PICK call : call = [op |-> "publish", phase |-> "record", bundle |-> q.bundle,
                          outcome |-> "previewed", runtime |-> doc]
  OBVIOUS
<1>9. /\ call \in OutcomeCalls /\ call.op = "publish" /\ call.phase = "record" /\ call.bundle = q.bundle
      /\ call.outcome = "previewed" /\ call.runtime = doc
  BY <1>4, <1>7, <1>8 DEF OutcomeCalls
<1>10. calls' = [calls EXCEPT ![c] = call]
  BY <1>1, <1>6, <1>8 DEF PublishPreviews
<1>11. call # NoCall
  BY <1>9, NoCallIsCall
<1>12. PublishPreviewsDone(c, q, call)
  BY <1>1, <1>2, <1>3, <1>7, <1>9, <1>10, <1>11 DEF PublishPreviewsDone
<1> QED BY <1>12

PublishAppliesDone(c, q, call) ==
    /\ q = calls[c] /\ q # NoCall /\ q \in PlanCalls /\ q.phase = "deploy" /\ Deployable(q)
    /\ calls' = [calls EXCEPT ![c] = call]
    /\ call \in OutcomeCalls /\ call # NoCall /\ call.phase = "record" /\ call.bundle = q.bundle
    /\ call.outcome = "applied" /\ call.runtime.published /\ call.runtime.hash = q.bundle
    /\ Apply(q.manifest, DOMAIN q.manifest.maps) /\ daemon' = q.manifest.daemon
    /\ UNCHANGED <<documents, issued, serial, history>>

LEMMA PublishAppliesDoes ==
    ASSUME ShapeInv, NEW c \in Callers, PublishApplies(c)
    PROVE  \E q, call : PublishAppliesDone(c, q, call)
<1>1. PICK q : q = calls[c]
  OBVIOUS
<1>2. /\ q # NoCall /\ q.phase = "deploy" /\ Deployable(q)
      /\ Apply(q.manifest, DOMAIN q.manifest.maps) /\ daemon' = q.manifest.daemon
      /\ UNCHANGED <<documents, issued, serial, history>>
  BY <1>1 DEF PublishApplies, Busy
<1>3. q \in PlanCalls
  BY <1>1, <1>2, NowBusy, CallsByPhase
<1>4. q.bundle \in Bundles
  BY <1>3 DEF PlanCalls
<1>5. PICK doc : doc = [status |-> "ready", hash |-> q.bundle, published |-> TRUE]
  OBVIOUS
<1>6. doc \in RuntimeShapes /\ doc.published /\ doc.hash = q.bundle
  BY <1>4, <1>5 DEF RuntimeShapes
<1>7. PICK call : call = [op |-> "publish", phase |-> "record", bundle |-> q.bundle,
                          outcome |-> "applied", runtime |-> doc]
  OBVIOUS
<1>8. /\ call \in OutcomeCalls /\ call.op = "publish" /\ call.phase = "record" /\ call.bundle = q.bundle
      /\ call.outcome = "applied" /\ call.runtime = doc
  BY <1>4, <1>6, <1>7 DEF OutcomeCalls
<1>9. calls' = [calls EXCEPT ![c] = call]
  BY <1>1, <1>5, <1>7 DEF PublishApplies
<1>10. call # NoCall
  BY <1>8, NoCallIsCall
<1>11. PublishAppliesDone(c, q, call)
  BY <1>1, <1>2, <1>3, <1>6, <1>8, <1>9, <1>10 DEF PublishAppliesDone
<1> QED BY <1>11

PublishRecordsDone(c, q, call) ==
    /\ q = calls[c] /\ q # NoCall /\ q \in OutcomeCalls /\ q.phase = "record"
    /\ calls' = [calls EXCEPT ![c] = call] /\ runtime' = q.runtime
    /\ call \in OutcomeCalls /\ call # NoCall /\ call.phase = "list" /\ call.bundle = q.bundle
    /\ call.outcome = q.outcome /\ call.runtime = q.runtime
    /\ UNCHANGED <<routes, source, versions, patch, clusterVars, serial, history>>

LEMMA PublishRecordsDoes ==
    ASSUME ShapeInv, NEW c \in Callers, PublishRecords(c)
    PROVE  \E q, call : PublishRecordsDone(c, q, call)
<1>1. PICK q : q = calls[c]
  OBVIOUS
<1>2. /\ q # NoCall /\ q.phase = "record" /\ runtime' = q.runtime
      /\ UNCHANGED <<routes, source, versions, patch, clusterVars, serial, history>>
  BY <1>1 DEF PublishRecords, Busy
<1>3. q \in OutcomeCalls
  BY <1>1, <1>2, NowBusy, CallsByPhase
<1>4. PICK call : call = [q EXCEPT !.phase = "list"] /\ calls' = [calls EXCEPT ![c] = call]
  BY <1>1 DEF PublishRecords
<1>5. /\ call \in OutcomeCalls /\ call.phase = "list" /\ call.bundle = q.bundle /\ call.op = "publish"
      /\ call.outcome = q.outcome /\ call.runtime = q.runtime
  BY <1>3, <1>4 DEF OutcomeCalls
<1>6. call # NoCall
  BY <1>5, NoCallIsCall
<1>7. PublishRecordsDone(c, q, call)
  BY <1>1, <1>2, <1>3, <1>4, <1>5, <1>6 DEF PublishRecordsDone
<1> QED BY <1>7

LEMMA PublishReadsShape ==
    ASSUME ShapeInv, NEW c \in Callers, PublishReads(c)
    PROVE  ShapeInv'
<1>1. PICK call : PublishReadsDone(c, call)
  BY PublishReadsDoes
<1>2. /\ StateShape /\ CallsShape /\ calls' = [calls EXCEPT ![c] = call] /\ call \in CheckCalls
      /\ UNCHANGED <<documents, clusterVars>>
  BY <1>1 DEF ShapeInv, PublishReadsDone, Begins
<1>3. CallKept(call)' /\ IsCall(call)
  BY <1>2, CallKinds DEF CallKept, IsCall
<1>4. CallsShape'
  BY <1>2, <1>3, CallMovesOn DEF documents
<1> QED BY <1>2, <1>4 DEF ShapeInv, StateShape, documents, clusterVars

LEMMA PublishChecksShape ==
    ASSUME ShapeInv, NEW c \in Callers, NEW scope \in SUBSET Routes, PublishChecks(c, scope)
    PROVE  ShapeInv'
<1>1. PICK q, call, chosen : PublishChecksDone(c, q, call, chosen)
  BY PublishChecksDoes
<1>2. /\ StateShape /\ CallsShape /\ calls' = [calls EXCEPT ![c] = call] /\ call \in PlanCalls
      /\ call.phase = "version" /\ call.baseline = runtime
      /\ UNCHANGED <<documents, clusterVars>>
  BY <1>1 DEF ShapeInv, PublishChecksDone
<1>3. runtime \in RuntimeShapes => runtime.hash \in versions
  BY <1>2 DEF StateShape
<1>4. CallKept(call)' /\ IsCall(call)
  BY <1>2, <1>3, CallKinds DEF CallKept, IsCall, documents
<1>5. CallsShape'
  BY <1>2, <1>4, CallMovesOn DEF documents
<1> QED BY <1>2, <1>5 DEF ShapeInv, StateShape, documents, clusterVars

LEMMA TokenShape ==
    ASSUME StateShape, NEW m \in Manifests
    PROVE  Token(m).manifest \in Manifests /\ Maps(Token(m).live, Files, Texts \cup {Gone})
<1>1. DOMAIN m.maps \subseteq Files /\ \A f \in DOMAIN maps : maps[f] \in Texts
  BY BundleElim DEF Manifests, StateShape
<1>2. PICK live : live = [f \in DOMAIN m.maps |-> IF f \in DOMAIN maps THEN maps[f] ELSE Gone]
  OBVIOUS
<1>3. live \in [DOMAIN live -> Texts \cup {Gone}] /\ DOMAIN live \subseteq Files
  BY <1>1, <1>2
<1>4. Token(m).manifest = m /\ Token(m).live = live
  BY <1>2 DEF Token
<1> QED BY <1>3, <1>4 DEF Maps

LEMMA PublishPreviewsShape ==
    ASSUME ShapeInv, NEW c \in Callers, PublishPreviews(c)
    PROVE  ShapeInv'
<1>1. PICK q, call : PublishPreviewsDone(c, q, call)
  BY PublishPreviewsDoes
<1>2. /\ StateShape /\ CallsShape /\ calls' = [calls EXCEPT ![c] = call] /\ call \in OutcomeCalls
      /\ q = calls[c] /\ q # NoCall /\ q \in PlanCalls /\ q.phase = "deploy" /\ call.bundle = q.bundle
      /\ call.runtime.hash \in {q.bundle, q.baseline.hash}
      /\ Published(q.baseline) => call.runtime.hash = q.baseline.hash
      /\ ~Published(q.baseline) => call.runtime.hash = q.bundle
      /\ issued' = issued \cup {Token(q.manifest)}
      /\ UNCHANGED <<documents, maps, daemon>>
  BY <1>1 DEF ShapeInv, PublishPreviewsDone
<1>3. CallKept(q)
  BY <1>2, NowBusy
<1>4. q.baseline \in {NoRuntime} \cup RuntimeShapes /\ q.manifest \in Manifests
  BY <1>2 DEF PlanCalls
<1>5. q.bundle \in versions /\ call.runtime.hash \in versions
  BY <1>2, <1>3, <1>4 DEF CallKept, Published
<1>6. CallKept(call)' /\ IsCall(call)
  BY <1>2, <1>5, CallKinds DEF CallKept, IsCall, documents
<1>7. CallsShape'
  BY <1>2, <1>6, CallMovesOn DEF documents
<1>8. \A t \in issued' : t.manifest \in Manifests /\ Maps(t.live, Files, Texts \cup {Gone})
  BY <1>2, <1>4, TokenShape DEF StateShape
<1> QED BY <1>2, <1>7, <1>8 DEF ShapeInv, StateShape, documents

\* The cluster after an apply.
LEMMA AppliedMaps ==
    ASSUME maps \in Bundles, NEW m \in Manifests, NEW chosen \in SUBSET DOMAIN m.maps, Apply(m, chosen)
    PROVE  /\ maps' \in Bundles /\ DOMAIN maps' = DOMAIN maps \cup chosen
           /\ \A f \in chosen : maps'[f] = m.maps[f]
           /\ \A f \in DOMAIN maps \ chosen : maps'[f] = maps[f]
<1>1. /\ DOMAIN maps \subseteq Files /\ \A f \in DOMAIN maps : maps[f] \in Texts
      /\ DOMAIN m.maps \subseteq Files /\ \A f \in DOMAIN m.maps : m.maps[f] \in Texts
  BY BundleElim DEF Manifests
<1>2. PICK D : D = DOMAIN maps \cup chosen
  OBVIOUS
<1>3. D \in SUBSET Files /\ maps' \in [D -> Texts]
  BY <1>1, <1>2 DEF Apply
<1> QED BY <1>2, <1>3, BundleIntro DEF Apply

LEMMA PublishAppliesShape ==
    ASSUME ShapeInv, NEW c \in Callers, PublishApplies(c)
    PROVE  ShapeInv'
<1>1. PICK q, call : PublishAppliesDone(c, q, call)
  BY PublishAppliesDoes
<1>2. /\ StateShape /\ CallsShape /\ calls' = [calls EXCEPT ![c] = call] /\ call \in OutcomeCalls
      /\ q = calls[c] /\ q # NoCall /\ q \in PlanCalls /\ q.phase = "deploy" /\ call.bundle = q.bundle
      /\ call.runtime.hash = q.bundle /\ daemon' = q.manifest.daemon
      /\ Apply(q.manifest, DOMAIN q.manifest.maps)
      /\ UNCHANGED <<documents, issued>>
  BY <1>1 DEF ShapeInv, PublishAppliesDone
<1>3. CallKept(q)
  BY <1>2, NowBusy
<1>4. q.manifest \in Manifests /\ daemon' \in Bundles
  BY <1>2 DEF PlanCalls, Manifests
<1>5. maps' \in Bundles
  BY <1>2, <1>4, AppliedMaps DEF StateShape
<1>6. q.bundle \in versions
  BY <1>2, <1>3 DEF CallKept
<1>7. CallKept(call)' /\ IsCall(call)
  BY <1>2, <1>6, CallKinds DEF CallKept, IsCall, documents
<1>8. CallsShape'
  BY <1>2, <1>7, CallMovesOn DEF documents
<1> QED BY <1>2, <1>4, <1>5, <1>8 DEF ShapeInv, StateShape, documents

LEMMA PublishRecordsShape ==
    ASSUME ShapeInv, NEW c \in Callers, PublishRecords(c)
    PROVE  ShapeInv'
<1>1. PICK q, call : PublishRecordsDone(c, q, call)
  BY PublishRecordsDoes
<1>2. /\ StateShape /\ CallsShape /\ calls' = [calls EXCEPT ![c] = call] /\ call \in OutcomeCalls
      /\ q = calls[c] /\ q # NoCall /\ q \in OutcomeCalls /\ call.bundle = q.bundle
      /\ call.runtime = q.runtime /\ runtime' = q.runtime
      /\ UNCHANGED <<routes, source, versions, patch, clusterVars>>
  BY <1>1 DEF ShapeInv, PublishRecordsDone
<1>3. CallKept(q) /\ q.runtime \in RuntimeShapes
  BY <1>2, NowBusy DEF OutcomeCalls
<1>4. q.bundle \in versions /\ q.runtime.hash \in versions
  BY <1>2, <1>3 DEF CallKept
<1>5. CallKept(call)' /\ IsCall(call)
  BY <1>2, <1>4, CallKinds DEF CallKept, IsCall
<1>6. CallsShape'
  BY <1>2, <1>5, CallMovesOn
<1> QED BY <1>2, <1>3, <1>4, <1>6 DEF ShapeInv, StateShape, clusterVars

\* What breaks off, is refused or fails leaves the documents as they are.
LEMMA StoppedShape ==
    ASSUME ShapeInv, NEW c \in Callers,
           ApplyBreaks(c) \/ (\E token \in issued : PublishRefused(c, token)) \/ Fail(c)
    PROVE  ShapeInv'
<1>1. CASE (\E token \in issued : PublishRefused(c, token)) \/ Fail(c)
  <2>1. Ends(c) /\ UNCHANGED <<documents, clusterVars>>
    BY <1>1 DEF PublishRefused, Fail
  <2>2. CallsShape'
    BY <2>1, CallEndsKeeps DEF ShapeInv, documents
  <2> QED BY <2>1, <2>2 DEF ShapeInv, StateShape, documents, clusterVars
<1>2. CASE ApplyBreaks(c)
  <2>1. PICK q : q = calls[c]
    OBVIOUS
  <2>2. q # NoCall /\ q.phase = "deploy" /\ Ends(c) /\ UNCHANGED <<documents, daemon, issued>>
    BY <1>2, <2>1 DEF ApplyBreaks, Busy
  <2>3. PICK chosen \in SUBSET DOMAIN q.manifest.maps : Apply(q.manifest, chosen)
    BY <1>2, <2>1 DEF ApplyBreaks
  <2>4. q.manifest \in Manifests
    BY <2>1, <2>2, NowBusy, CallsByPhase DEF PlanCalls
  <2>5. maps' \in Bundles
    BY <2>3, <2>4, AppliedMaps DEF ShapeInv, StateShape
  <2>6. CallsShape'
    BY <2>2, CallEndsKeeps DEF ShapeInv, documents
  <2> QED BY <2>2, <2>5, <2>6 DEF ShapeInv, StateShape, documents
<1> QED BY <1>1, <1>2

LEMMA ShapeNext == ShapeInv /\ [Next]_vars => ShapeInv'
<1> SUFFICES ASSUME ShapeInv, [Next]_vars PROVE ShapeInv'
  OBVIOUS
<1>1. ASSUME NEW c \in Callers, CallStep(c) PROVE ShapeInv'
  <2>1. CASE \E r \in Routes, x \in Contents : CreateReads(c, r, x) \/ UpdateReads(c, r, x)
    BY <2>1, EditBeginsShape
  <2>2. CASE (\E r \in Routes : ProbeReads(c, r)) \/ ProbeWrites(c)
    BY <2>2, ProbeReadsShape, ProbeWritesShape
  <2>3. CASE StoreVersion(c) \/ StoreSource(c) \/ StoreRoute(c)
    BY <2>3, StoreVersionShape, StoreSourceShape, StoreRouteShape
  <2>4. CASE ListRoutes(c) \/ MarkRoute(c) \/ MarkingEnds(c)
    BY <2>4, ListRoutesShape, MarkRouteShape, MarkingEndsShape
  <2>5. CASE PublishReads(c) \/ (\E scope \in SUBSET Routes : PublishChecks(c, scope))
    BY <2>5, PublishReadsShape, PublishChecksShape
  <2>6. CASE PublishPreviews(c) \/ PublishApplies(c) \/ PublishRecords(c)
    BY <2>6, PublishPreviewsShape, PublishAppliesShape, PublishRecordsShape
  <2>7. CASE ApplyBreaks(c) \/ (\E token \in issued : PublishRefused(c, token)) \/ Fail(c)
    BY <2>7, StoppedShape
  <2> QED BY <1>1, <2>1, <2>2, <2>3, <2>4, <2>5, <2>6, <2>7 DEF CallStep
<1>2. CASE \E r \in Routes : DeleteRoute(r)
  BY <1>2, DeleteRouteShape
<1>3. CASE (\E p \in Patches : UpsertClusterConfig(p)) \/ Uninstall
  BY <1>3, OutsideShape
<1>4. CASE UNCHANGED vars
  BY <1>4 DEF vars, ShapeInv, StateShape, CallsShape, CallKept, documents, clusterVars
<1> QED BY <1>1, <1>2, <1>3, <1>4 DEF Next

LEMMA BundlesStayInShape == Spec => []ShapeInv
BY ShapeInit, ShapeNext, PTL DEF Spec

\* The properties the shape gives.
LEMMA ShapeIsTyped == ShapeInv => BundleTypeOK /\ HashesAreKept
<1> SUFFICES ASSUME ShapeInv PROVE BundleTypeOK /\ HashesAreKept
  OBVIOUS
<1>1. StateShape
  BY DEF ShapeInv
<1>2. \A f \in Bundles : IsBundle(f)
  BY BundleElim DEF IsBundle, Maps
<1>3. Maps(routes, Routes, RouteDocs)
  <2>1. routes \in RouteMaps /\ \A r \in DOMAIN routes : routes[r].hash \in versions
    BY <1>1 DEF StateShape
  <2>2. DOMAIN routes \subseteq Routes /\ routes \in [DOMAIN routes -> Docs]
    BY <2>1, RouteMapElim
  <2>3. ASSUME NEW r \in DOMAIN routes PROVE routes[r] \in RouteDocs
    <3>1. PICK doc \in Docs : doc = routes[r]
      BY <2>2
    <3>2. doc.hash \in versions
      BY <2>1, <3>1
    <3>3. doc \in RouteDocs
      BY <3>2 DEF Docs, RouteDocs
    <3> QED BY <3>1, <3>3
  <2> QED BY <2>2, <2>3 DEF Maps
<1>4. runtime # NoRuntime => runtime \in Runtimes /\ runtime.hash \in versions
  BY <1>1 DEF StateShape, RuntimeShapes, Runtimes
<1>5. \A t \in issued : /\ IsBundle(t.manifest.maps) /\ IsBundle(t.manifest.daemon)
                        /\ Maps(t.live, Files, Texts \cup {Gone})
  BY <1>1, <1>2 DEF StateShape, Manifests
<1>6. BundleTypeOK
  BY <1>1, <1>2, <1>3, <1>4, <1>5 DEF BundleTypeOK, StateShape
<1>7. HashesAreKept
  BY <1>1, <1>4 DEF HashesAreKept, StateShape, Kept
<1> QED BY <1>6, <1>7

(*****************************************************************************)
(* Edits.  A copy that a call holds of a route nobody stored in the meantime *)
(* says what the last edit said: writing it back undoes nothing.             *)
(*****************************************************************************)
CopyIsRight(q) ==
    \A r \in DOMAIN routes \ raced :
        /\ q \in MarkCalls /\ r \in DOMAIN q.copies => q.copies[r].content = latest[r]
        /\ q \in ProbeCalls /\ q.route = r => q.doc.content = latest[r]

EditsInv ==
    /\ DOMAIN routes = DOMAIN latest
    /\ \A r \in DOMAIN routes \ raced : routes[r].content = latest[r]
    /\ \A c \in Callers : CopyIsRight(calls[c])

LEMMA NoCopyIsRight ==
    ASSUME NEW q, q \notin MarkCalls \cup ProbeCalls
    PROVE  CopyIsRight(q) /\ CopyIsRight(q)'
BY DEF CopyIsRight

LEMMA EditsInit == Init => EditsInv
<1> SUFFICES ASSUME Init PROVE EditsInv
  OBVIOUS
<1>1. DOMAIN routes = {} /\ routes = latest
  BY DEF Init, Nothing
<1> QED BY <1>1 DEF Init, EditsInv, CopyIsRight

\* The routes keep their edits, and one call moves on.
LEMMA EditsKept ==
    ASSUME ShapeInv, EditsInv, NEW c \in Callers, NEW call, calls' = [calls EXCEPT ![c] = call],
           DOMAIN routes' = DOMAIN routes, UNCHANGED <<latest, raced>>, CopyIsRight(call),
           \A r \in DOMAIN routes \ raced : routes'[r].content = latest[r]
    PROVE  EditsInv'
<1>1. DOMAIN calls = Callers
  BY DEF ShapeInv, CallsShape
<1>2. CopyIsRight(call)'
  BY DEF CopyIsRight
<1>3. ASSUME NEW d \in Callers PROVE CopyIsRight(calls[d])'
  <2>1. CASE d = c
    <3>1. calls'[d] = call
      BY <1>1, <2>1
    <3> QED BY <1>2, <3>1 DEF CopyIsRight
  <2>2. CASE d # c
    <3>1. PICK q : q = calls[d]
      OBVIOUS
    <3>2. calls'[d] = q /\ CopyIsRight(q)
      BY <1>1, <2>2, <3>1 DEF EditsInv
    <3>3. CopyIsRight(q)'
      BY <3>2 DEF CopyIsRight
    <3> QED BY <3>2, <3>3 DEF CopyIsRight
  <2> QED BY <2>1, <2>2
<1> QED BY <1>3 DEF EditsInv

LEMMA EditsUntouched ==
    ASSUME ShapeInv, EditsInv, NEW c \in Callers, NEW call, calls' = [calls EXCEPT ![c] = call],
           UNCHANGED <<routes, latest, raced>>, CopyIsRight(call)
    PROVE  EditsInv'
BY EditsKept DEF EditsInv

\* Steps that neither touch a route nor take a copy.
QuietStep(c) ==
    \/ \E r \in Routes, x \in Contents : CreateReads(c, r, x) \/ UpdateReads(c, r, x)
    \/ StoreVersion(c) \/ StoreSource(c) \/ MarkingEnds(c)
    \/ PublishReads(c)
    \/ \E scope \in SUBSET Routes : PublishChecks(c, scope)
    \/ PublishPreviews(c) \/ PublishApplies(c) \/ ApplyBreaks(c)
    \/ \E token \in issued : PublishRefused(c, token)
    \/ PublishRecords(c)
    \/ Fail(c)

LEMMA QuietDoes ==
    ASSUME ShapeInv, NEW c \in Callers, QuietStep(c)
    PROVE  \E call : /\ calls' = [calls EXCEPT ![c] = call] /\ call \notin MarkCalls \cup ProbeCalls
                     /\ UNCHANGED <<routes, latest, raced>>
<1>1. NoCall \notin MarkCalls \cup ProbeCalls
  BY NoCallIsCall DEF MarkCalls, ProbeCalls
<1>2. CASE \E r \in Routes, x \in Contents : CreateReads(c, r, x) \/ UpdateReads(c, r, x)
  <2>1. PICK r \in Routes, x \in Contents : CreateReads(c, r, x) \/ UpdateReads(c, r, x)
    BY <1>2
  <2>2. PICK call, bundle : EditBegun(c, r, x, call, bundle)
    BY <2>1, EditBegins
  <2>3. /\ calls' = [calls EXCEPT ![c] = call] /\ call \in EditCalls
        /\ UNCHANGED <<routes, latest, raced>>
    BY <2>2 DEF EditBegun, Begins, documents
  <2>4. call \notin MarkCalls \cup ProbeCalls
    BY <2>3, CallKinds
  <2> QED BY <2>3, <2>4
<1>3. CASE StoreVersion(c)
  <2>1. PICK q, call : StoreVersionDone(c, q, call)
    BY <1>3, StoreVersionDoes
  <2>2. call \notin MarkCalls \cup ProbeCalls
    BY <2>1, CallKinds DEF StoreVersionDone, SameEdit
  <2> QED BY <2>1, <2>2 DEF StoreVersionDone, history
<1>4. CASE StoreSource(c)
  <2>1. PICK q, call : StoreSourceDone(c, q, call)
    BY <1>4, StoreSourceDoes
  <2>2. call \notin MarkCalls \cup ProbeCalls
    BY <2>1, CallKinds DEF StoreSourceDone, SameEdit
  <2> QED BY <2>1, <2>2 DEF StoreSourceDone, history
<1>5. CASE PublishReads(c)
  <2>1. PICK call : PublishReadsDone(c, call)
    BY <1>5, PublishReadsDoes
  <2>2. call \notin MarkCalls \cup ProbeCalls
    BY <2>1, CallKinds DEF PublishReadsDone
  <2> QED BY <2>1, <2>2 DEF PublishReadsDone, Begins, documents
<1>6. CASE \E scope \in SUBSET Routes : PublishChecks(c, scope)
  <2>1. PICK q, call, chosen : PublishChecksDone(c, q, call, chosen)
    BY <1>6, PublishChecksDoes
  <2>2. call \notin MarkCalls \cup ProbeCalls
    BY <2>1, CallKinds DEF PublishChecksDone
  <2> QED BY <2>1, <2>2 DEF PublishChecksDone, documents
<1>7. CASE PublishPreviews(c)
  <2>1. PICK q, call : PublishPreviewsDone(c, q, call)
    BY <1>7, PublishPreviewsDoes
  <2>2. call \notin MarkCalls \cup ProbeCalls
    BY <2>1, CallKinds DEF PublishPreviewsDone
  <2> QED BY <2>1, <2>2 DEF PublishPreviewsDone, documents, history
<1>8. CASE PublishApplies(c)
  <2>1. PICK q, call : PublishAppliesDone(c, q, call)
    BY <1>8, PublishAppliesDoes
  <2>2. call \notin MarkCalls \cup ProbeCalls
    BY <2>1, CallKinds DEF PublishAppliesDone
  <2> QED BY <2>1, <2>2 DEF PublishAppliesDone, documents, history
<1>9. CASE PublishRecords(c)
  <2>1. PICK q, call : PublishRecordsDone(c, q, call)
    BY <1>9, PublishRecordsDoes
  <2>2. call \notin MarkCalls \cup ProbeCalls
    BY <2>1, CallKinds DEF PublishRecordsDone
  <2> QED BY <2>1, <2>2 DEF PublishRecordsDone, documents, history
<1>10. CASE MarkingEnds(c) \/ ApplyBreaks(c) \/ (\E token \in issued : PublishRefused(c, token)) \/ Fail(c)
  <2>1. Ends(c) /\ UNCHANGED <<routes, latest, raced>>
    BY <1>10 DEF MarkingEnds, ApplyBreaks, PublishRefused, Fail, documents, history
  <2> QED BY <1>1, <2>1 DEF Ends
<1> QED BY <1>2, <1>3, <1>4, <1>5, <1>6, <1>7, <1>8, <1>9, <1>10 DEF QuietStep

LEMMA QuietEdits ==
    ASSUME ShapeInv, EditsInv, NEW c \in Callers, QuietStep(c)
    PROVE  EditsInv'
<1>1. PICK call : /\ calls' = [calls EXCEPT ![c] = call] /\ call \notin MarkCalls \cup ProbeCalls
                  /\ UNCHANGED <<routes, latest, raced>>
  BY QuietDoes
<1>2. CopyIsRight(call)
  BY <1>1, NoCopyIsRight
<1> QED BY <1>1, <1>2, EditsUntouched

LEMMA ListRoutesEdits ==
    ASSUME ShapeInv, EditsInv, NEW c \in Callers, ListRoutes(c)
    PROVE  EditsInv'
<1>1. PICK q, call : ListRoutesDone(c, q, call)
  BY ListRoutesDoes
<1>2. /\ calls' = [calls EXCEPT ![c] = call] /\ call \in MarkCalls /\ call.copies = routes
      /\ UNCHANGED <<routes, latest, raced>>
  BY <1>1 DEF ListRoutesDone, documents, history
<1>3. CopyIsRight(call)
  BY <1>2, CallKinds DEF CopyIsRight, EditsInv
<1> QED BY <1>2, <1>3, EditsUntouched

LEMMA ProbeReadsEdits ==
    ASSUME ShapeInv, EditsInv, NEW c \in Callers, NEW r \in Routes, ProbeReads(c, r)
    PROVE  EditsInv'
<1>1. PICK call : ProbeReadsDone(c, r, call)
  BY ProbeReadsDoes
<1>2. /\ calls' = [calls EXCEPT ![c] = call] /\ call \in ProbeCalls /\ call.doc = routes[r] /\ call.route = r
      /\ UNCHANGED <<routes, latest, raced>>
  BY <1>1 DEF ProbeReadsDone, Begins, documents, history
<1>3. CopyIsRight(call)
  BY <1>2, CallKinds DEF CopyIsRight, EditsInv
<1> QED BY <1>2, <1>3, EditsUntouched

\* A document is written back over a route.
LEMMA WrittenBack ==
    ASSUME ShapeInv, EditsInv, NEW r \in DOMAIN routes, NEW doc, routes' = [routes EXCEPT ![r] = doc],
           r \notin raced => doc.content = latest[r]
    PROVE  /\ DOMAIN routes' = DOMAIN routes
           /\ \A x \in DOMAIN routes \ raced : routes'[x].content = latest[x]
<1>1. routes \in [DOMAIN routes -> Docs]
  BY RouteMapElim DEF ShapeInv, StateShape
<1> QED BY <1>1 DEF EditsInv

LEMMA MarkRouteEdits ==
    ASSUME ShapeInv, EditsInv, NEW c \in Callers, MarkRoute(c)
    PROVE  EditsInv'
<1>1. PICK q, call, r, doc : MarkRouteDone(c, q, call, r, doc)
  BY MarkRouteDoes
<1>2. /\ q = calls[c] /\ q \in MarkCalls /\ calls' = [calls EXCEPT ![c] = call]
      /\ UNCHANGED <<latest, raced>>
  BY <1>1 DEF MarkRouteDone, history
<1>3. CopyIsRight(q)
  BY <1>2 DEF EditsInv
<1>4. CASE call = NoCall /\ UNCHANGED routes
  <2>1. NoCall \notin MarkCalls \cup ProbeCalls
    BY NoCallIsCall DEF MarkCalls, ProbeCalls
  <2>2. CopyIsRight(call)
    BY <1>4, <2>1, NoCopyIsRight
  <2> QED BY <1>2, <1>4, <2>2, EditsUntouched
<1>5. CASE r \in DOMAIN routes
  <2>1. /\ routes' = [routes EXCEPT ![r] = doc] /\ call \in MarkCalls
        /\ DOMAIN call.copies = DOMAIN q.copies \ {r}
        /\ \A x \in DOMAIN call.copies : call.copies[x] = q.copies[x]
    BY <1>1, <1>5 DEF MarkRouteDone
  <2>2. q \in MarkCalls /\ r \in DOMAIN q.copies /\ doc = Marked(q, r)
    BY <1>1 DEF MarkRouteDone
  <2>3. doc.content = q.copies[r].content
    BY <2>2, MarkedDoc
  <2>4. r \notin raced => doc.content = latest[r]
    BY <1>2, <1>3, <1>5, <2>2, <2>3 DEF CopyIsRight
  <2>5. /\ DOMAIN routes' = DOMAIN routes
        /\ \A x \in DOMAIN routes \ raced : routes'[x].content = latest[x]
    BY <1>5, <2>1, <2>4, WrittenBack
  <2>6. CopyIsRight(call)
    BY <1>2, <1>3, <2>1, CallKinds DEF CopyIsRight
  <2> QED BY <1>2, <2>5, <2>6, EditsKept
<1> QED BY <1>1, <1>4, <1>5 DEF MarkRouteDone

LEMMA ProbeWritesEdits ==
    ASSUME ShapeInv, EditsInv, NEW c \in Callers, ProbeWrites(c)
    PROVE  EditsInv'
<1>1. PICK q : ProbeWritesDone(c, q)
  BY ProbeWritesDoes
<1>2. /\ q = calls[c] /\ q \in ProbeCalls /\ calls' = [calls EXCEPT ![c] = NoCall]
      /\ UNCHANGED <<latest, raced>>
  BY <1>1 DEF ProbeWritesDone, Ends, history
<1>3. CopyIsRight(q)
  BY <1>2 DEF EditsInv
<1>4. NoCall \notin MarkCalls \cup ProbeCalls
  BY NoCallIsCall DEF MarkCalls, ProbeCalls
<1>5. CopyIsRight(NoCall)
  BY <1>4, NoCopyIsRight
<1>6. CASE UNCHANGED routes
  BY <1>2, <1>5, <1>6, EditsUntouched
<1>7. CASE q.route \in DOMAIN routes /\ routes' = [routes EXCEPT ![q.route] = q.doc]
  <2>1. q.route \notin raced => q.doc.content = latest[q.route]
    BY <1>2, <1>3, <1>7 DEF CopyIsRight
  <2>2. /\ DOMAIN routes' = DOMAIN routes
        /\ \A x \in DOMAIN routes \ raced : routes'[x].content = latest[x]
    BY <1>7, <2>1, WrittenBack
  <2> QED BY <1>2, <1>5, <2>2, EditsKept
<1> QED BY <1>1, <1>6, <1>7 DEF ProbeWritesDone

\* Storing a route makes the copies that others hold of it old, and no others.
LEMMA StoreRouteEdits ==
    ASSUME ShapeInv, EditsInv, NEW c \in Callers, StoreRoute(c)
    PROVE  EditsInv'
<1>1. PICK q, call : StoreRouteDone(c, q, call)
  BY StoreRouteDoes
<1>2. q = calls[c] /\ q \in EditCalls /\ calls' = [calls EXCEPT ![c] = call]
  BY <1>1 DEF StoreRouteDone
<1>3. CASE call = NoCall /\ UNCHANGED <<routes, latest, raced>>
  <2>1. NoCall \notin MarkCalls \cup ProbeCalls
    BY NoCallIsCall DEF MarkCalls, ProbeCalls
  <2>2. CopyIsRight(call)
    BY <1>3, <2>1, NoCopyIsRight
  <2> QED BY <1>2, <1>3, <2>2, EditsUntouched
<1>4. CASE ~(call = NoCall /\ UNCHANGED <<routes, latest, raced>>)
  <2>1. /\ call \in EditCalls
        /\ routes' = [x \in DOMAIN routes \cup {q.route} |-> IF x = q.route THEN q.doc ELSE routes[x]]
        /\ latest' = [x \in DOMAIN latest \cup {q.route} |->
                         IF x = q.route THEN q.doc.content ELSE latest[x]]
        /\ raced' = raced \cup ({q.route} \cap HeldByOthers(c))
    BY <1>1, <1>4 DEF StoreRouteDone, SameEdit
  <2>2. PICK r, doc : r = q.route /\ doc = q.doc
    OBVIOUS
  <2>3. /\ DOMAIN routes' = DOMAIN routes \cup {r} /\ DOMAIN latest' = DOMAIN latest \cup {r}
        /\ routes'[r] = doc /\ latest'[r] = doc.content
        /\ \A x \in DOMAIN routes \ {r} : routes'[x] = routes[x]
        /\ \A x \in DOMAIN latest \ {r} : latest'[x] = latest[x]
    BY <2>1, <2>2
  <2>4. DOMAIN routes = DOMAIN latest /\ \A x \in DOMAIN routes \ raced : routes[x].content = latest[x]
    BY DEF EditsInv
  <2>5. DOMAIN routes' = DOMAIN latest' /\ \A x \in DOMAIN routes' \ raced' : routes'[x].content = latest'[x]
    BY <2>1, <2>3, <2>4
  <2>6. DOMAIN calls = Callers
    BY DEF ShapeInv, CallsShape
  <2>7. ASSUME NEW d \in Callers PROVE CopyIsRight(calls[d])'
    <3>1. CASE d = c
      <4>1. calls'[d] = call /\ call \notin MarkCalls \cup ProbeCalls
        BY <1>2, <2>1, <2>6, <3>1, CallKinds
      <4>2. CopyIsRight(call)'
        BY <4>1, NoCopyIsRight
      <4> QED BY <4>1, <4>2 DEF CopyIsRight
    <3>2. CASE d # c
      <4>1. PICK p : p = calls[d]
        OBVIOUS
      <4>2. calls'[d] = p /\ CopyIsRight(p)
        BY <1>2, <2>6, <3>2, <4>1 DEF EditsInv
      <4>3. r \notin raced' => r \notin Copies(d)
        BY <2>1, <2>2, <3>2 DEF HeldByOthers
      <4>4. /\ p \in MarkCalls => Copies(d) = DOMAIN p.copies
            /\ p \in ProbeCalls => Copies(d) = {p.route}
        <5>1. CASE p \in MarkCalls
          <6>1. p.phase = "mark" /\ p.op # "none"
            BY <5>1 DEF MarkCalls
          <6>2. Busy(d, "mark") /\ ~Busy(d, "probe")
            BY <4>1, <6>1, NoCallIsCall DEF Busy
          <6>3. p \notin ProbeCalls
            BY <5>1, CallKinds
          <6> QED BY <4>1, <6>2, <6>3 DEF Copies
        <5>2. CASE p \in ProbeCalls
          <6>1. p.phase = "probe" /\ p.op # "none"
            BY <5>2 DEF ProbeCalls
          <6>2. Busy(d, "probe") /\ ~Busy(d, "mark")
            BY <4>1, <6>1, NoCallIsCall DEF Busy
          <6>3. p \notin MarkCalls
            BY <5>2, CallKinds
          <6> QED BY <4>1, <6>2, <6>3 DEF Copies
        <5> QED BY <5>1, <5>2
      <4>5. CopyIsRight(p)'
        <5>1. ASSUME NEW x \in DOMAIN routes' \ raced'
              PROVE  /\ p \in MarkCalls /\ x \in DOMAIN p.copies => p.copies[x].content = latest'[x]
                     /\ p \in ProbeCalls /\ p.route = x => p.doc.content = latest'[x]
          <6>1. CASE x = r
            BY <4>3, <4>4, <6>1
          <6>2. CASE x # r
            <7>1. x \in DOMAIN routes \ raced /\ latest'[x] = latest[x]
              BY <2>1, <2>3, <2>4, <6>2
            <7> QED BY <4>2, <7>1 DEF CopyIsRight
          <6> QED BY <6>1, <6>2
        <5> QED BY <5>1 DEF CopyIsRight
      <4> QED BY <4>2, <4>5 DEF CopyIsRight
    <3> QED BY <3>1, <3>2
  <2> QED BY <2>5, <2>7 DEF EditsInv
<1> QED BY <1>3, <1>4

LEMMA DeleteRouteEdits ==
    ASSUME ShapeInv, EditsInv, NEW r \in Routes, DeleteRoute(r)
    PROVE  EditsInv'
<1>1. /\ routes' = Restrict(routes, DOMAIN routes \ {r}) /\ latest' = Restrict(latest, DOMAIN latest \ {r})
      /\ UNCHANGED <<calls, raced>>
  BY DEF DeleteRoute
<1>2. /\ DOMAIN routes' = DOMAIN routes \ {r} /\ DOMAIN latest' = DOMAIN latest \ {r}
      /\ \A x \in DOMAIN routes \ {r} : routes'[x] = routes[x]
      /\ \A x \in DOMAIN latest \ {r} : latest'[x] = latest[x]
  BY <1>1 DEF Restrict
<1>3. DOMAIN routes = DOMAIN latest /\ \A x \in DOMAIN routes \ raced : routes[x].content = latest[x]
  BY DEF EditsInv
<1>4. ASSUME NEW d \in Callers PROVE CopyIsRight(calls[d])'
  <2>1. PICK p : p = calls[d]
    OBVIOUS
  <2>2. CopyIsRight(p) /\ calls'[d] = p
    BY <1>1, <2>1 DEF EditsInv
  <2>3. CopyIsRight(p)'
    BY <1>1, <1>2, <1>3, <2>2 DEF CopyIsRight
  <2> QED BY <2>2, <2>3 DEF CopyIsRight
<1> QED BY <1>1, <1>2, <1>3, <1>4 DEF EditsInv

LEMMA EditsNext == ShapeInv /\ EditsInv /\ [Next]_vars => EditsInv'
<1> SUFFICES ASSUME ShapeInv, EditsInv, [Next]_vars PROVE EditsInv'
  OBVIOUS
<1>1. ASSUME NEW c \in Callers, CallStep(c) PROVE EditsInv'
  <2>1. CASE QuietStep(c)
    BY <2>1, QuietEdits
  <2>2. CASE (\E r \in Routes : ProbeReads(c, r)) \/ ProbeWrites(c)
    BY <2>2, ProbeReadsEdits, ProbeWritesEdits
  <2>3. CASE StoreRoute(c) \/ ListRoutes(c) \/ MarkRoute(c)
    BY <2>3, StoreRouteEdits, ListRoutesEdits, MarkRouteEdits
  <2> QED BY <1>1, <2>1, <2>2, <2>3 DEF CallStep, QuietStep
<1>2. CASE \E r \in Routes : DeleteRoute(r)
  BY <1>2, DeleteRouteEdits
<1>3. CASE (\E p \in Patches : UpsertClusterConfig(p)) \/ Uninstall \/ UNCHANGED vars
  <2>1. UNCHANGED <<routes, latest, raced, calls>>
    BY <1>3 DEF UpsertClusterConfig, Uninstall, vars, documents, history
  <2> QED BY <2>1 DEF EditsInv, CopyIsRight
<1> QED BY <1>1, <1>2, <1>3 DEF Next

\* An edit is undone only by a call that had read the route before, whatever
\* saves, deletions, probes and markings of the routes overlap.
THEOREM EditsAreKept == Spec => []EditsStay
<1>1. EditsInv => EditsStay
  BY DEF EditsInv, EditsStay
<1> QED BY ShapeInit, ShapeNext, EditsInit, EditsNext, <1>1, PTL DEF Spec

(*******************************************************************************)
(* The cluster.  While publications are alone, complete and recorded, the      *)
(* runtime document names the bundle the DaemonSet mounts, every file of which *)
(* is in the cluster; what a publication has planned is right for the runtime  *)
(* document as it is now.                                                      *)
(*******************************************************************************)
Applying(q) == q \in OutcomeCalls /\ q.phase = "record" /\ q.outcome = "applied"

\* The plan of a publication leaves out only what the baseline has.
PlanFits(q) ==
    /\ q.baseline = runtime /\ q.manifest.daemon = q.bundle
    /\ DOMAIN q.manifest.maps \subseteq DOMAIN q.bundle
    /\ \A f \in DOMAIN q.manifest.maps : q.manifest.maps[f] = q.bundle[f]
    /\ \A f \in DOMAIN q.bundle \ DOMAIN q.manifest.maps :
           /\ q.task = "incremental" /\ Published(q.baseline)
           /\ f \in DOMAIN q.baseline.hash /\ q.baseline.hash[f] = q.bundle[f]

CallFits(q) ==
    /\ q \in PlanCalls => PlanFits(q)
    /\ q \in OutcomeCalls /\ q.phase = "record" /\ Installed =>
           /\ q.runtime.published /\ q.runtime.hash = daemon
           /\ q.outcome = "applied" => q.bundle = daemon

Alone == \A c, d \in Callers : calls[c].op = "publish" /\ calls[d].op = "publish" => c = d

ClusterInv ==
    orderly =>
        /\ Alone
        /\ Installed => \A f \in DOMAIN daemon : f \in DOMAIN maps /\ maps[f] = daemon[f]
        /\ Installed /\ (\A c \in Callers : ~Applying(calls[c])) =>
               Published(runtime) /\ runtime.hash = daemon
        /\ \A c \in Callers : CallFits(calls[c])

LEMMA OtherCallsFit ==
    ASSUME NEW q, q \notin PlanCalls \cup OutcomeCalls
    PROVE  CallFits(q) /\ CallFits(q)' /\ ~Applying(q)
BY DEF CallFits, Applying

LEMMA PublishingCalls ==
    ASSUME NEW q
    PROVE  /\ q \in PlanCalls \cup OutcomeCalls \cup CheckCalls => q.op = "publish"
           /\ q \in EditCalls \cup ProbeCalls \cup {NoCall} => q.op # "publish"
           /\ q \in EditCalls \cup ProbeCalls \cup CheckCalls \cup MarkCalls \cup {NoCall} =>
                  q \notin PlanCalls \cup OutcomeCalls
BY NoCallIsCall DEF PlanCalls, OutcomeCalls, CheckCalls, EditCalls, ProbeCalls, MarkCalls

LEMMA ClusterInit == Init => ClusterInv
<1> SUFFICES ASSUME Init PROVE ClusterInv
  OBVIOUS
<1>1. \A c \in Callers : calls[c] = NoCall
  BY DEF Init
<1>2. NoCall.op # "publish" /\ CallFits(NoCall)
  BY PublishingCalls, OtherCallsFit
<1>3. CASE StartsBare
  BY <1>1, <1>2, <1>3 DEF StartsBare, Installed, ClusterInv, Alone
<1>4. CASE StartsInstalled
  <2>1. /\ runtime.hash = daemon /\ runtime.published /\ runtime.status = "ready" /\ maps = daemon
    BY <1>4 DEF StartsInstalled
  <2>2. Published(runtime)
    BY <2>1 DEF Published, NoRuntime
  <2> QED BY <1>1, <1>2, <2>1, <2>2 DEF ClusterInv, Alone
<1> QED BY <1>3, <1>4 DEF Init

\* One call moves on, the cluster and the runtime document stay.
LEMMA ClusterMovesOn ==
    ASSUME ShapeInv, ClusterInv, NEW c \in Callers, NEW q, q = calls[c], NEW call,
           calls' = [calls EXCEPT ![c] = call], UNCHANGED <<runtime, maps, daemon>>,
           orderly' => /\ orderly /\ ~Applying(q) /\ CallFits(call)
                       /\ call.op = "publish" => q.op = "publish" \/ Publishing = {}
    PROVE  ClusterInv'
<1> SUFFICES ASSUME orderly' PROVE ClusterInv'
  BY DEF ClusterInv
<1>1. /\ orderly /\ ~Applying(q) /\ CallFits(call)
      /\ call.op = "publish" => q.op = "publish" \/ Publishing = {}
  OBVIOUS
<1>2. calls'[c] = call /\ \A d \in Callers \ {c} : calls'[d] = calls[d]
  BY DEF ShapeInv, CallsShape
<1>3. Alone'
  <2>1. Alone
    BY <1>1 DEF ClusterInv
  <2>2. \A d \in Callers : calls[d].op = "publish" => d \in Publishing
    BY DEF Publishing
  <2>3. SUFFICES ASSUME NEW d \in Callers \ {c}, calls[d].op = "publish", call.op = "publish" PROVE FALSE
    BY <1>2, <2>1 DEF Alone
  <2> QED BY <1>1, <2>1, <2>2, <2>3 DEF Alone
<1>4. Installed' = Installed /\ Published(runtime)' = Published(runtime)
  BY DEF Installed, Published
<1>5. Installed' => \A f \in DOMAIN daemon' : f \in DOMAIN maps' /\ maps'[f] = daemon'[f]
  BY <1>1, <1>4 DEF ClusterInv
<1>6. ASSUME Installed', \A d \in Callers : ~Applying(calls'[d])
      PROVE  Published(runtime)' /\ runtime'.hash = daemon'
  <2>1. \A d \in Callers : ~Applying(calls[d])
    BY <1>1, <1>2, <1>6
  <2> QED BY <1>1, <1>4, <1>6, <2>1 DEF ClusterInv
<1>7. ASSUME NEW d \in Callers PROVE CallFits(calls[d])'
  <2>1. PICK p : p = calls'[d]
    OBVIOUS
  <2>2. CallFits(p)
    BY <1>1, <1>2, <2>1 DEF ClusterInv
  <2>3. CallFits(p)'
    BY <1>4, <2>2 DEF CallFits, PlanFits, Published
  <2> QED BY <2>1, <2>3 DEF CallFits, PlanFits
<1>8. (\A d \in Callers : ~Applying(calls[d]))' => \A d \in Callers : ~Applying(calls'[d])
  BY DEF Applying
<1> QED BY <1>3, <1>5, <1>6, <1>7, <1>8 DEF ClusterInv

\* Calls that go on without the cluster.
LEMMA PlainStepCluster ==
    ASSUME ShapeInv, ClusterInv, NEW c \in Callers, NEW q, q = calls[c], NEW call,
           calls' = [calls EXCEPT ![c] = call], UNCHANGED <<runtime, maps, daemon, orderly>>,
           q \notin PlanCalls, call \notin PlanCalls \cup OutcomeCalls,
           q \in OutcomeCalls => q.phase = "list", call.op = "publish" => q.op = "publish"
    PROVE  ClusterInv'
<1>1. CallFits(call) /\ ~Applying(q)
  BY OtherCallsFit DEF Applying
<1> QED BY <1>1, ClusterMovesOn

LEMMA EditsCluster ==
    ASSUME ShapeInv, ClusterInv, NEW c \in Callers,
           \/ \E r \in Routes, x \in Contents : CreateReads(c, r, x) \/ UpdateReads(c, r, x)
           \/ StoreSource(c) \/ StoreRoute(c) \/ ListRoutes(c) \/ MarkRoute(c) \/ MarkingEnds(c)
           \/ \E r \in Routes : ProbeReads(c, r)
           \/ ProbeWrites(c)
    PROVE  ClusterInv'
<1>1. CASE \E r \in Routes, x \in Contents : CreateReads(c, r, x) \/ UpdateReads(c, r, x)
  <2>1. PICK r \in Routes, x \in Contents : CreateReads(c, r, x) \/ UpdateReads(c, r, x)
    BY <1>1
  <2>2. PICK call, bundle : EditBegun(c, r, x, call, bundle)
    BY <2>1, EditBegins
  <2>3. /\ calls' = [calls EXCEPT ![c] = call] /\ call \in EditCalls /\ calls[c] = NoCall
        /\ UNCHANGED <<runtime, maps, daemon, orderly>>
    BY <2>2 DEF EditBegun, Begins, documents, clusterVars
  <2>4. /\ calls[c] \notin PlanCalls \cup OutcomeCalls
        /\ call \notin PlanCalls \cup OutcomeCalls /\ call.op # "publish"
    BY <2>3, PublishingCalls
  <2> QED BY <2>3, <2>4, PlainStepCluster
<1>2. CASE StoreSource(c)
  <2>1. PICK q, call : StoreSourceDone(c, q, call)
    BY <1>2, StoreSourceDoes
  <2>2. /\ calls' = [calls EXCEPT ![c] = call] /\ q = calls[c] /\ call \in EditCalls /\ q \in EditCalls
        /\ UNCHANGED <<runtime, maps, daemon, orderly>>
    BY <2>1 DEF StoreSourceDone, SameEdit, clusterVars, history
  <2>3. q \notin PlanCalls \cup OutcomeCalls /\ call \notin PlanCalls \cup OutcomeCalls /\ call.op # "publish"
    BY <2>2, PublishingCalls
  <2> QED BY <2>2, <2>3, PlainStepCluster
<1>3. CASE StoreRoute(c)
  <2>1. PICK q, call : StoreRouteDone(c, q, call)
    BY <1>3, StoreRouteDoes
  <2>2. /\ calls' = [calls EXCEPT ![c] = call] /\ q = calls[c] /\ call \in EditCalls \cup {NoCall}
        /\ q \in EditCalls /\ UNCHANGED <<runtime, maps, daemon, orderly>>
    BY <2>1 DEF StoreRouteDone, SameEdit, clusterVars
  <2>3. q \notin PlanCalls \cup OutcomeCalls /\ call \notin PlanCalls \cup OutcomeCalls /\ call.op # "publish"
    BY <2>2, PublishingCalls
  <2> QED BY <2>2, <2>3, PlainStepCluster
<1>4. CASE ListRoutes(c)
  <2>1. PICK q, call : ListRoutesDone(c, q, call)
    BY <1>4, ListRoutesDoes
  <2>2. /\ calls' = [calls EXCEPT ![c] = call] /\ q = calls[c] /\ call \in MarkCalls
        /\ q \in EditCalls \cup OutcomeCalls /\ q.phase = "list" /\ call.op = q.op
        /\ UNCHANGED <<runtime, maps, daemon, orderly>>
    BY <2>1 DEF ListRoutesDone, documents, clusterVars, history
  <2>3. q \notin PlanCalls /\ call \notin PlanCalls \cup OutcomeCalls
    BY <2>2, PublishingCalls, CallKinds
  <2> QED BY <2>2, <2>3, PlainStepCluster
<1>5. CASE MarkRoute(c)
  <2>1. PICK q, call, r, doc : MarkRouteDone(c, q, call, r, doc)
    BY <1>5, MarkRouteDoes
  <2>2. /\ calls' = [calls EXCEPT ![c] = call] /\ q = calls[c] /\ q \in MarkCalls
        /\ call = NoCall \/ (call \in MarkCalls /\ call.op = q.op)
        /\ UNCHANGED <<runtime, maps, daemon, orderly>>
    BY <2>1 DEF MarkRouteDone, clusterVars, history
  <2>3. /\ q \notin PlanCalls \cup OutcomeCalls /\ call \notin PlanCalls \cup OutcomeCalls
        /\ call.op = "publish" => q.op = "publish"
    BY <2>2, PublishingCalls
  <2> QED BY <2>2, <2>3, PlainStepCluster
<1>6. CASE MarkingEnds(c) \/ ProbeWrites(c)
  <2>1. PICK q : q = calls[c]
    OBVIOUS
  <2>2. /\ calls' = [calls EXCEPT ![c] = NoCall] /\ q # NoCall /\ q.phase \in {"mark", "probe"}
        /\ UNCHANGED <<runtime, maps, daemon, orderly>>
    BY <1>6, <2>1 DEF MarkingEnds, ProbeWrites, Busy, Ends, documents, clusterVars, history
  <2>3. q \in MarkCalls \cup ProbeCalls
    BY <2>1, <2>2, NowBusy, CallsByPhase
  <2>4. /\ q \notin PlanCalls \cup OutcomeCalls /\ NoCall \notin PlanCalls \cup OutcomeCalls
        /\ NoCall.op # "publish"
    BY <2>3, PublishingCalls
  <2> QED BY <2>1, <2>2, <2>4, PlainStepCluster
<1>7. CASE \E r \in Routes : ProbeReads(c, r)
  <2>1. PICK r \in Routes : ProbeReads(c, r)
    BY <1>7
  <2>2. PICK call : ProbeReadsDone(c, r, call)
    BY <2>1, ProbeReadsDoes
  <2>3. /\ calls' = [calls EXCEPT ![c] = call] /\ call \in ProbeCalls /\ calls[c] = NoCall
        /\ UNCHANGED <<runtime, maps, daemon, orderly>>
    BY <2>2 DEF ProbeReadsDone, Begins, documents, clusterVars, history
  <2>4. /\ calls[c] \notin PlanCalls \cup OutcomeCalls
        /\ call \notin PlanCalls \cup OutcomeCalls /\ call.op # "publish"
    BY <2>3, PublishingCalls
  <2> QED BY <2>3, <2>4, PlainStepCluster
<1> QED BY <1>1, <1>2, <1>3, <1>4, <1>5, <1>6, <1>7

LEMMA StoreVersionCluster ==
    ASSUME ShapeInv, ClusterInv, NEW c \in Callers, StoreVersion(c)
    PROVE  ClusterInv'
<1>1. PICK q, call : StoreVersionDone(c, q, call)
  BY StoreVersionDoes
<1>2. /\ calls' = [calls EXCEPT ![c] = call] /\ q = calls[c]
      /\ UNCHANGED <<runtime, maps, daemon, orderly>>
  BY <1>1 DEF StoreVersionDone, clusterVars, history
<1>3. CASE SameEdit(q, call)
  <2>1. call \in EditCalls /\ q \in EditCalls
    BY <1>3 DEF SameEdit
  <2>2. q \notin PlanCalls \cup OutcomeCalls /\ call \notin PlanCalls \cup OutcomeCalls /\ call.op # "publish"
    BY <2>1, PublishingCalls
  <2> QED BY <1>2, <2>2, PlainStepCluster
<1>4. CASE ~SameEdit(q, call)
  <2>1. /\ q \in PlanCalls /\ call \in PlanCalls /\ call.bundle = q.bundle /\ call.task = q.task
        /\ call.manifest = q.manifest /\ call.baseline = q.baseline
    BY <1>1, <1>4 DEF StoreVersionDone
  <2>2. q.op = "publish" /\ q \notin OutcomeCalls /\ call \notin OutcomeCalls
    BY <2>1, PublishingCalls, CallKinds
  <2>3. orderly => CallFits(q)
    BY <1>2 DEF ClusterInv
  <2>4. orderly => CallFits(call) /\ ~Applying(q)
    BY <2>1, <2>2, <2>3 DEF CallFits, PlanFits, Applying
  <2> QED BY <1>2, <2>2, <2>4, ClusterMovesOn
<1> QED BY <1>3, <1>4

LEMMA PublishBeginsCluster ==
    ASSUME ShapeInv, ClusterInv, NEW c \in Callers,
           PublishReads(c) \/ \E scope \in SUBSET Routes : PublishChecks(c, scope)
    PROVE  ClusterInv'
<1>1. CASE PublishReads(c)
  <2>1. PICK call : PublishReadsDone(c, call)
    BY <1>1, PublishReadsDoes
  <2>2. /\ calls' = [calls EXCEPT ![c] = call] /\ calls[c] = NoCall /\ call \in CheckCalls
        /\ orderly' => orderly /\ Publishing = {}
        /\ UNCHANGED <<runtime, maps, daemon>>
    BY <2>1 DEF PublishReadsDone, Begins, documents, clusterVars
  <2>3. CallFits(call) /\ ~Applying(NoCall)
    BY <2>2, PublishingCalls, OtherCallsFit
  <2> QED BY <2>2, <2>3, ClusterMovesOn
<1>2. CASE \E scope \in SUBSET Routes : PublishChecks(c, scope)
  <2>1. PICK q, call, chosen : PublishChecksDone(c, q, call, chosen)
    BY <1>2, PublishChecksDoes
  <2>2. /\ calls' = [calls EXCEPT ![c] = call] /\ q = calls[c] /\ q \in CheckCalls /\ call \in PlanCalls
        /\ UNCHANGED <<runtime, maps, daemon>>
        /\ chosen \subseteq DOMAIN q.bundle
        /\ orderly' => orderly /\ chosen = IF Installed THEN Changed(q.bundle, runtime) ELSE DOMAIN q.bundle
        /\ call.bundle = q.bundle /\ call.baseline = runtime /\ call.manifest.daemon = q.bundle
        /\ call.task = (IF Installed THEN "incremental" ELSE "base")
        /\ call.manifest.maps = Restrict(q.bundle, chosen)
    BY <2>1 DEF PublishChecksDone, documents, clusterVars
  <2>3. q.op = "publish" /\ ~Applying(q) /\ call \notin OutcomeCalls
    BY <2>2, PublishingCalls, OtherCallsFit, CallKinds
  <2>4. /\ DOMAIN call.manifest.maps = chosen
        /\ \A f \in chosen : call.manifest.maps[f] = q.bundle[f]
    <3>1. q.bundle \in Bundles /\ chosen \in SUBSET DOMAIN q.bundle
      BY <2>2 DEF CheckCalls
    <3> QED BY <2>2, <3>1, RestrictedBundle
  <2>5. ASSUME orderly', NEW f \in DOMAIN q.bundle \ chosen
        PROVE  /\ Installed /\ Published(runtime)
               /\ f \in DOMAIN runtime.hash /\ runtime.hash[f] = q.bundle[f]
    <3>1. Installed /\ f \notin Changed(q.bundle, runtime)
      BY <2>2, <2>5
    <3> QED BY <3>1 DEF Changed, Published
  <2>6. orderly' => PlanFits(call)
    BY <2>2, <2>4, <2>5 DEF PlanFits
  <2>7. orderly' => CallFits(call)
    BY <2>3, <2>6 DEF CallFits
  <2> QED BY <2>2, <2>3, <2>7, ClusterMovesOn
<1> QED BY <1>1, <1>2

\* The publication under way is the only one.
LEMMA OnlyPublisher ==
    ASSUME ShapeInv, ClusterInv, orderly, NEW c \in Callers, calls[c].op = "publish"
    PROVE  \A d \in Callers \ {c} : calls[d] \notin PlanCalls \cup OutcomeCalls
BY PublishingCalls DEF ClusterInv, Alone

\* A publication that is not recorded yet: the runtime document is the one of the last.
LEMMA PublisherSees ==
    ASSUME ShapeInv, ClusterInv, orderly, Installed, NEW c \in Callers, calls[c] \in PlanCalls
    PROVE  Published(runtime) /\ runtime.hash = daemon
<1>1. calls[c].op = "publish" /\ calls[c] \notin OutcomeCalls
  BY PublishingCalls, CallKinds
<1>2. \A d \in Callers : ~Applying(calls[d])
  BY <1>1, OnlyPublisher DEF Applying
<1> QED BY <1>2 DEF ClusterInv

LEMMA PublishPreviewsCluster ==
    ASSUME ShapeInv, ClusterInv, NEW c \in Callers, PublishPreviews(c)
    PROVE  ClusterInv'
<1>1. PICK q, call : PublishPreviewsDone(c, q, call)
  BY PublishPreviewsDoes
<1>2. /\ calls' = [calls EXCEPT ![c] = call] /\ q = calls[c] /\ q \in PlanCalls /\ call \in OutcomeCalls
      /\ call.outcome = "previewed"
      /\ Published(q.baseline) => call.runtime.published /\ call.runtime.hash = q.baseline.hash
      /\ UNCHANGED <<runtime, maps, daemon, orderly>>
  BY <1>1 DEF PublishPreviewsDone, documents, history
<1>3. q.op = "publish" /\ ~Applying(q) /\ call \notin PlanCalls
  BY <1>2, PublishingCalls, CallKinds DEF Applying
<1>4. ASSUME orderly PROVE CallFits(call)
  <2>1. PlanFits(q)
    BY <1>2, <1>4 DEF ClusterInv, CallFits
  <2>2. Installed => Published(runtime) /\ runtime.hash = daemon
    BY <1>2, <1>4, PublisherSees
  <2> QED BY <1>2, <1>3, <2>1, <2>2 DEF CallFits, PlanFits
<1> QED BY <1>2, <1>3, <1>4, ClusterMovesOn

LEMMA PublishAppliesCluster ==
    ASSUME ShapeInv, ClusterInv, NEW c \in Callers, PublishApplies(c)
    PROVE  ClusterInv'
<1> SUFFICES ASSUME orderly' PROVE ClusterInv'
  BY DEF ClusterInv
<1>1. PICK q, call : PublishAppliesDone(c, q, call)
  BY PublishAppliesDoes
<1>2. /\ calls' = [calls EXCEPT ![c] = call] /\ q = calls[c] /\ q \in PlanCalls /\ call \in OutcomeCalls
      /\ call.phase = "record" /\ call.bundle = q.bundle /\ call.outcome = "applied"
      /\ call.runtime.published /\ call.runtime.hash = q.bundle
      /\ Apply(q.manifest, DOMAIN q.manifest.maps) /\ daemon' = q.manifest.daemon /\ Deployable(q)
      /\ orderly /\ runtime' = runtime
  BY <1>1 DEF PublishAppliesDone, documents, history
<1>3. q.op = "publish" /\ call.op = "publish" /\ call \notin PlanCalls /\ q.manifest \in Manifests
  BY <1>2, PublishingCalls, CallKinds DEF PlanCalls
<1>4. PlanFits(q)
  BY <1>2 DEF ClusterInv, CallFits
<1>5. daemon' = q.bundle
  BY <1>2, <1>4 DEF PlanFits
<1>6. /\ DOMAIN maps' = DOMAIN maps \cup DOMAIN q.manifest.maps
      /\ \A f \in DOMAIN q.manifest.maps : maps'[f] = q.manifest.maps[f]
      /\ \A f \in DOMAIN maps \ DOMAIN q.manifest.maps : maps'[f] = maps[f]
  BY <1>2, <1>3, AppliedMaps DEF ShapeInv, StateShape
<1>7. ASSUME NEW f \in DOMAIN q.bundle PROVE f \in DOMAIN maps' /\ maps'[f] = q.bundle[f]
  <2>1. CASE f \in DOMAIN q.manifest.maps
    BY <1>4, <1>6, <2>1 DEF PlanFits
  <2>2. CASE f \notin DOMAIN q.manifest.maps
    <3>1. /\ q.task = "incremental" /\ q.baseline = runtime
          /\ f \in DOMAIN runtime.hash /\ runtime.hash[f] = q.bundle[f]
      BY <1>4, <2>2 DEF PlanFits
    <3>2. Installed
      BY <1>2, <3>1 DEF Deployable
    <3>3. runtime.hash = daemon
      BY <1>2, <3>2, PublisherSees
    <3>4. f \in DOMAIN maps /\ maps[f] = daemon[f]
      BY <1>2, <3>1, <3>2, <3>3 DEF ClusterInv
    <3> QED BY <1>6, <2>2, <3>1, <3>3, <3>4
  <2> QED BY <2>1, <2>2
<1>8. calls'[c] = call /\ \A d \in Callers \ {c} : calls'[d] = calls[d]
  BY <1>2 DEF ShapeInv, CallsShape
<1>9. \A d \in Callers \ {c} : calls[d].op # "publish" /\ calls[d] \notin PlanCalls \cup OutcomeCalls
  BY <1>2, <1>3, OnlyPublisher DEF ClusterInv, Alone
<1>10. Alone'
  BY <1>8, <1>9 DEF Alone
<1>11. ASSUME NEW d \in Callers PROVE CallFits(calls[d])'
  <2>1. CASE d = c
    <3>1. CallFits(call)'
      BY <1>2, <1>3, <1>5 DEF CallFits
    <3> QED BY <1>8, <2>1, <3>1 DEF CallFits, PlanFits
  <2>2. CASE d # c
    <3>1. PICK p : p = calls[d]
      OBVIOUS
    <3>2. calls'[d] = p /\ CallFits(p)'
      BY <1>8, <1>9, <2>2, <3>1, OtherCallsFit
    <3> QED BY <3>2 DEF CallFits, PlanFits
  <2> QED BY <2>1, <2>2
<1>12. Applying(calls'[c])
  BY <1>2, <1>8 DEF Applying
<1>13. ~(\A d \in Callers : ~Applying(calls[d]))'
  BY <1>12 DEF Applying
<1> QED BY <1>5, <1>7, <1>10, <1>11, <1>13 DEF ClusterInv

LEMMA PublishRecordsCluster ==
    ASSUME ShapeInv, ClusterInv, NEW c \in Callers, PublishRecords(c)
    PROVE  ClusterInv'
<1> SUFFICES ASSUME orderly' PROVE ClusterInv'
  BY DEF ClusterInv
<1>1. PICK q, call : PublishRecordsDone(c, q, call)
  BY PublishRecordsDoes
<1>2. /\ calls' = [calls EXCEPT ![c] = call] /\ q = calls[c] /\ q \in OutcomeCalls /\ call \in OutcomeCalls
      /\ q.phase = "record" /\ call.phase = "list" /\ runtime' = q.runtime
      /\ UNCHANGED <<maps, daemon>> /\ orderly
  BY <1>1 DEF PublishRecordsDone, clusterVars, history
<1>3. q.op = "publish" /\ call \notin PlanCalls
  BY <1>2, PublishingCalls, CallKinds
<1>4. CallFits(q) /\ Alone
  BY <1>2 DEF ClusterInv
<1>5. q.runtime \in RuntimeShapes
  BY <1>2 DEF OutcomeCalls
<1>6. Installed' => Published(runtime)' /\ runtime'.hash = daemon'
  BY <1>2, <1>4, <1>5, RuntimeIsNotNone DEF CallFits, Published, Installed
<1>7. calls'[c] = call /\ \A d \in Callers \ {c} : calls'[d] = calls[d]
  BY <1>2 DEF ShapeInv, CallsShape
<1>8. \A d \in Callers \ {c} : calls[d].op # "publish" /\ calls[d] \notin PlanCalls \cup OutcomeCalls
  BY <1>2, <1>3, OnlyPublisher DEF ClusterInv, Alone
<1>9. Alone'
  BY <1>7, <1>8 DEF Alone
<1>10. ASSUME NEW d \in Callers PROVE CallFits(calls[d])'
  <2>1. CASE d = c
    <3>1. CallFits(call)'
      BY <1>2, <1>3 DEF CallFits
    <3> QED BY <1>7, <2>1, <3>1 DEF CallFits, PlanFits
  <2>2. CASE d # c
    <3>1. PICK p : p = calls[d]
      OBVIOUS
    <3>2. calls'[d] = p /\ CallFits(p)'
      BY <1>7, <1>8, <2>2, <3>1, OtherCallsFit
    <3> QED BY <3>2 DEF CallFits, PlanFits
  <2> QED BY <2>1, <2>2
<1>11. (Installed => \A f \in DOMAIN daemon : f \in DOMAIN maps /\ maps[f] = daemon[f])'
  BY <1>2 DEF ClusterInv, Installed
<1> QED BY <1>6, <1>9, <1>10, <1>11 DEF ClusterInv

LEMMA StoppedCluster ==
    ASSUME ShapeInv, ClusterInv, NEW c \in Callers,
           ApplyBreaks(c) \/ (\E token \in issued : PublishRefused(c, token)) \/ Fail(c)
    PROVE  ClusterInv'
<1>1. PICK q : q = calls[c]
  OBVIOUS
<1>2. CallFits(NoCall) /\ NoCall.op # "publish"
  BY PublishingCalls, OtherCallsFit
<1>3. CASE ApplyBreaks(c)
  BY <1>3 DEF ApplyBreaks, ClusterInv
<1>4. CASE \E token \in issued : PublishRefused(c, token)
  <2>1. /\ calls' = [calls EXCEPT ![c] = NoCall] /\ q # NoCall /\ q.phase = "deploy"
        /\ UNCHANGED <<runtime, maps, daemon, orderly>>
    BY <1>1, <1>4 DEF PublishRefused, Busy, Ends, documents, clusterVars, history
  <2>2. ~Applying(q)
    BY <2>1 DEF Applying
  <2> QED BY <1>1, <1>2, <2>1, <2>2, ClusterMovesOn
<1>5. CASE Fail(c)
  <2>1. /\ calls' = [calls EXCEPT ![c] = NoCall] /\ q # NoCall
        /\ UNCHANGED <<runtime, maps, daemon>>
        /\ orderly' => orderly /\ ~(q.op = "publish" /\ q.phase = "record" /\ q.outcome = "applied")
    BY <1>1, <1>5 DEF Fail, Busy, Ends, documents, clusterVars
  <2>2. orderly' => ~Applying(q)
    BY <2>1, PublishingCalls DEF Applying
  <2> QED BY <1>1, <1>2, <2>1, <2>2, ClusterMovesOn
<1> QED BY <1>3, <1>4, <1>5

LEMMA OutsideCluster ==
    ASSUME ShapeInv, ClusterInv,
           \/ \E r \in Routes : DeleteRoute(r)
           \/ \E p \in Patches : UpsertClusterConfig(p)
           \/ Uninstall
           \/ UNCHANGED vars
    PROVE  ClusterInv'
<1>1. UNCHANGED <<runtime, calls, orderly>>
  BY DEF DeleteRoute, UpsertClusterConfig, Uninstall, vars, documents, history
<1>2. Alone' = Alone /\ (\A d \in Callers : ~Applying(calls[d]))' = (\A d \in Callers : ~Applying(calls[d]))
  BY <1>1 DEF Alone, Applying
<1>3. CASE UNCHANGED <<maps, daemon>>
  <2>1. \A d \in Callers : CallFits(calls[d])' = CallFits(calls[d])
    BY <1>1, <1>3 DEF CallFits, PlanFits, Published, Installed
  <2> QED BY <1>1, <1>2, <1>3, <2>1 DEF ClusterInv, Installed, Published
<1>4. CASE Uninstall
  <2>1. ~Installed'
    BY <1>4 DEF Uninstall, Installed
  <2>2. \A d \in Callers : CallFits(calls[d]) => CallFits(calls[d])'
    BY <1>1, <2>1 DEF CallFits, PlanFits, Published
  <2> QED BY <1>1, <1>2, <2>1, <2>2 DEF ClusterInv
<1>5. UNCHANGED <<maps, daemon>> \/ Uninstall
  BY DEF DeleteRoute, UpsertClusterConfig, vars, clusterVars
<1> QED BY <1>3, <1>4, <1>5

LEMMA ClusterNext == ShapeInv /\ ClusterInv /\ [Next]_vars => ClusterInv'
<1> SUFFICES ASSUME ShapeInv, ClusterInv, [Next]_vars PROVE ClusterInv'
  OBVIOUS
<1>1. ASSUME NEW c \in Callers, CallStep(c) PROVE ClusterInv'
  <2>1. CASE \/ \E r \in Routes, x \in Contents : CreateReads(c, r, x) \/ UpdateReads(c, r, x)
             \/ StoreSource(c) \/ StoreRoute(c) \/ ListRoutes(c) \/ MarkRoute(c) \/ MarkingEnds(c)
             \/ \E r \in Routes : ProbeReads(c, r)
             \/ ProbeWrites(c)
    BY <2>1, EditsCluster
  <2>2. CASE StoreVersion(c)
    BY <2>2, StoreVersionCluster
  <2>3. CASE PublishReads(c) \/ \E scope \in SUBSET Routes : PublishChecks(c, scope)
    BY <2>3, PublishBeginsCluster
  <2>4. CASE PublishPreviews(c) \/ PublishApplies(c) \/ PublishRecords(c)
    BY <2>4, PublishPreviewsCluster, PublishAppliesCluster, PublishRecordsCluster
  <2>5. CASE ApplyBreaks(c) \/ (\E token \in issued : PublishRefused(c, token)) \/ Fail(c)
    BY <2>5, StoppedCluster
  <2> QED BY <1>1, <2>1, <2>2, <2>3, <2>4, <2>5 DEF CallStep
<1>2. CASE \/ \E r \in Routes : DeleteRoute(r)
           \/ \E p \in Patches : UpsertClusterConfig(p)
           \/ Uninstall
           \/ UNCHANGED vars
  BY <1>2, OutsideCluster
<1> QED BY <1>1, <1>2 DEF Next

LEMMA ClusterIsSound == ShapeInv /\ ClusterInv => SkippedFilesAreThere /\ MountsExist
<1> SUFFICES ASSUME ShapeInv, ClusterInv PROVE SkippedFilesAreThere /\ MountsExist
  OBVIOUS
<1>1. MountsExist
  BY DEF MountsExist, ClusterInv
<1>2. SkippedFilesAreThere
  <2>1. SUFFICES ASSUME orderly, Installed, \A c \in Callers : Busy(c, "record") => calls[c].outcome # "applied"
                 PROVE  /\ \A f \in DOMAIN daemon : f \in DOMAIN maps /\ maps[f] = daemon[f]
                        /\ runtime.hash = daemon
    BY DEF SkippedFilesAreThere
  <2>2. ASSUME NEW c \in Callers PROVE ~Applying(calls[c])
    <3>1. Applying(calls[c]) => Busy(c, "record") /\ calls[c].outcome = "applied"
      BY NoCallIsCall DEF Applying, OutcomeCalls, Busy
    <3> QED BY <2>1, <3>1
  <2> QED BY <2>1, <2>2 DEF ClusterInv
<1> QED BY <1>1, <1>2

\* Documents are well formed, what names a hash finds its bundle, and what an
\* incremental publication leaves out or the DaemonSet mounts is in the cluster.
THEOREM BundlesAreRight == Spec => []BundlesAreSound
<1>1. ShapeInv /\ ClusterInv => BundlesAreSound
  BY ShapeIsTyped, ClusterIsSound DEF BundlesAreSound
<1> QED BY ShapeInit, ShapeNext, ClusterInit, ClusterNext, <1>1, PTL DEF Spec

(***************************************************************************)
(* One call at a time.  A route shown as applied names a bundle with its   *)
(* content, and the collectors mount what a publication renders for it:    *)
(* nothing a call has read of the routes changes under it.                 *)
(***************************************************************************)
RoutesRun ==
    \A r \in DOMAIN routes : routes[r].publish = "applied" =>
        /\ Shows(routes[r].hash, r, routes[r].content)
        /\ orderly /\ Installed => ShowsPublished(daemon, r, routes[r].content)

\* The bundle of a publication is the one of the routes.
BundleIsOfRoutes(q) == \A r \in DOMAIN routes : ShowsPublished(q.bundle, r, routes[r].content)

SerialCall(q) ==
    /\ q.op = "publish" => BundleIsOfRoutes(q)
    /\ q \in OutcomeCalls \cup MarkCalls /\ q.op = "publish" /\ q.outcome = "applied" /\ orderly /\ Installed =>
           q.bundle = daemon
    /\ q \in MarkCalls =>
           /\ q.op # "publish" => q.outcome = "pending_publish"
           /\ \A r \in DOMAIN q.copies : r \in DOMAIN routes => q.copies[r].content = routes[r].content
    /\ q \in ProbeCalls => q.route \in DOMAIN routes /\ q.doc = routes[q.route]
    /\ q \in EditCalls /\ q.phase # "list" /\ q.doc.publish = "applied" =>
           /\ q.route \in DOMAIN routes /\ routes[q.route].publish = "applied"
           /\ routes[q.route].content = q.doc.content

Single == \A c, d \in Callers : calls[c] # NoCall /\ calls[d] # NoCall => c = d

SerialInv == serial => Single /\ RoutesRun /\ \A c \in Callers : SerialCall(calls[c])

LEMMA IdleIsSerial == SerialCall(NoCall) /\ SerialCall(NoCall)'
<1>1. NoCall.op # "publish" /\ NoCall \notin OutcomeCalls \cup MarkCalls \cup ProbeCalls \cup EditCalls
  BY NoCallIsCall DEF OutcomeCalls, MarkCalls, ProbeCalls, EditCalls
<1> QED BY <1>1 DEF SerialCall

LEMMA SerialInit == Init => SerialInv
<1> SUFFICES ASSUME Init PROVE SerialInv
  OBVIOUS
<1>1. DOMAIN routes = {} /\ \A c \in Callers : calls[c] = NoCall
  BY DEF Init, Nothing
<1> QED BY <1>1, IdleIsSerial DEF SerialInv, Single, RoutesRun

\* The others are idle: only the routes and the call that moved matter.
LEMMA SerialMovesOn ==
    ASSUME ShapeInv, SerialInv, NEW c \in Callers, NEW call,
           calls' = [calls EXCEPT ![c] = call], serial' = serial,
           serial => /\ calls[c] # NoCall \/ \A d \in Callers : calls[d] = NoCall
                     /\ SerialCall(call)' /\ RoutesRun'
    PROVE  SerialInv'
<1> SUFFICES ASSUME serial PROVE Single' /\ RoutesRun' /\ \A d \in Callers : SerialCall(calls[d])'
  BY DEF SerialInv
<1>1. \A d \in Callers \ {c} : calls[d] = NoCall
  BY DEF SerialInv, Single
<1>2. calls'[c] = call /\ \A d \in Callers \ {c} : calls'[d] = NoCall
  BY <1>1 DEF ShapeInv, CallsShape
<1>3. Single'
  BY <1>2 DEF Single
<1>4. ASSUME NEW d \in Callers PROVE SerialCall(calls[d])'
  <2>1. CASE d = c
    BY <1>2, <2>1 DEF SerialCall, BundleIsOfRoutes
  <2>2. CASE d # c
    <3>1. calls'[d] = NoCall
      BY <1>2, <2>2
    <3> QED BY <3>1, IdleIsSerial DEF SerialCall, BundleIsOfRoutes
  <2> QED BY <2>1, <2>2
<1> QED BY <1>3, <1>4

LEMMA RoutesStillRun ==
    ASSUME RoutesRun, UNCHANGED <<routes, maps, daemon>>, orderly' => orderly
    PROVE  RoutesRun'
BY DEF RoutesRun, Installed

\* A call that moves on and changes no route and nothing in the cluster.
LEMMA SerialGoesOn ==
    ASSUME ShapeInv, SerialInv, NEW c \in Callers, NEW call,
           calls' = [calls EXCEPT ![c] = call], UNCHANGED <<serial, routes, maps, daemon>>,
           orderly' => orderly,
           serial => calls[c] # NoCall \/ \A d \in Callers : calls[d] = NoCall,
           serial => SerialCall(call)
    PROVE  SerialInv'
<1>1. serial => RoutesRun'
  BY RoutesStillRun DEF SerialInv
<1>2. SerialCall(call) => SerialCall(call)'
  BY DEF SerialCall, BundleIsOfRoutes, Installed
<1> QED BY <1>1, <1>2, SerialMovesOn

LEMMA SerialBegins ==
    ASSUME NEW c \in Callers, NEW call, Begins(c, call)
    PROVE  /\ calls' = [calls EXCEPT ![c] = call]
           /\ serial => \A d \in Callers : calls[d] = NoCall
BY DEF Begins, MayBegin

LEMMA EditBeginsSerial ==
    ASSUME ShapeInv, SerialInv, NEW c \in Callers, NEW r \in Routes, NEW x \in Contents,
           CreateReads(c, r, x) \/ UpdateReads(c, r, x)
    PROVE  SerialInv'
<1>1. PICK call, bundle : EditBegun(c, r, x, call, bundle)
  BY EditBegins
<1>2. /\ Begins(c, call) /\ call \in EditCalls
      /\ call.route = r /\ call.doc.content = x /\ bundle = Render(InputsWith(r, x), patch)
      /\ UNCHANGED <<serial, routes, maps, daemon, orderly>>
  BY <1>1 DEF EditBegun, documents, clusterVars
<1>3. call \notin OutcomeCalls \cup MarkCalls \cup ProbeCalls /\ call.op # "publish"
  BY <1>2, CallKinds, PublishingCalls
<1>4. ASSUME serial, call.doc.publish = "applied"
      PROVE  r \in DOMAIN routes /\ routes[r].publish = "applied" /\ routes[r].content = x
  <2>1. /\ UpdateReads(c, r, x) /\ "applied" = StateAfterUpdate(routes[r], bundle)
    BY <1>1, <1>4 DEF EditBegun
  <2>2. r \in DOMAIN routes /\ routes[r].hash = bundle /\ routes[r].publish = "applied"
    BY <2>1 DEF UpdateReads, StateAfterUpdate
  <2>3. Shows(bundle, r, x)
    <3>1. StateShape
      BY DEF ShapeInv
    <3> QED BY <1>2, <3>1, EditShape
  <2>4. Shows(bundle, r, routes[r].content)
    BY <1>4, <2>2 DEF SerialInv, RoutesRun
  <2>5. routes[r].content = x
    BY <2>3, <2>4 DEF Shows
  <2> QED BY <2>2, <2>5
<1>5. serial => SerialCall(call)
  BY <1>2, <1>3, <1>4 DEF SerialCall
<1>6. /\ calls' = [calls EXCEPT ![c] = call]
      /\ serial => \A d \in Callers : calls[d] = NoCall
  BY <1>2, SerialBegins
<1> QED BY <1>2, <1>5, <1>6, SerialGoesOn

LEMMA StoreVersionSerial ==
    ASSUME ShapeInv, SerialInv, NEW c \in Callers, StoreVersion(c)
    PROVE  SerialInv'
<1>1. PICK q, call : StoreVersionDone(c, q, call)
  BY StoreVersionDoes
<1>2. /\ calls' = [calls EXCEPT ![c] = call] /\ q = calls[c] /\ q # NoCall /\ q.phase = "version"
      /\ UNCHANGED <<serial, routes, maps, daemon, orderly>>
  BY <1>1 DEF StoreVersionDone, clusterVars, history
<1>3. serial => SerialCall(q)
  BY <1>2 DEF SerialInv
<1>4. CASE SameEdit(q, call)
  <2>1. q \in EditCalls /\ call \in EditCalls /\ call.route = q.route /\ call.doc = q.doc
    BY <1>4 DEF SameEdit
  <2>2. call \notin OutcomeCalls \cup MarkCalls \cup ProbeCalls /\ call.op # "publish"
    BY <2>1, CallKinds, PublishingCalls
  <2>3. serial => SerialCall(call)
    BY <1>2, <1>3, <2>1, <2>2 DEF SerialCall
  <2> QED BY <1>2, <2>3, SerialGoesOn
<1>5. CASE q \in PlanCalls /\ call \in PlanCalls /\ call.bundle = q.bundle
  <2>1. /\ call \notin OutcomeCalls \cup MarkCalls \cup ProbeCalls \cup EditCalls /\ q.op = "publish"
    BY <1>5, CallKinds, PublishingCalls
  <2>2. serial => SerialCall(call)
    BY <1>3, <1>5, <2>1 DEF SerialCall, BundleIsOfRoutes
  <2> QED BY <1>2, <2>2, SerialGoesOn
<1> QED BY <1>1, <1>4, <1>5 DEF StoreVersionDone

LEMMA StoreSourceSerial ==
    ASSUME ShapeInv, SerialInv, NEW c \in Callers, StoreSource(c)
    PROVE  SerialInv'
<1>1. PICK q, call : StoreSourceDone(c, q, call)
  BY StoreSourceDoes
<1>2. /\ calls' = [calls EXCEPT ![c] = call] /\ q = calls[c] /\ q # NoCall /\ q.phase = "source"
      /\ SameEdit(q, call) /\ UNCHANGED <<serial, routes, maps, daemon, orderly>>
  BY <1>1 DEF StoreSourceDone, clusterVars, history
<1>3. serial => SerialCall(q)
  BY <1>2 DEF SerialInv
<1>4. q \in EditCalls /\ call \in EditCalls /\ call.route = q.route /\ call.doc = q.doc
  BY <1>2 DEF SameEdit
<1>5. call \notin OutcomeCalls \cup MarkCalls \cup ProbeCalls /\ call.op # "publish"
  BY <1>4, CallKinds, PublishingCalls
<1>6. serial => SerialCall(call)
  BY <1>2, <1>3, <1>4, <1>5 DEF SerialCall
<1> QED BY <1>2, <1>6, SerialGoesOn

LEMMA SerialEnds ==
    ASSUME ShapeInv, SerialInv, NEW c \in Callers, calls[c] # NoCall, Ends(c),
           UNCHANGED <<serial, routes, maps, daemon>>, orderly' => orderly
    PROVE  SerialInv'
BY IdleIsSerial, SerialGoesOn DEF Ends

\* What is stored as applied was applied before, with the same content.
LEMMA StoreRouteSerial ==
    ASSUME ShapeInv, SerialInv, NEW c \in Callers, StoreRoute(c)
    PROVE  SerialInv'
<1>1. PICK q, call : StoreRouteDone(c, q, call)
  BY StoreRouteDoes
<1>2. /\ calls' = [calls EXCEPT ![c] = call] /\ q = calls[c] /\ q # NoCall /\ q.phase = "route"
      /\ q \in EditCalls /\ UNCHANGED <<serial, maps, daemon, orderly>>
  BY <1>1 DEF StoreRouteDone, clusterVars
<1>3. CASE call = NoCall /\ UNCHANGED routes
  BY <1>2, <1>3, SerialEnds DEF Ends
<1>4. CASE /\ SameEdit(q, call) /\ call.phase = "list"
           /\ routes' = [y \in DOMAIN routes \cup {q.route} |-> IF y = q.route THEN q.doc ELSE routes[y]]
  <2>1. CallKept(q)
    BY <1>2, NowBusy
  <2>2. q.doc.hash = q.bundle /\ Shows(q.bundle, q.route, q.doc.content)
    BY <1>2, <2>1 DEF CallKept
  <2>3. PICK r, doc : r = q.route /\ doc = q.doc
    OBVIOUS
  <2>4. /\ DOMAIN routes' = DOMAIN routes \cup {r} /\ routes'[r] = doc
        /\ \A y \in DOMAIN routes \ {r} : routes'[y] = routes[y]
    BY <1>4, <2>3
  <2>5. ASSUME serial PROVE RoutesRun'
    <3>1. RoutesRun /\ SerialCall(q)
      BY <1>2, <2>5 DEF SerialInv
    <3>2. doc.publish = "applied" =>
            r \in DOMAIN routes /\ routes[r].publish = "applied" /\ routes[r].content = doc.content
      BY <1>2, <2>3, <3>1 DEF SerialCall
    <3>3. Shows(doc.hash, r, doc.content)
      BY <2>2, <2>3
    <3> QED BY <1>2, <2>4, <3>1, <3>2, <3>3 DEF RoutesRun, Installed
  <2>6. call \in EditCalls
    BY <1>4 DEF SameEdit
  <2>7. call \notin OutcomeCalls \cup MarkCalls \cup ProbeCalls /\ call.op # "publish"
    BY <2>6, CallKinds, PublishingCalls
  <2>8. SerialCall(call)'
    BY <1>4, <2>7 DEF SerialCall
  <2> QED BY <1>2, <2>5, <2>8, SerialMovesOn
<1> QED BY <1>1, <1>3, <1>4 DEF StoreRouteDone

LEMMA ListRoutesSerial ==
    ASSUME ShapeInv, SerialInv, NEW c \in Callers, ListRoutes(c)
    PROVE  SerialInv'
<1>1. PICK q, call : ListRoutesDone(c, q, call)
  BY ListRoutesDoes
<1>2. /\ calls' = [calls EXCEPT ![c] = call] /\ q = calls[c] /\ q # NoCall
      /\ call \in MarkCalls /\ call.op = q.op /\ call.bundle = q.bundle /\ call.copies = routes
      /\ UNCHANGED <<serial, routes, maps, daemon, orderly>>
  BY <1>1 DEF ListRoutesDone, documents, clusterVars, history
<1>3. serial => SerialCall(q)
  BY <1>2 DEF SerialInv
<1>4. call \notin OutcomeCalls \cup ProbeCalls \cup EditCalls
  BY <1>2, CallKinds
<1>5. CASE q \in EditCalls /\ call.outcome = "pending_publish"
  <2>1. q.op # "publish"
    BY <1>5, PublishingCalls
  <2>2. SerialCall(call)
    BY <1>2, <1>4, <1>5, <2>1 DEF SerialCall
  <2> QED BY <1>2, <2>2, SerialGoesOn
<1>6. CASE q \in OutcomeCalls /\ call.outcome = q.outcome
  <2>1. q.op = "publish"
    BY <1>6, PublishingCalls
  <2>2. serial => SerialCall(call)
    BY <1>2, <1>3, <1>4, <1>6, <2>1 DEF SerialCall, BundleIsOfRoutes
  <2> QED BY <1>2, <2>2, SerialGoesOn
<1> QED BY <1>1, <1>5, <1>6 DEF ListRoutesDone

\* What is marked as applied is in the bundle that was applied.
LEMMA MarkRouteSerial ==
    ASSUME ShapeInv, ClusterInv, SerialInv, NEW c \in Callers, MarkRoute(c)
    PROVE  SerialInv'
<1>1. PICK q, call, r, doc : MarkRouteDone(c, q, call, r, doc)
  BY MarkRouteDoes
<1>2. /\ calls' = [calls EXCEPT ![c] = call] /\ q = calls[c] /\ q # NoCall /\ q \in MarkCalls
      /\ UNCHANGED <<serial, maps, daemon, orderly>>
  BY <1>1 DEF MarkRouteDone, clusterVars, history
<1>3. CASE call = NoCall /\ UNCHANGED routes
  BY <1>2, <1>3, SerialEnds DEF Ends
<1>4. CASE ~(call = NoCall /\ UNCHANGED routes)
  <2>1. /\ r \in DOMAIN routes /\ routes' = [routes EXCEPT ![r] = doc]
        /\ call \in MarkCalls /\ call.op = q.op /\ call.bundle = q.bundle
        /\ call.outcome = q.outcome
        /\ DOMAIN call.copies = DOMAIN q.copies \ {r}
        /\ \A y \in DOMAIN call.copies : call.copies[y] = q.copies[y]
    BY <1>1, <1>4 DEF MarkRouteDone
  <2>2. q \in MarkCalls /\ r \in DOMAIN q.copies /\ doc = Marked(q, r)
    BY <1>1 DEF MarkRouteDone
  <2>3. /\ doc.content = q.copies[r].content /\ doc.hash = q.bundle
        /\ doc.publish = IF q.op = "publish" \/ r = q.route
                            \/ q.copies[r].publish \notin {"", "pending_publish"}
                         THEN q.outcome ELSE q.copies[r].publish
    BY <2>2, MarkedDoc, ZenonT(60)
  <2>4. routes \in [DOMAIN routes -> Docs]
    BY RouteMapElim DEF ShapeInv, StateShape
  <2>5. /\ DOMAIN routes' = DOMAIN routes /\ routes'[r] = doc
        /\ \A y \in DOMAIN routes \ {r} : routes'[y] = routes[y]
    BY <2>1, <2>4
  <2>6. call \notin OutcomeCalls \cup ProbeCalls \cup EditCalls
    BY <2>1, CallKinds
  <2>7. ASSUME serial PROVE SerialCall(call)' /\ RoutesRun'
    <3>1. RoutesRun /\ SerialCall(q)
      BY <1>2, <2>7 DEF SerialInv
    <3>2. doc.content = routes[r].content
      BY <2>1, <2>2, <2>3, <3>1 DEF SerialCall
    <3>3. \A y \in DOMAIN routes : routes'[y].content = routes[y].content
      BY <2>5, <3>2
    <3>4. q.op = "publish" => BundleIsOfRoutes(call)'
      BY <2>1, <2>5, <3>1, <3>3 DEF SerialCall, BundleIsOfRoutes
    <3>5. SerialCall(call)'
      BY <1>2, <2>1, <2>2, <2>5, <2>6, <3>1, <3>3, <3>4 DEF SerialCall, Installed
    <3>6. doc.publish = "applied" => q.op = "publish" /\ q.outcome = "applied"
      BY <2>2, <2>3, <3>1 DEF SerialCall
    <3>7. doc.publish = "applied" => /\ ShowsPublished(q.bundle, r, doc.content)
                                     /\ orderly /\ Installed => q.bundle = daemon
      BY <2>1, <2>2, <3>1, <3>2, <3>6 DEF SerialCall, BundleIsOfRoutes
    <3>8. doc.content \in Contents
      <4>1. doc \in Docs
        BY <2>2, MarkedDoc
      <4> QED BY <4>1 DEF Docs
    <3>9. doc.publish = "applied" => Shows(doc.hash, r, doc.content)
      BY <2>3, <3>7, <3>8, PublishedShows
    <3>10. RoutesRun'
      BY <1>2, <2>5, <3>1, <3>7, <3>9 DEF RoutesRun, Installed
    <3> QED BY <3>5, <3>10
  <2> QED BY <1>2, <2>7, SerialMovesOn
<1> QED BY <1>3, <1>4

LEMMA ProbeSerial ==
    ASSUME ShapeInv, SerialInv, NEW c \in Callers,
           (\E r \in Routes : ProbeReads(c, r)) \/ ProbeWrites(c)
    PROVE  SerialInv'
<1>1. CASE \E r \in Routes : ProbeReads(c, r)
  <2>1. PICK r \in Routes : ProbeReads(c, r)
    BY <1>1
  <2>2. PICK call : ProbeReadsDone(c, r, call)
    BY <2>1, ProbeReadsDoes
  <2>3. /\ Begins(c, call) /\ call \in ProbeCalls /\ call.route = r /\ call.doc = routes[r]
        /\ r \in DOMAIN routes /\ UNCHANGED <<serial, routes, maps, daemon, orderly>>
    BY <2>2 DEF ProbeReadsDone, documents, clusterVars, history
  <2>4. call \notin OutcomeCalls \cup MarkCalls \cup EditCalls /\ call.op # "publish"
    BY <2>3, CallKinds, PublishingCalls
  <2>5. SerialCall(call)
    BY <2>3, <2>4 DEF SerialCall
  <2>6. /\ calls' = [calls EXCEPT ![c] = call]
        /\ serial => \A d \in Callers : calls[d] = NoCall
    BY <2>3, SerialBegins
  <2> QED BY <2>3, <2>5, <2>6, SerialGoesOn
<1>2. CASE ProbeWrites(c)
  <2>1. PICK q : ProbeWritesDone(c, q)
    BY <1>2, ProbeWritesDoes
  <2>2. /\ q = calls[c] /\ q # NoCall /\ q \in ProbeCalls /\ calls' = [calls EXCEPT ![c] = NoCall]
        /\ UNCHANGED <<serial, maps, daemon, orderly>>
    BY <2>1 DEF ProbeWritesDone, Ends, clusterVars, history
  <2>3. ASSUME serial PROVE routes' = routes
    <3>1. SerialCall(q)
      BY <2>2, <2>3 DEF SerialInv
    <3>2. q.route \in DOMAIN routes /\ q.doc = routes[q.route]
      BY <2>2, <3>1 DEF SerialCall
    <3>3. routes \in [DOMAIN routes -> Docs]
      BY RouteMapElim DEF ShapeInv, StateShape
    <3>4. routes' = [routes EXCEPT ![q.route] = routes[q.route]]
      BY <2>1, <3>2 DEF ProbeWritesDone
    <3> QED BY <3>2, <3>3, <3>4
  <2>4. serial => RoutesRun'
    BY <2>2, <2>3, RoutesStillRun DEF SerialInv
  <2> QED BY <2>2, <2>4, IdleIsSerial, SerialMovesOn
<1> QED BY <1>1, <1>2

\* Between the calls.
LEMMA OutsideSerial ==
    ASSUME ShapeInv, SerialInv,
           \/ \E r \in Routes : DeleteRoute(r)
           \/ \E p \in Patches : UpsertClusterConfig(p)
           \/ Uninstall
           \/ UNCHANGED vars
    PROVE  SerialInv'
<1>1. CASE \E r \in Routes : DeleteRoute(r)
  <2>1. PICK r \in Routes : DeleteRoute(r)
    BY <1>1
  <2>2. /\ routes' = Restrict(routes, DOMAIN routes \ {r})
        /\ UNCHANGED <<maps, daemon, orderly, calls, serial>>
        /\ serial => \A d \in Callers : calls[d] = NoCall
    BY <2>1 DEF DeleteRoute, MayBegin, clusterVars
  <2>3. DOMAIN routes' \subseteq DOMAIN routes /\ \A y \in DOMAIN routes' : routes'[y] = routes[y]
    BY <2>2 DEF Restrict
  <2>4. ASSUME serial PROVE RoutesRun' /\ Single' /\ \A d \in Callers : SerialCall(calls[d])'
    <3>1. RoutesRun'
      BY <2>2, <2>3, <2>4 DEF SerialInv, RoutesRun, Installed
    <3>2. Single'
      BY <2>2, <2>4 DEF SerialInv, Single
    <3>3. ASSUME NEW d \in Callers PROVE SerialCall(calls[d])'
      <4>1. calls'[d] = NoCall
        BY <2>2, <2>4
      <4> QED BY <4>1, IdleIsSerial DEF SerialCall, BundleIsOfRoutes
    <3> QED BY <3>1, <3>2, <3>3
  <2> QED BY <2>2, <2>4 DEF SerialInv
<1>2. CASE (\E p \in Patches : UpsertClusterConfig(p)) \/ UNCHANGED vars
  <2>1. UNCHANGED <<routes, maps, daemon, orderly, calls, serial>>
    BY <1>2 DEF UpsertClusterConfig, vars, documents, clusterVars, history
  <2> QED BY <2>1 DEF SerialInv, Single, RoutesRun, SerialCall, BundleIsOfRoutes, Installed
<1>3. CASE Uninstall
  <2>1. UNCHANGED <<routes, orderly, calls, serial>> /\ ~Installed'
    BY <1>3 DEF Uninstall, documents, history, Installed
  <2>2. RoutesRun => RoutesRun'
    BY <2>1 DEF RoutesRun
  <2>3. \A d \in Callers : SerialCall(calls[d]) => SerialCall(calls[d])'
    BY <2>1 DEF SerialCall, BundleIsOfRoutes
  <2> QED BY <2>1, <2>2, <2>3 DEF SerialInv, Single
<1> QED BY <1>1, <1>2, <1>3

LEMMA PublishBeginsSerial ==
    ASSUME ShapeInv, SerialInv, NEW c \in Callers,
           PublishReads(c) \/ \E scope \in SUBSET Routes : PublishChecks(c, scope)
    PROVE  SerialInv'
<1>1. CASE PublishReads(c)
  <2>1. PICK call : PublishReadsDone(c, call)
    BY <1>1, PublishReadsDoes
  <2>2. /\ Begins(c, call) /\ call \in CheckCalls /\ call.bundle = Render(Inputs, patch)
        /\ orderly' => orderly
        /\ UNCHANGED <<serial, routes, maps, daemon>>
    BY <2>1 DEF PublishReadsDone, documents, clusterVars
  <2>3. call \notin OutcomeCalls \cup MarkCalls \cup ProbeCalls \cup EditCalls
    BY <2>2, CallKinds
  <2>4. BundleIsOfRoutes(call)
    <3>1. StateShape
      BY DEF ShapeInv
    <3>2. PICK bundle : bundle = Render(Inputs, patch)
      OBVIOUS
    <3>3. \A s \in DOMAIN routes : ShowsPublished(bundle, s, routes[s].content)
      BY <3>1, <3>2, InputShape
    <3> QED BY <2>2, <3>2, <3>3 DEF BundleIsOfRoutes
  <2>5. SerialCall(call)
    BY <2>3, <2>4 DEF SerialCall
  <2>6. /\ calls' = [calls EXCEPT ![c] = call]
        /\ serial => \A d \in Callers : calls[d] = NoCall
    BY <2>2, SerialBegins
  <2> QED BY <2>2, <2>5, <2>6, SerialGoesOn
<1>2. CASE \E scope \in SUBSET Routes : PublishChecks(c, scope)
  <2>1. PICK q, call, chosen : PublishChecksDone(c, q, call, chosen)
    BY <1>2, PublishChecksDoes
  <2>2. /\ calls' = [calls EXCEPT ![c] = call] /\ q = calls[c] /\ q # NoCall /\ q \in CheckCalls
        /\ call \in PlanCalls /\ call.bundle = q.bundle
    BY <2>1 DEF PublishChecksDone
  <2>7. UNCHANGED <<serial, routes, maps, daemon>>
    BY <2>1 DEF PublishChecksDone, documents, clusterVars
  <2>3. call \notin OutcomeCalls \cup MarkCalls \cup ProbeCalls \cup EditCalls
    BY <2>2, CallKinds
  <2>8. q.op = "publish"
    BY <2>2, PublishingCalls
  <2>4. serial => SerialCall(q)
    BY <2>2 DEF SerialInv
  <2>5. serial => SerialCall(call)
    BY <2>2, <2>3, <2>4, <2>8 DEF SerialCall, BundleIsOfRoutes
  <2>6. orderly' => orderly
    BY <2>1 DEF PublishChecksDone
  <2> QED BY <2>2, <2>5, <2>6, <2>7, SerialGoesOn
<1> QED BY <1>1, <1>2

LEMMA PublishPreviewsSerial ==
    ASSUME ShapeInv, SerialInv, NEW c \in Callers, PublishPreviews(c)
    PROVE  SerialInv'
<1>1. PICK q, call : PublishPreviewsDone(c, q, call)
  BY PublishPreviewsDoes
<1>2. /\ calls' = [calls EXCEPT ![c] = call] /\ q = calls[c] /\ q # NoCall /\ q \in PlanCalls
      /\ call \in OutcomeCalls /\ call.bundle = q.bundle /\ call.outcome = "previewed"
      /\ UNCHANGED <<serial, routes, maps, daemon, orderly>>
  BY <1>1 DEF PublishPreviewsDone, documents, history
<1>3. call \notin MarkCalls \cup ProbeCalls \cup EditCalls /\ q.op = "publish"
  BY <1>2, CallKinds, PublishingCalls
<1>4. serial => SerialCall(q)
  BY <1>2 DEF SerialInv
<1>5. serial => SerialCall(call)
  BY <1>2, <1>3, <1>4 DEF SerialCall, BundleIsOfRoutes
<1> QED BY <1>2, <1>5, SerialGoesOn

\* After an apply the cluster runs what every route says now.
LEMMA PublishAppliesSerial ==
    ASSUME ShapeInv, ClusterInv, SerialInv, NEW c \in Callers, PublishApplies(c)
    PROVE  SerialInv'
<1>1. PICK q, call : PublishAppliesDone(c, q, call)
  BY PublishAppliesDoes
<1>2. /\ calls' = [calls EXCEPT ![c] = call] /\ q = calls[c] /\ q # NoCall /\ q \in PlanCalls
      /\ call \in OutcomeCalls /\ call.bundle = q.bundle /\ daemon' = q.manifest.daemon
      /\ UNCHANGED <<serial, routes, orderly>>
  BY <1>1 DEF PublishAppliesDone, documents, history
<1>3. call \notin MarkCalls \cup ProbeCalls \cup EditCalls /\ q.op = "publish"
  BY <1>2, CallKinds, PublishingCalls
<1>4. orderly => daemon' = q.bundle
  BY <1>2 DEF ClusterInv, CallFits, PlanFits
<1>5. ClusterInv'
  BY PublishAppliesCluster
<1>6. ASSUME serial PROVE SerialCall(call)' /\ RoutesRun'
  <2>1. SerialCall(q) /\ RoutesRun
    BY <1>2, <1>6 DEF SerialInv
  <2>2. BundleIsOfRoutes(q)
    BY <1>3, <2>1 DEF SerialCall
  <2>3. BundleIsOfRoutes(call)'
    BY <1>2, <2>2 DEF BundleIsOfRoutes
  <2>4. SerialCall(call)'
    BY <1>2, <1>3, <1>4, <2>3 DEF SerialCall
  <2>5. ASSUME NEW r \in DOMAIN routes, orderly PROVE ShowsPublished(daemon', r, routes[r].content)
    BY <1>4, <2>2, <2>5 DEF BundleIsOfRoutes
  <2>6. RoutesRun'
    BY <1>2, <2>1, <2>5 DEF RoutesRun
  <2> QED BY <2>4, <2>6
<1> QED BY <1>2, <1>6, SerialMovesOn

LEMMA PublishRecordsSerial ==
    ASSUME ShapeInv, SerialInv, NEW c \in Callers, PublishRecords(c)
    PROVE  SerialInv'
<1>1. PICK q, call : PublishRecordsDone(c, q, call)
  BY PublishRecordsDoes
<1>2. /\ calls' = [calls EXCEPT ![c] = call] /\ q = calls[c] /\ q # NoCall /\ q \in OutcomeCalls
      /\ call \in OutcomeCalls /\ call.bundle = q.bundle /\ call.outcome = q.outcome
      /\ UNCHANGED <<serial, routes, maps, daemon, orderly>>
  BY <1>1 DEF PublishRecordsDone, clusterVars, history
<1>3. call \notin MarkCalls \cup ProbeCalls \cup EditCalls /\ q.op = "publish" /\ call.op = "publish"
  BY <1>2, CallKinds, PublishingCalls
<1>4. serial => SerialCall(q)
  BY <1>2 DEF SerialInv
<1>5. serial => SerialCall(call)
  BY <1>2, <1>3, <1>4 DEF SerialCall, BundleIsOfRoutes
<1> QED BY <1>2, <1>5, SerialGoesOn

LEMMA StoppedSerial ==
    ASSUME ShapeInv, SerialInv, NEW c \in Callers,
           \/ ApplyBreaks(c) \/ (\E token \in issued : PublishRefused(c, token)) \/ Fail(c) \/ MarkingEnds(c)
    PROVE  SerialInv'
<1>1. calls[c] # NoCall /\ Ends(c) /\ UNCHANGED <<serial, routes>>
  BY DEF ApplyBreaks, PublishRefused, Fail, MarkingEnds, Busy, documents, history
<1>2. CASE ApplyBreaks(c)
  <2>1. orderly' = FALSE
    BY <1>2 DEF ApplyBreaks
  <2>2. RoutesRun => RoutesRun'
    BY <1>1, <2>1 DEF RoutesRun
  <2> QED BY <1>1, <2>2, IdleIsSerial, SerialMovesOn DEF Ends, SerialInv
<1>3. CASE (\E token \in issued : PublishRefused(c, token)) \/ Fail(c) \/ MarkingEnds(c)
  <2>1. UNCHANGED <<maps, daemon>>
    BY <1>3 DEF PublishRefused, Fail, MarkingEnds, clusterVars
  <2>2. orderly' => orderly
    <3>1. CASE Fail(c)
      BY <3>1 DEF Fail
    <3>2. CASE (\E token \in issued : PublishRefused(c, token)) \/ MarkingEnds(c)
      BY <3>2 DEF PublishRefused, MarkingEnds, history
    <3> QED BY <1>3, <3>1, <3>2
  <2> QED BY <1>1, <2>1, <2>2, SerialEnds
<1> QED BY <1>2, <1>3

LEMMA SerialNext == ShapeInv /\ ClusterInv /\ SerialInv /\ [Next]_vars => SerialInv'
<1> SUFFICES ASSUME ShapeInv, ClusterInv, SerialInv, [Next]_vars PROVE SerialInv'
  OBVIOUS
<1>1. ASSUME NEW c \in Callers, CallStep(c) PROVE SerialInv'
  <2>1. CASE \E r \in Routes, x \in Contents : CreateReads(c, r, x) \/ UpdateReads(c, r, x)
    BY <2>1, EditBeginsSerial
  <2>2. CASE StoreVersion(c) \/ StoreSource(c) \/ StoreRoute(c)
    BY <2>2, StoreVersionSerial, StoreSourceSerial, StoreRouteSerial
  <2>3. CASE ListRoutes(c) \/ MarkRoute(c)
    BY <2>3, ListRoutesSerial, MarkRouteSerial
  <2>4. CASE (\E r \in Routes : ProbeReads(c, r)) \/ ProbeWrites(c)
    BY <2>4, ProbeSerial
  <2>5. CASE PublishReads(c) \/ \E scope \in SUBSET Routes : PublishChecks(c, scope)
    BY <2>5, PublishBeginsSerial
  <2>6. CASE PublishPreviews(c) \/ PublishApplies(c) \/ PublishRecords(c)
    BY <2>6, PublishPreviewsSerial, PublishAppliesSerial, PublishRecordsSerial
  <2>7. CASE ApplyBreaks(c) \/ (\E token \in issued : PublishRefused(c, token)) \/ Fail(c) \/ MarkingEnds(c)
    BY <2>7, StoppedSerial
  <2> QED BY <1>1, <2>1, <2>2, <2>3, <2>4, <2>5, <2>6, <2>7 DEF CallStep
<1>2. CASE \/ \E r \in Routes : DeleteRoute(r)
           \/ \E p \in Patches : UpsertClusterConfig(p)
           \/ Uninstall
           \/ UNCHANGED vars
  BY <1>2, OutsideSerial
<1> QED BY <1>1, <1>2 DEF Next

\* With one call at a time, each of which may stop after any step, a route
\* shown as applied is what the collectors mount, rendered without a tenant.
THEOREM AppliedRoutesRun == Spec => []AppliedRouteRuns
<1>1. ASSUME ClusterInv, SerialInv, serial, orderly, Installed,
             NEW r \in DOMAIN routes, routes[r].publish = "applied"
      PROVE  /\ FilesOf(r, daemon) # {}
             /\ \A f \in FilesOf(r, daemon) :
                   f \in DOMAIN maps /\ AsPublished(f, maps[f], routes[r].content)
  <2>1. ShowsPublished(daemon, r, routes[r].content)
    BY <1>1 DEF SerialInv, RoutesRun
  <2>2. \A f \in FilesOf(r, daemon) : f \in DOMAIN maps /\ maps[f] = daemon[f]
    BY <1>1 DEF ClusterInv, FilesOf
  <2> QED BY <2>1, <2>2 DEF ShowsPublished
<1>2. ClusterInv /\ SerialInv => AppliedRouteRuns
  BY <1>1 DEF AppliedRouteRuns
<1> QED BY ShapeInit, ShapeNext, ClusterInit, ClusterNext, SerialInit, SerialNext, <1>2, PTL DEF Spec
===============================================================================
