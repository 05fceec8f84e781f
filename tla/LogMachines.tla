------------------------------ MODULE LogMachines ------------------------------
(***************************************************************************)
(* The machines whose log agents belong to a file route: logs.Service writes    *)
(* an audit event, then the machine's document, then another audit event, and     *)
(* takes the change back when that one cannot be written.  Deleting the route       *)
(* deletes its machines first.  One route; nothing is locked.                         *)
(***************************************************************************)
EXTENDS Naturals, Functions, FiniteSets

CONSTANTS
    MachineCallers,
    Addresses,
    MachineIDs         \* generated: one is free again once nothing names it

VARIABLES
    routeExists,
    machines,          \* the documents of the route, by ID
    machineCalls,
    audited,           \* history: the machines as audited operations left them
    unsettled          \* history: machines somebody interfered with, or whose call was cut off

machineVars == <<routeExists, machines, machineCalls, audited, unsettled>>

NoMachineCall == [phase |-> "ended"]

MachinesInit ==
    /\ routeExists = TRUE
    /\ machines = [i \in {} |-> [address |-> "", status |-> ""]]
    /\ machineCalls = [c \in MachineCallers |-> NoMachineCall]
    /\ audited = machines
    /\ unsettled = {}

Without(documents, id) == Restrict(documents, DOMAIN documents \ {id})
With(documents, id, machine) ==
    [i \in DOMAIN documents \cup {id} |-> IF i = id THEN machine ELSE documents[i]]

\* The store's index refuses a second document of one address.
AddressIsFree(address) == \A i \in DOMAIN machines : machines[i].address # address

-------------------------------------------------------------------------------
MachineBegins(c) == machineCalls[c].phase = "ended"

MachineStep(c, call) ==
    /\ machineCalls' = [machineCalls EXCEPT ![c] = call]
    /\ UNCHANGED <<routeExists, machines, audited, unsettled>>

HasMachine(c) == machineCalls[c].phase \in {"attempt", "write", "success", "undo"}

\* The machines the calls of others are about to write, or may take back.
InUse(c) == { machineCalls[d].id : d \in { e \in MachineCallers \ {c} : HasMachine(e) } }

DeletingRoute(c) == \E d \in MachineCallers \ {c} : machineCalls[d].phase = "route"

\* The route is looked up, an ID is generated.
CreateVMEndpoint(c, id, address) ==
    LET machine == [address |-> address, status |-> "pending_probe"]
    IN  /\ MachineBegins(c)
        /\ routeExists
        /\ id \notin DOMAIN machines \cup DOMAIN audited \cup unsettled \cup InUse(c)
        /\ machineCalls' = [machineCalls EXCEPT ![c] =
               [phase |-> "attempt", op |-> "create", id |-> id, old |-> machine, new |-> machine]]
        /\ unsettled' = IF DeletingRoute(c) THEN unsettled \cup {id} ELSE unsettled
        /\ UNCHANGED <<routeExists, machines, audited>>

\* vmEndpointForRoute, of a deletion or a probe.
FindMachine(c, op, id) ==
    /\ MachineBegins(c)
    /\ routeExists
    /\ id \in DOMAIN machines
    /\ MachineStep(c, [phase |-> "attempt", op |-> op, id |-> id,
                       old |-> machines[id], new |-> machines[id]])

DeleteVMEndpoint(c, id) == FindMachine(c, "delete", id)

ProbeVMEndpoint(c, id) == FindMachine(c, "probe", id)

\* The event of the attempt.  Without it nothing is changed (MachineCallFails).
AuditAttempt(c) ==
    /\ machineCalls[c].phase = "attempt"
    /\ MachineStep(c, [machineCalls[c] EXCEPT !.phase = "write"])

\* Whether a connection to the machine opens.
Check == {"reachable", "unreachable"}

\* A document that is not there cannot be deleted or replaced.
Writable(call) ==
    IF call.op = "create" THEN AddressIsFree(call.new.address) ELSE call.id \in DOMAIN machines

WriteMachine(c) ==
    LET call == machineCalls[c]
    IN  /\ call.phase = "write"
        /\ Writable(call)
        /\ \/ /\ call.op = "create"
              /\ machines' = With(machines, call.id, call.new)
              /\ machineCalls' = [machineCalls EXCEPT ![c].phase = "success"]
           \/ /\ call.op = "delete"
              /\ machines' = Without(machines, call.id)
              /\ machineCalls' = [machineCalls EXCEPT ![c].phase = "success"]
           \/ /\ call.op = "probe"
              /\ \E status \in Check :
                     LET machine == [call.old EXCEPT !.status = status]
                     IN  /\ machines' = With(machines, call.id, machine)
                         /\ machineCalls' = [machineCalls EXCEPT ![c].phase = "success",
                                                                 ![c].new = machine]
        /\ unsettled' = IF call.id \in InUse(c) THEN unsettled \cup {call.id} ELSE unsettled
        /\ UNCHANGED <<routeExists, audited>>

\* The event that it was done ends the call ...
AuditSuccess(c) ==
    LET call == machineCalls[c]
    IN  /\ call.phase = "success"
        /\ audited' = IF call.op = "delete" THEN Without(audited, call.id)
                      ELSE With(audited, call.id, call.new)
        /\ machineCalls' = [machineCalls EXCEPT ![c] = NoMachineCall]
        /\ UNCHANGED <<routeExists, machines, unsettled>>

\* ... or cannot be written, and the change is to be taken back.
AuditFails(c) ==
    /\ machineCalls[c].phase = "success"
    /\ MachineStep(c, [machineCalls[c] EXCEPT !.phase = "undo"])

\* MUTANT: a probe is not taken back.
UndoesPresence(call) ==
    CASE call.op = "create" -> Without(machines, call.id)
      [] call.op = "delete" -> With(machines, call.id, call.old)
      [] call.op = "probe" -> machines

\* What was created is deleted, what was deleted inserted, what was replaced restored.
UndoMachine(call) ==
    CASE call.op = "create" -> Without(machines, call.id)
      [] call.op = "delete" -> With(machines, call.id, call.old)
      [] call.op = "probe" -> With(machines, call.id, call.old)

Undoable(call) ==
    IF call.op = "delete"
    THEN call.id \notin DOMAIN machines /\ AddressIsFree(call.old.address)
    ELSE call.id \in DOMAIN machines

TakeBack(c) ==
    LET call == machineCalls[c]
    IN  /\ call.phase = "undo"
        /\ Undoable(call)
        /\ machines' = UndoMachine(call)
        /\ machineCalls' = [machineCalls EXCEPT ![c] = NoMachineCall]
        /\ unsettled' = IF call.id \in InUse(c) THEN unsettled \cup {call.id} ELSE unsettled
        /\ UNCHANGED <<routeExists, audited>>

\* A check or the store refuses, or the process stops: what was written stays.
MachineCallFails(c) ==
    /\ machineCalls[c].phase # "ended"
    /\ machineCalls' = [machineCalls EXCEPT ![c] = NoMachineCall]
    /\ unsettled' = IF machineCalls[c].phase \in {"success", "undo"}
                    THEN unsettled \cup {machineCalls[c].id} ELSE unsettled
    /\ UNCHANGED <<routeExists, machines, audited>>

-------------------------------------------------------------------------------
\* MUTANT: only the route is deleted.
DeletesRouteOnly(c) ==
    /\ MachineBegins(c)
    /\ routeExists
    /\ MachineStep(c, [phase |-> "route"])

\* DeleteRoute: the machines first ...
DeleteRouteMachines(c) ==
    /\ MachineBegins(c)
    /\ routeExists
    /\ machines' = Restrict(machines, {})
    /\ audited' = machines'
    /\ unsettled' = unsettled \cup InUse(c)
    /\ machineCalls' = [machineCalls EXCEPT ![c] = [phase |-> "route"]]
    /\ UNCHANGED routeExists

\* ... then the document.
DeleteRouteDocument(c) ==
    /\ machineCalls[c].phase = "route"
    /\ routeExists' = FALSE
    /\ machineCalls' = [machineCalls EXCEPT ![c] = NoMachineCall]
    /\ UNCHANGED <<machines, audited, unsettled>>

MachinesNext ==
    \E c \in MachineCallers :
        \/ \E id \in MachineIDs :
               \/ \E address \in Addresses : CreateVMEndpoint(c, id, address)
               \/ DeleteVMEndpoint(c, id) \/ ProbeVMEndpoint(c, id)
        \/ AuditAttempt(c) \/ WriteMachine(c) \/ AuditSuccess(c) \/ AuditFails(c) \/ TakeBack(c)
        \/ MachineCallFails(c)
        \/ DeleteRouteMachines(c) \/ DeleteRouteDocument(c)

MachinesSpec == MachinesInit /\ [][MachinesNext]_machineVars

-------------------------------------------------------------------------------
\* An operation on a machine that has no event of its success leaves no trace, and one that
\* has such an event stays: unless another call was about to write the machine, or a call was
\* cut off after its write, every machine is as the audited operations left it.  And a route
\* that is gone leaves no such machine behind.
MachinesAreSound ==
    LET pending == { machineCalls[c].id : c \in { d \in MachineCallers : HasMachine(d) } }
        settled(documents) == Restrict(documents, DOMAIN documents \ (pending \cup unsettled))
    IN  /\ settled(machines) = settled(audited)
        /\ ~routeExists => settled(machines) = settled([i \in {} |-> 0])
===============================================================================
