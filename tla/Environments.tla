----------------------------- MODULE Environments -----------------------------
(***************************************************************************)
(* Environments and the resources bound to them                              *)
(* (internal/platform/environment).  A resource is in one environment at most: *)
(* a unique index of the bindings sees to it.  Documents are read, changed and *)
(* replaced, so a call that renames an environment writes its status as read.  *)
(* Requests without permission, malformed ones and unknown resources change    *)
(* nothing and are left out, and so are the audit events: they are recorded    *)
(* last, and nothing is taken back when that fails.                           *)
(***************************************************************************)
EXTENDS Naturals, FiniteSets

CONSTANTS
    Envs,
    Resources,       \* clusters and host groups
    EnvCallers,      \* concurrent requests
    MaxBindings      \* bound: IDs of bindings in use at a time

ASSUME BindingBound == MaxBindings \in Nat

VARIABLES
    status,          \* of an environment; absent before it is created
    resourceBindings,        \* [id, env, resource]
    envCalls

envVars == <<status, resourceBindings, envCalls>>

-------------------------------------------------------------------------------
\* Generated IDs are new: one that nothing refers to any more is as good as new.
Fresh(used, max) ==
    {n \in 1..max : n \notin used /\ \A m \in 1..max : m \notin used => n <= m}

\* Bindings of the environment, as the services list them.
ListResourceBindings(e) == {b \in resourceBindings : b.env = e}
FindResourceBinding(r) == {b \in resourceBindings : b.resource = r}

IdleEnvCall == [phase |-> "idle"]

EnvironmentsInit ==
    /\ status = [e \in Envs |-> "absent"]
    /\ resourceBindings = {}
    /\ envCalls = [c \in EnvCallers |-> IdleEnvCall]

EnvCallMoves(c, call) == envCalls' = [envCalls EXCEPT ![c] = call]

CreateEnvironment(e) ==
    /\ status[e] = "absent"
    /\ status' = [status EXCEPT ![e] = "active"]
    /\ UNCHANGED <<resourceBindings, envCalls>>

\* Update reads the document.  to is the status asked for, or the one read when the request
\* is about other fields.
UpdateEnvironmentReads(c, e, to) ==
    /\ envCalls[c].phase = "idle"
    /\ status[e] # "absent"
    /\ EnvCallMoves(c, [phase |-> "update", env |-> e,
                        status |-> IF to = "as read" THEN status[e] ELSE to])
    /\ UNCHANGED <<status, resourceBindings>>

UpdateEnvironmentWrites(c) ==
    /\ envCalls[c].phase = "update"
    /\ status' = [status EXCEPT ![envCalls[c].env] = envCalls[c].status]
    /\ EnvCallMoves(c, IdleEnvCall)
    /\ UNCHANGED resourceBindings

BindResourceReads(c, e, r) ==
    /\ envCalls[c].phase = "idle"
    /\ status[e] \notin {"absent", "archived"}
    /\ FindResourceBinding(r) = {}
    /\ EnvCallMoves(c, [phase |-> "bind", env |-> e, resource |-> r])
    /\ UNCHANGED <<status, resourceBindings>>

\* used: the IDs of bindings that somebody still refers to.
BindResourceWrites(c, used) ==
    /\ envCalls[c].phase = "bind"
    /\ \/ FindResourceBinding(envCalls[c].resource) # {} /\ UNCHANGED resourceBindings
       \/ /\ FindResourceBinding(envCalls[c].resource) = {}
          /\ \E id \in Fresh(used \cup {b.id : b \in resourceBindings}, MaxBindings) :
                 resourceBindings' = resourceBindings \cup
                     {[id |-> id, env |-> envCalls[c].env, resource |-> envCalls[c].resource]}
    /\ EnvCallMoves(c, IdleEnvCall)
    /\ UNCHANGED status

UnbindResource(b) ==
    /\ resourceBindings' = resourceBindings \ {b}
    /\ UNCHANGED <<status, envCalls>>

EnvCallFails(c) ==
    /\ envCalls[c].phase # "idle"
    /\ EnvCallMoves(c, IdleEnvCall)
    /\ UNCHANGED <<status, resourceBindings>>

\* free: the callers that may begin a call.
EnvironmentsNext(used, free) ==
    \/ \E e \in Envs : CreateEnvironment(e)
    \/ \E b \in resourceBindings : UnbindResource(b)
    \/ \E c \in free, e \in Envs :
           \/ \E to \in {"as read", "active", "archived"} : UpdateEnvironmentReads(c, e, to)
           \/ \E r \in Resources : BindResourceReads(c, e, r)
    \/ \E c \in EnvCallers :
           UpdateEnvironmentWrites(c) \/ BindResourceWrites(c, used) \/ EnvCallFails(c)
===============================================================================
