-------------------------- MODULE ClusterCredentials --------------------------
(***************************************************************************)
(* The credentials the platform reaches a cluster with, and the kubeconfigs   *)
(* it hands out (internal/modules/k8sops/cluster/credential.go, kubeconfig,    *)
(* kubeclient/provider.go, internal/platform/secret).  Secrets are added and   *)
(* never changed or removed: rotating and rolling back store another one, and  *)
(* the freshest is the one in use.  One cluster; requests that are malformed   *)
(* or not permitted change nothing and are left out, and so are the contents:  *)
(* the properties tell secrets apart.  Clock readings of different steps differ. *)
(***************************************************************************)
EXTENDS Naturals

CONSTANTS
    SecretCallers,   \* concurrent requests
    MaxReadings      \* bound: readings of the clock

VARIABLES
    secrets,         \* what is stored
    clock,           \* the time, counted in readings
    secretCalls,
    unrecorded       \* history: the secrets that were given to a call without an audit event

secretVars == <<secrets, clock, secretCalls, unrecorded>>

-------------------------------------------------------------------------------
\* Secrets: [type, created, rotated, after]; created serves as ID.  after is history:
\* the secrets that were stored when the call that stores this one began.

CredentialSecrets == {s \in secrets : s.type = "credential"}

\* The time that counts: that of the rotation, else that of the creation.
secretFreshnessTime(s) == IF s.rotated # 0 THEN s.rotated ELSE s.created

\* MUTANT: the history goes by creation.
FreshnessIsCreation(s) == s.created

\* The same, as the list of credentials computes it.
credentialFreshness(s) == IF s.rotated # 0 THEN s.rotated ELSE s.created

\* The credential clients get, a set of at most one.
latestByTypeAndScope ==
    {s \in CredentialSecrets :
        \A t \in CredentialSecrets : secretFreshnessTime(t) <= secretFreshnessTime(s)}

\* The one the list shows as active: the first of the history.
credentialHistory ==
    LET Newer(s) == {t \in CredentialSecrets : credentialFreshness(t) > credentialFreshness(s)}
    IN  {s \in CredentialSecrets : Newer(s) = {}}

NoSecretCall ==
    [does |-> "nothing", phase |-> "ended", rotated |-> 0, made |-> 0, secret |-> 0, recorded |-> FALSE,
     after |-> {}]

CredentialsInit ==
    /\ secrets = {}
    /\ clock = 0
    /\ secretCalls = [c \in SecretCallers |-> NoSecretCall]
    /\ unrecorded = {}

CallMoves(c, call) == secretCalls' = [secretCalls EXCEPT ![c] = call]

BeginCall(c, call) ==
    /\ secretCalls[c].phase = "ended"
    /\ CallMoves(c, call)
    /\ UNCHANGED <<secrets, clock, unrecorded>>

StoredNow == {s.created : s \in secrets}

ChangeCall(does) == [NoSecretCall EXCEPT !.does = does, !.phase = "validate", !.after = StoredNow]

\* Creation and rotation differ in the time they give the secret.
CreateCredential(c) ==
    BeginCall(c, ChangeCall("create"))

RotateCredential(c) ==
    BeginCall(c, ChangeCall("rotate"))

\* Only a credential of the cluster is rolled back to.
RollbackCredential(c) ==
    /\ CredentialSecrets # {}
    /\ BeginCall(c, ChangeCall("rollback"))

\* The cluster was reached with the credential, whichever is in use.
ValidateCredential(c) ==
    /\ secretCalls[c].phase = "validate"
    /\ CallMoves(c, [secretCalls[c] EXCEPT !.phase = IF secretCalls[c].does = "create" THEN "make" ELSE "build"])
    /\ UNCHANGED <<secrets, clock, unrecorded>>

ReadClock ==
    /\ clock < MaxReadings
    /\ clock' = clock + 1

\* The time of a rotation is read when the request for the secret is put together ...
rotatedAtForAction(c) ==
    /\ secretCalls[c].phase = "build"
    /\ ReadClock
    /\ CallMoves(c, [secretCalls[c] EXCEPT !.rotated = clock', !.phase = "make"])
    /\ UNCHANGED <<secrets, unrecorded>>

\* A kubeconfig is made in three steps.  The token is asked for with a client, which reads
\* the credential of its own; the server is then taken from the credential in use.
CreateKubeconfig(c) ==
    BeginCall(c, [NoSecretCall EXCEPT !.does = "kubeconfig", !.phase = "look"])

RenderKubeconfig(c) ==
    /\ secretCalls[c].phase = "render"
    /\ latestByTypeAndScope # {}
    /\ CallMoves(c, [secretCalls[c] EXCEPT !.phase = "make"])
    /\ UNCHANGED <<secrets, clock, unrecorded>>

\* ... that of the creation when the secret is made, before it is saved.
MakeSecret(c) ==
    /\ secretCalls[c].phase = "make"
    /\ ReadClock
    /\ CallMoves(c, [secretCalls[c] EXCEPT !.made = clock', !.phase = "save"])
    /\ UNCHANGED <<secrets, unrecorded>>

SaveSecret(c) ==
    /\ secretCalls[c].phase = "save"
    /\ LET call == secretCalls[c]
       IN  /\ secrets' = secrets \cup
                  {[type |-> IF call.does = "kubeconfig" THEN "kubeconfig" ELSE "credential",
                    created |-> call.made,
                    rotated |-> call.rotated, after |-> call.after]}
           /\ CallMoves(c, [NoSecretCall EXCEPT !.phase = "record"])
    /\ UNCHANGED <<clock, unrecorded>>

\* A new secret is recorded after it is stored: without a record the caller gets an error,
\* and the secret stays.
RecordSecret(c) ==
    /\ secretCalls[c].phase = "record"
    /\ CallMoves(c, NoSecretCall)
    /\ UNCHANGED <<secrets, clock, unrecorded>>

\* A client of the cluster is made, from the credential in use; nothing is cached.
ReadKubeconfig(c) == BeginCall(c, [NoSecretCall EXCEPT !.does = "read", !.phase = "look"])

LookUpCredential(c) ==
    /\ secretCalls[c].phase = "look"
    /\ \E s \in latestByTypeAndScope :
           CallMoves(c, [secretCalls[c] EXCEPT !.secret = s.created, !.phase = "audit"])
    /\ UNCHANGED <<secrets, clock, unrecorded>>

\* Any secret can be exported by its ID.
ExportSecret(c) ==
    \E s \in secrets :
        BeginCall(c, [NoSecretCall EXCEPT !.does = "export", !.phase = "audit", !.secret = s.created])

\* MUTANT: a reading that cannot be recorded is answered all the same.
AuditIsOptional(c) ==
    /\ secretCalls[c].phase = "audit"
    /\ \E r \in BOOLEAN :
           CallMoves(c, [secretCalls[c] EXCEPT !.phase = "give", !.recorded = r])
    /\ UNCHANGED <<secrets, clock, unrecorded>>

\* Each reading is recorded before the plaintext is returned.
AuditReading(c) ==
    /\ secretCalls[c].phase = "audit"
    /\ CallMoves(c, [secretCalls[c] EXCEPT !.phase = "give", !.recorded = TRUE])
    /\ UNCHANGED <<secrets, clock, unrecorded>>

GivePlaintext(c) ==
    /\ secretCalls[c].phase = "give"
    /\ LET call == secretCalls[c]
       IN  /\ unrecorded' = unrecorded \cup {n \in {call.secret} : ~call.recorded}
           /\ CallMoves(c, IF call.does = "kubeconfig"
                           THEN [NoSecretCall EXCEPT !.does = call.does, !.phase = "render"]
                           ELSE NoSecretCall)
    /\ UNCHANGED <<secrets, clock>>

\* A step fails, or the process stops.
SecretCallFails(c) ==
    /\ secretCalls[c].phase # "ended"
    /\ CallMoves(c, NoSecretCall)
    /\ UNCHANGED <<secrets, clock, unrecorded>>

CredentialsNext ==
    \E c \in SecretCallers :
        \/ CreateCredential(c) \/ RotateCredential(c)
        \/ RollbackCredential(c) \/ ValidateCredential(c) \/ rotatedAtForAction(c)
        \/ CreateKubeconfig(c) \/ RenderKubeconfig(c)
        \/ MakeSecret(c) \/ SaveSecret(c) \/ RecordSecret(c)
        \/ ReadKubeconfig(c) \/ LookUpCredential(c) \/ ExportSecret(c)
        \/ AuditReading(c) \/ GivePlaintext(c)
        \/ SecretCallFails(c)

CredentialsSpec == CredentialsInit /\ [][CredentialsNext]_secretVars

-------------------------------------------------------------------------------
\* Clients get the credential the list shows as active, and never one that was stored
\* before another one's creation, rotation or rollback began: the newest of the writes that
\* do not overlap is in use, whatever mixture of operations and failed records led to it.
NewestWriteIsUsed ==
    /\ latestByTypeAndScope = credentialHistory
    /\ \A used \in latestByTypeAndScope :
           \A s \in CredentialSecrets : used.created \notin s.after

\* No plaintext of a secret was given to a caller whose reading has no audit event.
ReadingsAreRecorded == unrecorded = {}

\* The newest secret is used, and readings of it are recorded.
CredentialsAreSound == NewestWriteIsUsed /\ ReadingsAreRecorded
===============================================================================
