--------------------- MODULE KubernetesClusterController ---------------------
(* The reconciler of one KubernetesCluster (the CR) with what it acts on:     *)
(* the CR and its state secret in the Kubernetes API server, the informer     *)
(* cache the reconciler reads, and the AKS cluster in Azure.  Every API call  *)
(* is one action, so that a crash, a user or Azure may come between any two.  *)
(* The workqueue serialises the reconciliations of one CR: one worker.        *)
EXTENDS Integers

CONSTANTS
  Specs,           \* desired states a user may ask for, [version, replicas]
  AzureErrors,     \* kinds of error a disturbed Azure call may answer with
  Disruptions,     \* kinds of disruption that may happen, see Disruption
  MaxDisruptions   \* how many happen in all: the bound of every counter here

Disruption == {"api", "azure", "crash", "edit", "delete", "recreate",
               "portal", "secret"}

(* What the operator looks for in the text of an Azure error.  The texts are  *)
(* Azure's own, as docs/troubleshooting.md quotes them.                       *)
ErrorText ==
  [ResourceNotFound         |-> {"ResourceNotFound", "not found", "404"},
   ResourceGroupNotFound    |-> {"ResourceGroupNotFound", "404"},
   ServicePrincipalNotFound |-> {"not found"},
   OperationNotAllowed      |-> {"409", "OperationNotAllowed"},
   AuthorizationFailed      |-> {},
   Timeout                  |-> {}]

ErrorKind == DOMAIN ErrorText
AbsenceErrors == {"ResourceNotFound", "ResourceGroupNotFound"}

Says(e, texts) == ErrorText[e] \cap texts # {}
SaysCreate(e)   == Says(e, {"not found", "ResourceNotFound"})
SaysConflict(e) == Says(e, {"409", "Conflict", "OperationNotAllowed", "in progress"})
(* Mutations of SaysDeleted: a refusal counts as "already deleted"; only a    *)
(* missing resource group does.                                               *)
SaysDeletedOrRefused(e) == Says(e, {"ResourceGroupNotFound", "ResourceNotFound",
                                    "not found", "404", "409"})
SaysDeletedGroupOnly(e) == Says(e, {"ResourceGroupNotFound"})
SaysDeleted(e)  == Says(e, {"ResourceGroupNotFound", "ResourceNotFound",
                            "not found", "404"})

ASSUME SpecsAssumption ==
  Specs \subseteq [version : Nat, replicas : Nat \ {0}] /\ Specs # {}
ASSUME DisruptionsAssumption ==
  /\ AzureErrors \subseteq ErrorKind
  /\ Disruptions \subseteq Disruption
  /\ MaxDisruptions \in Nat

VARIABLES
  cr,       \* the KubernetesCluster in the API server
  cache,    \* the informer's copy of it, which r.Get reads
  fresh,    \* which of "cache", "obj" hold the server's resourceVersion
  queued,   \* the workqueue holds the CR's key
  secret,   \* the cluster state secret
  aks,      \* the managed cluster in Azure
  pc,       \* the next call of the reconciliation under way
  obj,      \* its *KubernetesCluster, changed locally before each write
  reply,    \* the *ManagedCluster ReconcileCluster returned
  inHand,   \* credential or kube-system UID fetched and not yet stored
  budget    \* disruptions left

world  == <<cr, cache, fresh, queued, secret, aks, budget>>
locals == <<pc, obj, reply, inHand>>
vars   == <<world, locals>>

-----------------------------------------------------------------------------
(* Data.  A generation (gen) stands for one incarnation of the AKS cluster:   *)
(* its FQDN, admin credential and kube-system UID; 0 is "nothing stored".     *)

AnySpec == CHOOSE s \in Specs : TRUE

Phases == {"", "Creating", "Provisioning", "Ready", "Updating", "Deleting", "Failed"}

CRs == [exists : BOOLEAN, uid : Nat, deleting : BOOLEAN,
        held : BOOLEAN,         \* carries the foregroundDeletion finalizer
        finalizer : BOOLEAN,    \* carries the operator's finalizer
        spec : Specs, phase : Phases,
        annID : BOOLEAN,        \* annotation with the AKS resource ID
        annUID : Nat]           \* annotation with the kube-system UID

NoCR == [exists |-> FALSE, uid |-> 0, deleting |-> FALSE, held |-> FALSE,
         finalizer |-> FALSE, spec |-> AnySpec, phase |-> "",
         annID |-> FALSE, annUID |-> 0]

NewCR(id, s) == [NoCR EXCEPT !.exists = TRUE, !.uid = id, !.spec = s]

ProvisioningStates == {"Creating", "Updating", "Deleting", "Succeeded", "Failed", "Canceled"}
InProgress == {"Creating", "Updating", "Deleting"}

Secrets == [exists : BOOLEAN, owner : Nat, provisioned : BOOLEAN,
            provState : ProvisioningStates \cup {""}, fqdn : Nat, kubeconfig : Nat,
            apiReady : BOOLEAN, access : BOOLEAN, uid : Nat]

NoSecret == [exists |-> FALSE, owner |-> 0, provisioned |-> FALSE,
             provState |-> "", fqdn |-> 0, kubeconfig |-> 0,
             apiReady |-> FALSE, access |-> FALSE, uid |-> 0]

(* Mutation of CurrentState: the secret is created without its owner.         *)
CurrentStateUnowned == IF secret.exists THEN secret
                       ELSE [NoSecret EXCEPT !.exists = TRUE]

(* GetOrCreateState: every reader and writer of the secret creates it.        *)
CurrentState == IF secret.exists THEN secret
                ELSE [NoSecret EXCEPT !.exists = TRUE, !.owner = obj.uid]

AKSClusters == [state : ProvisioningStates \cup {"Absent"}, gen : Nat, spec : Specs]

Replies == [state : ProvisioningStates \cup {""}, gen : Nat,
            fqdn : BOOLEAN,     \* Properties.Fqdn is set
            needsStateUpdate : BOOLEAN]

NoReply == [state |-> "", gen |-> 0, fqdn |-> FALSE, needsStateUpdate |-> FALSE]

(* Mutation of PhaseFromAKS: any other state becomes the phase as it is.      *)
PhaseFromAKSVerbatim(state) == IF state = "Succeeded" THEN "Ready" ELSE state

PhaseFromAKS(state) ==
  CASE state = "Succeeded" -> "Ready"
    [] state \in {"Creating", "Updating", "Deleting", "Failed"} -> state
    [] OTHER -> "Provisioning"

(* min(replicas, int(^int32(0))): ^int32(0) is the complement of 0.           *)
Complement(n) == -n - 1
DesiredCount(replicas) ==
  IF replicas < Complement(0) THEN replicas ELSE Complement(0)

(* Mutation of NeedsUpdate: the replicas are not compared.                    *)
NeedsUpdateVersionOnly(desired, existing) == desired.version # existing.version

NeedsUpdate(desired, existing) ==
  \/ desired.version # existing.version
  \/ desired.replicas > 0 /\ existing.replicas # DesiredCount(desired.replicas)

-----------------------------------------------------------------------------
(* One disruption of kind k happens; Calm: none does.                         *)
Calm == budget' = budget
Disturbed(k) == k \in Disruptions /\ budget > 0 /\ budget' = budget - 1

(* The error kinds Azure may answer with now: the absence of the cluster is   *)
(* only reported when it is absent.                                           *)
Reportable == {e \in AzureErrors : e \in AbsenceErrors => aks.state = "Absent"}

At(p) == pc = p
Goto(p) == pc' = p

(* Update and Status().Update: the server stores the new object if obj has    *)
(* its resourceVersion, and obj then holds what was stored; otherwise the     *)
(* local change o stays in obj.  A disturbed call fails for the caller, and   *)
(* its write may have reached the server all the same.                        *)
Stored(c) == IF c.deleting /\ ~c.finalizer /\ ~c.held
             THEN [NoCR EXCEPT !.uid = c.uid] ELSE c

IsCurrent == cr.exists /\ "obj" \in fresh

Write(c, o, next, onConflict, onError) ==
  /\ \/ IsCurrent /\ Calm /\ Goto(next)
        /\ cr' = Stored(c) /\ obj' = cr' /\ fresh' = {"obj"}
     \/ cr.exists /\ ~IsCurrent /\ Calm /\ Goto(onConflict)
        /\ obj' = o /\ UNCHANGED <<cr, fresh>>
     \/ ~cr.exists /\ Calm /\ Goto(onError)
        /\ obj' = o /\ UNCHANGED <<cr, fresh>>
     \/ Disturbed("api") /\ Goto(onError) /\ obj' = o
        /\ \/ UNCHANGED <<cr, fresh>>
           \/ IsCurrent /\ cr' = Stored(c) /\ fresh' = {}
  /\ UNCHANGED <<cache, queued, secret, aks, reply, inHand>>

UpdateMeta(o, next, onError) ==
  Write([cr EXCEPT !.finalizer = o.finalizer, !.annID = o.annID, !.annUID = o.annUID],
        o, next, onError, onError)

UpdateStatus(o, next, onConflict, onError) ==
  Write([cr EXCEPT !.phase = o.phase], o, next, onConflict, onError)

(* UpdateState, UpdateStateMultiple, SetKubeconfig: the secret is written, or *)
(* the call fails after creating it, after writing it or before either.       *)
WriteState(s, next, onError) ==
  /\ \/ Calm /\ secret' = s /\ Goto(next)
     \/ Disturbed("api") /\ secret' \in {secret, CurrentState, s} /\ Goto(onError)
  /\ UNCHANGED <<cr, cache, fresh, queued, aks, obj, reply, inHand>>

-----------------------------------------------------------------------------
(* Reconcile                                                                  *)

Fetch ==
  /\ At("idle") /\ queued /\ queued' = FALSE
  /\ IF ~cache.exists THEN UNCHANGED <<pc, obj, fresh>>
     ELSE /\ obj' = cache
          /\ fresh' = IF "cache" \in fresh THEN {"cache", "obj"} ELSE {}
          /\ Goto(IF cache.deleting THEN "markDeleting" ELSE "ensureState")
  /\ UNCHANGED <<cr, cache, secret, aks, reply, inHand, budget>>

(* Mutation of AfterEnsureState: provisions without waiting for the finalizer. *)
AfterEnsureStateUnguarded == IF obj.phase = "" THEN "initStatus" ELSE "getCluster"

AfterEnsureState == IF ~obj.finalizer THEN "addFinalizer"
                    ELSE IF obj.phase = "" THEN "initStatus" ELSE "getCluster"

EnsureState ==
  At("ensureState") /\ WriteState(CurrentState, AfterEnsureState, AfterEnsureState)

AddFinalizer ==
  At("addFinalizer") /\ UpdateMeta([obj EXCEPT !.finalizer = TRUE], "requeue", "requeue")

InitStatus ==
  /\ At("initStatus")
  /\ UpdateStatus([obj EXCEPT !.phase = "Creating"], "getCluster", "getCluster", "getCluster")

(* Mutation of Return: no RequeueAfter.                                       *)
ReturnWithoutRequeue ==
  /\ pc \in {"requeue", "finished"} /\ Goto("idle")
  /\ UNCHANGED queued
  /\ obj' = NoCR /\ reply' = NoReply /\ inHand' = 0
  /\ fresh' = fresh \ {"obj"}
  /\ UNCHANGED <<cr, cache, secret, aks, budget>>

(* The end of Reconcile: with a RequeueAfter or an error the key comes back.  *)
Return ==
  /\ pc \in {"requeue", "finished"} /\ Goto("idle")
  /\ queued' = (queued \/ At("requeue"))
  /\ obj' = NoCR /\ reply' = NoReply /\ inHand' = 0
  /\ fresh' = fresh \ {"obj"}
  /\ UNCHANGED <<cr, cache, secret, aks, budget>>

-----------------------------------------------------------------------------
(* AKSClusterManager.ReconcileCluster                                         *)

(* The cluster as a response shows it; only while it is being created may it  *)
(* have no FQDN yet.                                                          *)
Observations ==
  {[state |-> aks.state, gen |-> aks.gen, fqdn |-> b,
    needsStateUpdate |-> \/ obj.phase # PhaseFromAKS(aks.state)
                         \/ obj.phase \in {"", "Creating", "Provisioning"}] :
   b \in IF aks.state = "Creating" THEN BOOLEAN ELSE {TRUE}}

(* Mutations of AfterObserving: the status is written before the secret; the  *)
(* credentials are fetched on a change of phase only.                         *)
AfterObservingStatusFirst(r) == IF r.needsStateUpdate THEN "annotateID" ELSE "requeue"
AfterObservingOnChange(r) == IF r.needsStateUpdate THEN "setProvisioned" ELSE "requeue"

(* The first call of reconcileCluster once ReconcileCluster returned r.       *)
AfterObserving(r) == IF r.needsStateUpdate THEN "setProvisioned"
                     ELSE IF r.state = "Succeeded" THEN "kubeconfig" ELSE "requeue"

FailedWith(e, tolerated) == Goto(IF tolerated THEN AfterObserving(reply) ELSE "setFailed")

GetCluster ==
  /\ At("getCluster")
  /\ \/ aks.state # "Absent" /\ Calm /\ reply' \in Observations
        /\ Goto(IF aks.state \notin InProgress /\ NeedsUpdate(obj.spec, aks.spec)
                THEN "updateCluster" ELSE AfterObserving(reply'))
     \/ aks.state = "Absent" /\ Calm /\ Goto("createCluster") /\ UNCHANGED reply
     \/ Disturbed("azure") /\ UNCHANGED reply
        /\ \E e \in Reportable : Goto(IF SaysCreate(e) THEN "createCluster" ELSE "setFailed")
  /\ UNCHANGED <<cr, cache, fresh, queued, secret, aks, obj, inHand>>

(* BeginCreateOrUpdate: the cluster the PUT starts, when Azure takes it.      *)
PutCluster == IF aks.state = "Absent"
              THEN [state |-> "Creating", gen |-> aks.gen + 1, spec |-> obj.spec]
              ELSE [aks EXCEPT !.state = "Updating", !.spec = obj.spec]
TakesPut == aks.state \notin InProgress

(* The text of a failed PUT is looked at for a conflict by the update only.   *)
BeginPut(call, poll) ==
  /\ At(call)
  /\ \/ TakesPut /\ Calm /\ aks' = PutCluster /\ Goto(poll)
     \/ ~TakesPut /\ Calm /\ UNCHANGED aks
        /\ FailedWith("OperationNotAllowed", call = "updateCluster")
     \/ Disturbed("azure") /\ (UNCHANGED aks \/ (TakesPut /\ aks' = PutCluster))
        /\ \E e \in Reportable : FailedWith(e, call = "updateCluster" /\ SaysConflict(e))
  /\ UNCHANGED <<cr, cache, fresh, queued, secret, obj, reply, inHand>>

(* pollWithLogging: until the operation ended, well or not, or a poll failed. *)
PollPut(poll) ==
  /\ At(poll)
  /\ \/ aks.state = "Succeeded" /\ Calm /\ reply' \in Observations
        /\ Goto(IF poll = "pollCreate" THEN AfterObserving(reply') ELSE "agentPools")
     \/ aks.state \in {"Failed", "Canceled", "Absent", "Deleting"} /\ Calm
        /\ Goto("setFailed") /\ UNCHANGED reply
     \/ Disturbed("azure") /\ UNCHANGED reply
        /\ \E e \in Reportable : FailedWith(e, poll = "pollUpdate" /\ SaysConflict(e))
  /\ UNCHANGED <<cr, cache, fresh, queued, secret, aks, obj, inHand>>

CreateCluster == BeginPut("createCluster", "pollCreate")
UpdateCluster == BeginPut("updateCluster", "pollUpdate")
PollCreate == PollPut("pollCreate")
PollUpdate == PollPut("pollUpdate")

(* ReconcileAgentPools: the pools themselves are modelled elsewhere; here it  *)
(* returns, with an error when the pools could not be listed.                 *)
AgentPools ==
  /\ At("agentPools")
  /\ \/ Calm /\ Goto(AfterObserving(reply))
     \/ Disturbed("azure") /\ Goto("setFailed")
  /\ UNCHANGED <<cr, cache, fresh, queued, secret, aks, obj, reply, inHand>>

ReconcileCluster ==
  GetCluster \/ CreateCluster \/ PollCreate \/ UpdateCluster \/ PollUpdate \/ AgentPools

-----------------------------------------------------------------------------
(* reconcileCluster: the error path, then the facts it records.               *)

SetClusterFailed ==
  /\ At("setFailed")
  /\ WriteState([CurrentState EXCEPT !.provisioned = FALSE, !.provState = "Failed"],
                "failStatus", "failStatus")

FailStatus ==
  /\ At("failStatus")
  /\ UpdateStatus([obj EXCEPT !.phase = "Failed"], "requeue", "requeue", "requeue")

SetClusterProvisioned ==
  /\ At("setProvisioned")
  /\ LET next == IF reply.fqdn THEN "setFQDN" ELSE "setProvState"
     IN WriteState([CurrentState EXCEPT !.provisioned = TRUE], next, next)

SetClusterFQDN ==
  /\ At("setFQDN")
  /\ WriteState([CurrentState EXCEPT !.fqdn = reply.gen], "setProvState", "setProvState")

(* Mutation of SetAKSProvisionState: the phase is stored instead.             *)
SetAKSProvisionStateAsPhase ==
  /\ At("setProvState")
  /\ LET next == IF reply.state = "Succeeded" THEN "kubeconfig" ELSE "annotateID"
     IN WriteState([CurrentState EXCEPT !.provState = PhaseFromAKS(reply.state)], next, next)

SetAKSProvisionState ==
  /\ At("setProvState")
  /\ LET next == IF reply.state = "Succeeded" THEN "kubeconfig" ELSE "annotateID"
     IN WriteState([CurrentState EXCEPT !.provState = reply.state], next, next)

(* fetchAndStoreKubeconfig *)
FetchKubeconfig ==
  /\ At("kubeconfig")
  /\ \/ Calm /\ secret.exists /\ secret.kubeconfig # 0 /\ Goto("kubeSystemUID")
        /\ UNCHANGED <<secret, inHand>>
     \/ Calm /\ ~(secret.exists /\ secret.kubeconfig # 0) /\ secret' = CurrentState
        /\ IF aks.state = "Absent" THEN Goto("kubeSystemUID") /\ UNCHANGED inHand
           ELSE Goto("setKubeconfig") /\ inHand' = aks.gen
     \/ Disturbed("api") /\ secret' \in {secret, CurrentState}   \* could not be read
        /\ IF aks.state = "Absent" THEN Goto("kubeSystemUID") /\ UNCHANGED inHand
           ELSE Goto("setKubeconfig") /\ inHand' = aks.gen
     \/ Disturbed("azure") /\ secret' = CurrentState /\ Goto("kubeSystemUID")
        /\ UNCHANGED inHand
  /\ UNCHANGED <<cr, cache, fresh, queued, aks, obj, reply>>

(* Mutation of SetKubeconfig: its error is not returned.                      *)
SetKubeconfigErrorDropped ==
  /\ At("setKubeconfig")
  /\ WriteState([CurrentState EXCEPT !.kubeconfig = inHand], "setAPIReady", "setAPIReady")

SetKubeconfig ==
  /\ At("setKubeconfig")
  /\ WriteState([CurrentState EXCEPT !.kubeconfig = inHand], "setAPIReady", "kubeSystemUID")

SetKubernetesAPIReady ==
  /\ At("setAPIReady")
  /\ WriteState([CurrentState EXCEPT !.apiReady = TRUE], "setReady", "setReady")

(* Mutation of SetClusterReady: cluster_access is forgotten.                  *)
SetClusterReadyWithoutAccess ==
  At("setReady") /\ WriteState([CurrentState EXCEPT !.apiReady = TRUE],
                               "kubeSystemUID", "kubeSystemUID")

SetClusterReady ==
  /\ At("setReady")
  /\ WriteState([CurrentState EXCEPT !.apiReady = TRUE, !.access = TRUE],
                "kubeSystemUID", "kubeSystemUID")

AfterUID == IF reply.needsStateUpdate THEN "annotateID" ELSE "requeue"

(* fetchAndStoreKubeSystemUID.  The guest API server answers the kubeconfig   *)
(* of its own generation only.                                                *)
GuestAnswers == /\ secret.exists /\ secret.kubeconfig # 0
                /\ secret.kubeconfig = aks.gen /\ aks.state # "Absent"

(* The secret's UID replaces any other on the object.  An annotated object    *)
(* only gets here if the first read of the secret failed and a second did not.*)
AdoptUID ==
  /\ secret.exists /\ secret.uid # 0 /\ UNCHANGED <<secret, inHand>>
  /\ IF obj.annUID = secret.uid THEN Goto(AfterUID) /\ UNCHANGED obj
     ELSE Goto("annotateUID") /\ obj' = [obj EXCEPT !.annUID = secret.uid]

FetchKubeSystemUID ==
  /\ At("kubeSystemUID")
  /\ \/ Calm /\ secret.exists /\ secret.uid # 0 /\ obj.annUID # 0
        /\ Goto(AfterUID) /\ UNCHANGED <<secret, inHand, obj>>
     \/ (IF obj.annUID = 0 THEN Calm ELSE Disturbed("api")) /\ AdoptUID
     \/ Calm /\ ~(secret.exists /\ secret.uid # 0) /\ secret' = CurrentState /\ UNCHANGED obj
        /\ IF GuestAnswers THEN Goto("setUID") /\ inHand' = aks.gen
           ELSE Goto(AfterUID) /\ UNCHANGED inHand
     \/ Disturbed("api") /\ secret' \in {secret, CurrentState} /\ UNCHANGED obj
        /\ \/ Goto(AfterUID) /\ UNCHANGED inHand
           \/ GuestAnswers /\ Goto("setUID") /\ inHand' = aks.gen
  /\ UNCHANGED <<cr, cache, fresh, queued, aks, reply>>

(* Mutation of SetKubeSystemUID: annotates whether or not the UID was stored. *)
SetKubeSystemUIDErrorDropped ==
  /\ At("setUID")
  /\ \/ Calm /\ secret' = [CurrentState EXCEPT !.uid = inHand]
     \/ Disturbed("api") /\ UNCHANGED secret
  /\ obj' = [obj EXCEPT !.annUID = inHand] /\ Goto("annotateUID")
  /\ UNCHANGED <<cr, cache, fresh, queued, aks, reply, inHand>>

SetKubeSystemUID ==
  /\ At("setUID")
  /\ \/ Calm /\ secret' = [CurrentState EXCEPT !.uid = inHand]
        /\ obj' = [obj EXCEPT !.annUID = inHand] /\ Goto("annotateUID")
     \/ Disturbed("api") /\ secret' \in {secret, CurrentState, [CurrentState EXCEPT !.uid = inHand]}
        /\ Goto(AfterUID) /\ UNCHANGED obj
  /\ UNCHANGED <<cr, cache, fresh, queued, aks, reply, inHand>>

AnnotateUID == At("annotateUID") /\ UpdateMeta(obj, AfterUID, AfterUID)

(* updateClusterStatus: the annotation, then the status with one retry from   *)
(* the cache after a conflict.                                                *)
AnnotateID ==
  /\ At("annotateID")
  /\ IF obj.annID THEN Goto("writeStatus") /\ UNCHANGED <<world, obj, reply, inHand>>
     ELSE UpdateMeta([obj EXCEPT !.annID = TRUE], "writeStatus", "writeStatus")

WithStatus(o) == [o EXCEPT !.phase = PhaseFromAKS(reply.state)]

WriteStatus == At("writeStatus") /\ UpdateStatus(WithStatus(obj), "requeue", "refetch", "requeue")

Refetch ==
  /\ At("refetch")
  /\ IF cache.exists
     THEN /\ Goto("rewriteStatus") /\ obj' = cache
          /\ fresh' = IF "cache" \in fresh THEN {"cache", "obj"} ELSE {}
     ELSE Goto("requeue") /\ UNCHANGED <<obj, fresh>>
  /\ UNCHANGED <<cr, cache, queued, secret, aks, reply, inHand, budget>>

RewriteStatus ==
  At("rewriteStatus") /\ UpdateStatus(WithStatus(obj), "requeue", "requeue", "requeue")

RecordFacts ==
  \/ SetClusterFailed \/ FailStatus
  \/ SetClusterProvisioned \/ SetClusterFQDN \/ SetAKSProvisionState
  \/ FetchKubeconfig \/ SetKubeconfig \/ SetKubernetesAPIReady \/ SetClusterReady
  \/ FetchKubeSystemUID \/ SetKubeSystemUID \/ AnnotateUID
  \/ AnnotateID \/ WriteStatus \/ Refetch \/ RewriteStatus

-----------------------------------------------------------------------------
(* handleDeletion                                                             *)

MarkDeleting ==
  /\ At("markDeleting")
  /\ UpdateStatus([obj EXCEPT !.phase = "Deleting"], "deleteCluster", "deleteCluster", "deleteCluster")

(* Mutation of AfterFailedDelete: every error is "already deleted".           *)
AfterFailedDeleteIgnored(e) == e \in ErrorKind /\ Goto("deleteState")

AfterFailedDelete(e) == Goto(IF SaysDeleted(e) THEN "deleteState" ELSE "requeue")

DeletedCluster == IF aks.state = "Absent" THEN aks ELSE [aks EXCEPT !.state = "Deleting"]

(* BeginDelete: AKS may refuse while it creates or updates the cluster.       *)
DeleteCluster ==
  /\ At("deleteCluster")
  /\ \/ aks.state # "Absent" /\ Calm /\ aks' = DeletedCluster /\ Goto("pollDelete")
     \/ aks.state = "Absent" /\ Calm /\ UNCHANGED aks /\ AfterFailedDelete("ResourceNotFound")
     \/ aks.state \in {"Creating", "Updating"} /\ Calm /\ UNCHANGED aks
        /\ AfterFailedDelete("OperationNotAllowed")
     \/ Disturbed("azure") /\ aks' \in {aks, DeletedCluster}
        /\ \E e \in Reportable : AfterFailedDelete(e)
  /\ UNCHANGED <<cr, cache, fresh, queued, secret, obj, reply, inHand>>

PollDelete ==
  /\ At("pollDelete")
  /\ \/ aks.state = "Absent" /\ Calm /\ Goto("deleteState")
     \/ aks.state \notin {"Absent", "Deleting"} /\ Calm /\ Goto("requeue")
     \/ Disturbed("azure") /\ \E e \in Reportable : AfterFailedDelete(e)
  /\ UNCHANGED <<cr, cache, fresh, queued, secret, aks, obj, reply, inHand>>

DeleteState ==
  /\ At("deleteState")
  /\ \/ Calm /\ secret' = NoSecret
     \/ Disturbed("api") /\ secret' \in {secret, NoSecret}
  /\ Goto(IF obj.finalizer THEN "removeFinalizer" ELSE "finished")
  /\ UNCHANGED <<cr, cache, fresh, queued, aks, obj, reply, inHand>>

RemoveFinalizer ==
  /\ At("removeFinalizer")
  /\ UpdateMeta([obj EXCEPT !.finalizer = FALSE], "finished", "requeue")

HandleDeletion ==
  MarkDeleting \/ DeleteCluster \/ PollDelete \/ DeleteState \/ RemoveFinalizer

Reconcile ==
  \/ Fetch \/ EnsureState \/ AddFinalizer \/ InitStatus \/ Return
  \/ ReconcileCluster \/ RecordFacts \/ HandleDeletion

-----------------------------------------------------------------------------
(* The environment: the informer, a restart, Azure, the garbage collector     *)
(* and people.                                                                *)

(* The watch delivers the CR's latest state; its event enqueues the key.      *)
CacheSync ==
  /\ "cache" \notin fresh
  /\ cache' = cr /\ fresh' = fresh \cup {"cache"} /\ queued' = TRUE
  /\ UNCHANGED <<cr, secret, aks, budget, locals>>

(* The operator restarts: locals are lost, the informer lists the CRs anew.   *)
Crash ==
  /\ Disturbed("crash")
  /\ Goto("idle") /\ obj' = NoCR /\ reply' = NoReply /\ inHand' = 0
  /\ cache' = cr /\ fresh' = {"cache"} /\ queued' = cr.exists
  /\ UNCHANGED <<cr, secret, aks>>

(* Azure ends the operation it has in progress.                               *)
AKSProgress ==
  /\ aks.state \in InProgress
  /\ \/ Calm /\ aks' = [aks EXCEPT !.state = IF aks.state = "Deleting" THEN "Absent"
                                             ELSE "Succeeded"]
     \/ Disturbed("azure") /\ \E s \in {"Failed", "Canceled"} : aks' = [aks EXCEPT !.state = s]
  /\ UNCHANGED <<cr, cache, fresh, queued, secret, locals>>

(* The garbage collector deletes a secret whose owner is gone or is being     *)
(* deleted in the foreground, and then ends the foreground deletion.  It      *)
(* leaves a secret without an owner reference (owner 0) alone.                *)
OwnsSecret(c) == c.exists /\ secret.exists /\ secret.owner = c.uid

CollectSecret ==
  /\ secret.exists /\ secret.owner # 0 /\ (~OwnsSecret(cr) \/ (cr.deleting /\ cr.held))
  /\ secret' = NoSecret
  /\ UNCHANGED <<cr, cache, fresh, queued, aks, budget, locals>>

EndForegroundDeletion ==
  /\ cr.exists /\ cr.deleting /\ cr.held /\ ~OwnsSecret(cr)
  /\ cr' = Stored([cr EXCEPT !.held = FALSE]) /\ fresh' = {}
  /\ UNCHANGED <<cache, queued, secret, aks, budget, locals>>

UserEdit ==
  /\ Disturbed("edit") /\ cr.exists
  /\ \E s \in Specs \ {cr.spec} : cr' = [cr EXCEPT !.spec = s]
  /\ fresh' = {}
  /\ UNCHANGED <<cache, queued, secret, aks, locals>>

UserDelete ==
  /\ Disturbed("delete") /\ cr.exists /\ ~cr.deleting
  /\ \E foreground \in BOOLEAN :
       cr' = Stored([cr EXCEPT !.deleting = TRUE, !.held = foreground])
  /\ fresh' = {}
  /\ UNCHANGED <<cache, queued, secret, aks, locals>>

UserRecreate ==
  /\ Disturbed("recreate") /\ ~cr.exists
  /\ \E s \in Specs : cr' = NewCR(cr.uid + 1, s)
  /\ fresh' = {}
  /\ UNCHANGED <<cache, queued, secret, aks, locals>>

(* Someone changes or deletes the AKS cluster behind the operator's back.     *)
PortalChange ==
  /\ Disturbed("portal") /\ aks.state \notin InProgress \cup {"Absent"}
  /\ \/ \E s \in Specs : aks' = [aks EXCEPT !.state = "Updating", !.spec = s]
     \/ aks' = [aks EXCEPT !.state = "Deleting"]
  /\ UNCHANGED <<cr, cache, fresh, queued, secret, locals>>

SecretDeleted ==
  /\ Disturbed("secret") /\ secret.exists /\ secret' = NoSecret
  /\ UNCHANGED <<cr, cache, fresh, queued, aks, locals>>

Environment ==
  \/ CacheSync \/ Crash \/ AKSProgress \/ CollectSecret \/ EndForegroundDeletion
  \/ UserEdit \/ UserDelete \/ UserRecreate \/ PortalChange \/ SecretDeleted

Init ==
  /\ \E s \in Specs : cr = NewCR(1, s)
  /\ cache = NoCR /\ fresh = {} /\ queued = FALSE
  /\ secret = NoSecret
  /\ aks = [state |-> "Absent", gen |-> 0, spec |-> AnySpec]
  /\ pc = "idle" /\ obj = NoCR /\ reply = NoReply /\ inHand = 0
  /\ budget = MaxDisruptions

Next == Reconcile \/ Environment

(* The worker's goroutine runs, the watch delivers, Azure finishes what it    *)
(* started and the garbage collector collects.  Nothing forces a disruption.  *)
Fairness ==
  /\ WF_vars(Reconcile) /\ WF_vars(CacheSync)
  /\ WF_vars(AKSProgress) /\ WF_vars(CollectSecret) /\ WF_vars(EndForegroundDeletion)

Spec == Init /\ [][Next]_vars
FairSpec == Spec /\ Fairness
-----------------------------------------------------------------------------
(* Properties                                                                 *)

ProvisionPcs ==
  {"initStatus", "getCluster", "createCluster", "pollCreate", "updateCluster",
   "pollUpdate", "agentPools", "setFailed", "failStatus", "setProvisioned",
   "setFQDN", "setProvState", "kubeconfig", "setKubeconfig", "setAPIReady",
   "setReady", "kubeSystemUID", "setUID", "annotateUID", "annotateID",
   "writeStatus", "refetch", "rewriteStatus"}
DeletePcs == {"markDeleting", "deleteCluster", "pollDelete", "deleteState", "removeFinalizer"}
Pcs == ProvisionPcs \cup DeletePcs
         \cup {"idle", "ensureState", "addFinalizer", "requeue", "finished"}

(* Every variable holds a value the program could hold.                       *)
TypeOK ==
  /\ cr \in CRs /\ cache \in CRs /\ obj \in CRs
  /\ fresh \subseteq {"cache", "obj"} /\ queued \in BOOLEAN
  /\ secret \in Secrets /\ aks \in AKSClusters /\ reply \in Replies
  /\ pc \in Pcs /\ inHand \in Nat /\ budget \in 0 .. MaxDisruptions

(* An AKS cluster exists only while a CR that still carries the operator's    *)
(* finalizer exists: handleDeletion never lets go of a cluster that is there, *)
(* whatever was stale, crashed, refused or timed out on the way.              *)
NoOrphan == aks.state # "Absent" => cr.exists /\ cr.finalizer

(* A reconciliation acts for the CR it read.  Past the finalizer check the CR *)
(* cannot vanish and be created anew under the same name, so the status that  *)
(* is written (also after the re-fetch in updateClusterStatus) and the PUT    *)
(* are meant for it; and the cluster handleDeletion deletes is its own.       *)
PassActsForItsCR ==
  /\ pc \in ProvisionPcs => cr.exists /\ cr.uid = obj.uid
  /\ pc \in DeletePcs /\ aks.state # "Absent" => cr.uid = obj.uid

(* Why NoOrphan and PassActsForItsCR hold: the inductive invariant.  Only the *)
(* worker changes the operator's finalizer, it adds it on the word of a copy  *)
(* that is current, and the copies it reads never go back in time.            *)
Guarded(c)  == c.exists /\ c.finalizer
LiveCopy(c) == Guarded(c) /\ ~c.deleting

GuardInv ==
  /\ aks.state # "Absent" => Guarded(cr)
  /\ "cache" \in fresh => cache = cr
  /\ Guarded(cr) => cache.exists /\ cache.uid = cr.uid
  /\ LiveCopy(cache) => Guarded(cr)
  /\ cache.exists /\ cache.deleting => ~LiveCopy(cr)
  /\ pc \in {"ensureState", "addFinalizer"} =>
       obj.exists /\ ~obj.deleting /\ ("obj" \in fresh => obj = cr /\ "cache" \in fresh)
  /\ pc \in ProvisionPcs \/ (pc = "ensureState" /\ obj.finalizer) =>
       Guarded(cr) /\ Guarded(cache) /\ obj.finalizer /\ obj.uid = cr.uid
  /\ pc \in DeletePcs =>
       ~LiveCopy(cr) /\ ~LiveCopy(cache) /\ (Guarded(cr) => obj.uid = cr.uid)
  /\ pc \in {"deleteState", "removeFinalizer"} => aks.state = "Absent"

(* A CR that needs the operator is never forgotten: its key is queued, or its *)
(* reconciliation runs, or a watch event that will queue it is on its way.    *)
WorkScheduled ==
  cr.exists /\ (cr.deleting => cr.finalizer)
    => queued \/ pc # "idle" \/ "cache" \notin fresh

Live == cr.exists /\ ~cr.deleting

(* A CR that had no predecessor of its name, whose secret it could adopt only *)
(* to lose it to the garbage collector in the middle of a pass.               *)
FirstOfItsName == cr.uid = 1

(* cluster_access is only true in a secret that holds a kubeconfig, as long   *)
(* as the garbage collector of a deletion has not been at it.                 *)
AccessImpliesKubeconfig ==
  Live /\ FirstOfItsName /\ secret.access => secret.kubeconfig # 0

(* The annotation with the kube-system UID never says more than the secret:   *)
(* it names the UID the secret holds for as long as the CR is not deleted.    *)
AnnotationBacked ==
  Live /\ FirstOfItsName /\ cr.annUID # 0 => secret.uid = cr.annUID

(* The status turns Ready only after the secret recorded the cluster: the     *)
(* order in which reconcileCluster makes its calls, across edits and          *)
(* deletions between them (and across crashes: ReadyAfterRecordTheorem).      *)
ReadyAfterRecord ==
  [][Live /\ cr.phase # "Ready" /\ cr'.phase = "Ready"
       => secret.provisioned /\ secret.provState = "Succeeded"]_vars

(* A CR that is deleted goes away: every failed or interrupted deletion is    *)
(* taken up again until the finalizer is off.                                 *)
DeletionCompletes ==
  \A u \in 1 .. MaxDisruptions + 1 :
    cr.uid = u /\ cr.deleting ~> ~(cr.exists /\ cr.uid = u)

(* No secret outlives its CR, not even one a late reader recreated.           *)
StateCollected == ~cr.exists ~> cr.exists \/ ~secret.exists

(* Once the disruptions are over, the CR is Ready and AKS runs what the CR    *)
(* asks for, edits made in the portal included.                               *)
Converges == <>[](Live => cr.phase = "Ready" /\ aks.spec = cr.spec)

(* A kubeconfig ends up in the secret and, if it is that of the cluster there *)
(* is, the kube-system UID in the secret and on the CR: each of them is       *)
(* fetched again until it is stored.                                          *)
CredentialsStored ==
  <>[](Live => /\ secret.kubeconfig # 0
               /\ secret.kubeconfig = aks.gen => secret.uid # 0 /\ cr.annUID # 0)

(* With nobody interfering but users who edit and delete, the secret ends up  *)
(* saying what Azure says.                                                    *)
SecretConverges ==
  <>[](Live => /\ secret.provisioned /\ secret.provState = "Succeeded"
               /\ secret.fqdn = aks.gen /\ secret.kubeconfig = aks.gen
               /\ secret.apiReady /\ secret.access /\ secret.uid = aks.gen)

(* Properties the code does not have; each is what a comment, a message or a  *)
(* page of the documentation says of it.                                      *)

(* "Check if actual changes are needed before triggering an update": no PUT   *)
(* is sent for a cluster that already is as the CR asks.                      *)
NoNeedlessPut ==
  [][At("updateCluster") /\ pc' = "pollUpdate" => aks.spec # obj.spec]_vars

(* A secret left behind by an operator that "crashed during update" is        *)
(* brought up to date by later reconciliations.                               *)
AccessRecorded == <>[](Live => secret.access)

(* "Kubeconfig already stored, no need to fetch again": the one stored is     *)
(* that of the cluster there is, also after the operator recreated it.        *)
KubeconfigIsCurrent == <>[](Live => secret.kubeconfig = aks.gen)

(* The operator keeps the promise of ClusterLifecycle.                        *)
Declaration == IF ~cr.exists \/ (cr.deleting /\ ~cr.finalizer) THEN "none"
               ELSE IF ~cr.finalizer THEN "declared"
               ELSE IF cr.deleting THEN "leaving" ELSE "guarded"

Lifecycle == INSTANCE ClusterLifecycle WITH
  declaration <- Declaration,
  provider    <- IF aks.state = "Absent" THEN "absent" ELSE "present"

KeepsLifecycle == Lifecycle!Spec
=============================================================================
