-------------------- MODULE KubernetesClusterRecordProofs --------------------
(* Theorems about what a reconciliation leaves behind: that the CR's key is   *)
(* not forgotten, and what the state secret, the annotation and the status    *)
(* say of the cluster.                                                        *)
EXTENDS KubernetesClusterControllerProofs

USE DEF Calm, Disturbed, At, Goto

-----------------------------------------------------------------------------
(* What the writes of the CR do                                               *)

(* The CR is still the same one, and a step may delete it, never undelete it. *)
SameName == cr'.uid = cr.uid /\ (Live' => Live)

LEMMA StoredKeepsName ==
  ASSUME NEW c, c.exists = cr.exists, c.uid = cr.uid, cr.deleting => c.deleting,
         cr' = Stored(c)
  PROVE  SameName /\ (cr' = c \/ ~cr'.exists)
BY DEF Stored, NoCR, SameName, Live

LEMMA UnchangedKeepsName == cr' = cr => SameName
BY DEF SameName, Live

LEMMA StatusWrite ==
  ASSUME TypeOK, NEW o, NEW next, NEW onConflict, NEW onError,
         UpdateStatus(o, next, onConflict, onError)
  PROVE  /\ UNCHANGED <<cache, queued, secret, aks, reply, inHand>>
         /\ pc' \in {next, onConflict, onError}
         /\ SameName /\ KeepsFreshness
         /\ cr'.finalizer = cr.finalizer \/ ~cr'.exists
         /\ cr'.annUID = cr.annUID \/ ~cr'.exists
         /\ obj' = o \/ obj' = cr'
         /\ "cache" \in fresh' => obj' = o
<1> DEFINE c == [cr EXCEPT !.phase = o.phase]
<1>1. /\ c.exists = cr.exists /\ c.uid = cr.uid /\ c.deleting = cr.deleting
      /\ c.finalizer = cr.finalizer /\ c.annUID = cr.annUID
  BY DEF TypeOK, CRs
<1>2. Write(c, o, next, onConflict, onError)
  BY DEF UpdateStatus
<1> HIDE DEF c
<1>3. /\ UNCHANGED <<cache, queued, secret, aks, reply, inHand>>
      /\ pc' \in {next, onConflict, onError}
      /\ \/ cr' = Stored(c) /\ obj' = cr' /\ fresh' = {"obj"}
         \/ cr' = Stored(c) /\ obj' = o /\ fresh' = {}
         \/ cr' = cr /\ fresh' = fresh /\ obj' = o
  BY <1>2, WriteEffect
<1>4. CASE cr' = Stored(c) /\ fresh' \subseteq {"obj"}
  <2>1. SameName /\ (cr' = c \/ ~cr'.exists)
    BY <1>1, <1>4, StoredKeepsName
  <2> QED BY <1>1, <1>3, <1>4, <2>1 DEF KeepsFreshness
<1>5. CASE cr' = cr /\ fresh' = fresh /\ obj' = o
  BY <1>3, <1>5, UnchangedKeepsName DEF KeepsFreshness
<1> QED BY <1>3, <1>4, <1>5

LEMMA MetaWrite ==
  ASSUME TypeOK, NEW o, NEW next, NEW onError, UpdateMeta(o, next, onError)
  PROVE  /\ UNCHANGED <<cache, queued, secret, aks, reply, inHand>>
         /\ pc' \in {next, onError}
         /\ SameName /\ KeepsFreshness
         /\ cr'.annUID \in {cr.annUID, o.annUID} \/ ~cr'.exists
         /\ obj' = o \/ obj' = cr'
         /\ "cache" \in fresh' => obj' = o
<1> DEFINE c == [cr EXCEPT !.finalizer = o.finalizer, !.annID = o.annID, !.annUID = o.annUID]
<1>1. /\ c.exists = cr.exists /\ c.uid = cr.uid /\ c.deleting = cr.deleting
      /\ c.annUID = o.annUID
  BY DEF TypeOK, CRs
<1>2. Write(c, o, next, onError, onError)
  BY DEF UpdateMeta
<1> HIDE DEF c
<1>3. /\ UNCHANGED <<cache, queued, secret, aks, reply, inHand>>
      /\ pc' \in {next, onError}
      /\ \/ cr' = Stored(c) /\ obj' = cr' /\ fresh' = {"obj"}
         \/ cr' = Stored(c) /\ obj' = o /\ fresh' = {}
         \/ cr' = cr /\ fresh' = fresh /\ obj' = o
  BY <1>2, WriteEffect
<1>4. CASE cr' = Stored(c) /\ fresh' \subseteq {"obj"}
  <2>1. SameName /\ (cr' = c \/ ~cr'.exists)
    BY <1>1, <1>4, StoredKeepsName
  <2> QED BY <1>1, <1>3, <1>4, <2>1 DEF KeepsFreshness
<1>5. CASE cr' = cr /\ fresh' = fresh /\ obj' = o
  BY <1>3, <1>5, UnchangedKeepsName DEF KeepsFreshness
<1> QED BY <1>3, <1>4, <1>5

-----------------------------------------------------------------------------
(* What the steps of a pass that provisions do                                *)

Pass == EnsureState \/ AddFinalizer \/ InitStatus \/ ReconcileCluster \/ RecordFacts

(* Whoever writes the secret keeps its owner or becomes it.                   *)
KeepsOwner == secret' = secret \/ (secret'.exists /\ secret'.owner = CurrentState.owner)

KeepsObjUID == obj'.uid \in {obj.uid, cr.uid} \/ (cache.exists /\ obj'.uid = cache.uid)

PassStep ==
  /\ SameName /\ KeepsFreshness /\ UNCHANGED <<cache, queued>>
  /\ KeepsOwner /\ KeepsObjUID
  /\ pc \in ProvisionPcs \cup {"ensureState", "addFinalizer"}
  /\ pc' \in ProvisionPcs \cup {"addFinalizer", "requeue"}

(* What the calls that store a fact put into the secret.                      *)
Facts == {[CurrentState EXCEPT !.provisioned = FALSE, !.provState = "Failed"],
          [CurrentState EXCEPT !.provisioned = TRUE],
          [CurrentState EXCEPT !.fqdn = reply.gen],
          [CurrentState EXCEPT !.provState = reply.state],
          [CurrentState EXCEPT !.kubeconfig = inHand],
          [CurrentState EXCEPT !.apiReady = TRUE],
          [CurrentState EXCEPT !.apiReady = TRUE, !.access = TRUE],
          [CurrentState EXCEPT !.uid = inHand],
          CurrentState}

LEMMA FactsOwner ==
  ASSUME TypeOK, NEW s \in Facts PROVE s.exists /\ s.owner = CurrentState.owner
<1>1. CurrentState \in Secrets /\ CurrentState.exists
  BY CurrentStateType DEF CurrentState, NoSecret, TypeOK, Secrets
<1> QED BY <1>1 DEF Facts, Secrets

LEMMA FactWrite ==
  ASSUME TypeOK, NEW s \in Facts, NEW next, NEW onError, WriteState(s, next, onError)
  PROVE  /\ UNCHANGED <<cr, cache, fresh, queued, aks, obj, reply, inHand>>
         /\ pc' \in {next, onError}
         /\ SameName /\ KeepsFreshness /\ KeepsOwner /\ KeepsObjUID
<1>1. CurrentState \in Facts
  BY DEF Facts
<1>2. secret' \in {s, secret, CurrentState}
  BY DEF WriteState
<1>3. KeepsOwner
  BY <1>1, <1>2, FactsOwner DEF KeepsOwner
<1> QED BY <1>3, UnchangedKeepsName DEF WriteState, KeepsFreshness, KeepsObjUID

(* ReconcileCluster works on the AKS cluster only, and comes back with an     *)
(* error, with facts to record, or with nothing new.                          *)
ManagerPcs == {"getCluster", "createCluster", "pollCreate", "updateCluster",
               "pollUpdate", "agentPools"}

LEMMA ReconcileClusterEffect ==
  ASSUME ReconcileCluster
  PROVE  /\ UNCHANGED <<cr, cache, fresh, queued, secret, obj, inHand>>
         /\ aks' \in {aks, PutCluster}
         /\ pc \in ManagerPcs
         /\ pc' \in ManagerPcs \cup {"setFailed", "setProvisioned", "kubeconfig", "requeue"}
         /\ pc' = "kubeconfig" => ~reply'.needsStateUpdate
<1> DEFINE Leads(p) == /\ p \in ManagerPcs \cup {"setFailed", "setProvisioned", "kubeconfig", "requeue"}
                       /\ p = "kubeconfig" => ~reply'.needsStateUpdate
           Does == /\ UNCHANGED <<cr, cache, fresh, queued, secret, obj, inHand>>
                   /\ aks' \in {aks, PutCluster}
                   /\ pc \in ManagerPcs /\ Leads(pc')
<1> USE DEF ManagerPcs
<1>1. Leads(AfterObserving(reply')) /\ \A p \in ManagerPcs \cup {"setFailed"} : Leads(p)
  BY DEF AfterObserving
<1> SUFFICES Does
  OBVIOUS
<1> HIDE DEF Leads
<1>2. CASE GetCluster
  <2>1. pc' \in {AfterObserving(reply'), "updateCluster", "createCluster", "setFailed"}
    BY <1>2 DEF GetCluster
  <2>2. /\ UNCHANGED <<cr, cache, fresh, queued, secret, aks, obj, inHand>>
        /\ pc = "getCluster"
    BY <1>2 DEF GetCluster
  <2> QED BY <1>1, <2>1, <2>2
<1>3. ASSUME NEW call \in ManagerPcs, NEW poll \in ManagerPcs, BeginPut(call, poll) PROVE Does
  <2>1. reply' = reply /\ (pc' = poll \/ \E e, t : FailedWith(e, t))
    BY <1>3 DEF BeginPut
  <2>2. pc' \in {poll, AfterObserving(reply'), "setFailed"}
    BY <2>1 DEF FailedWith
  <2>3. /\ UNCHANGED <<cr, cache, fresh, queued, secret, obj, inHand>>
        /\ aks' \in {aks, PutCluster} /\ pc = call
    BY <1>3 DEF BeginPut
  <2> QED BY <1>1, <2>2, <2>3
<1>4. ASSUME NEW poll \in ManagerPcs, PollPut(poll) PROVE Does
  <2>1. pc' \in {AfterObserving(reply'), "agentPools", "setFailed"}
    BY <1>4 DEF PollPut, FailedWith
  <2>2. UNCHANGED <<cr, cache, fresh, queued, secret, aks, obj, inHand>> /\ pc = poll
    BY <1>4 DEF PollPut
  <2> QED BY <1>1, <2>1, <2>2
<1>5. CASE AgentPools
  <2>1. pc' \in {AfterObserving(reply'), "setFailed"}
    BY <1>5 DEF AgentPools
  <2>2. /\ UNCHANGED <<cr, cache, fresh, queued, secret, aks, obj, inHand>>
        /\ pc = "agentPools"
    BY <1>5 DEF AgentPools
  <2> QED BY <1>1, <2>1, <2>2
<1> QED BY <1>2, <1>3, <1>4, <1>5
        DEF ReconcileCluster, CreateCluster, PollCreate, UpdateCluster, PollUpdate

LEMMA ReconcileClusterSteps == ASSUME TypeOK, ReconcileCluster PROVE PassStep
BY ReconcileClusterEffect, UnchangedKeepsName
   DEF PassStep, KeepsFreshness, KeepsOwner, KeepsObjUID, ProvisionPcs, ManagerPcs

LEMMA StatusStep ==
  ASSUME TypeOK, NEW o, o.uid = obj.uid, NEW next, NEW onConflict, NEW onError,
         UpdateStatus(o, next, onConflict, onError),
         pc \in ProvisionPcs \cup {"ensureState", "addFinalizer"},
         {next, onConflict, onError} \subseteq ProvisionPcs \cup {"addFinalizer", "requeue"}
  PROVE  PassStep
BY StatusWrite DEF PassStep, KeepsOwner, KeepsObjUID, SameName

LEMMA MetaStep ==
  ASSUME TypeOK, NEW o, o.uid = obj.uid, NEW next, NEW onError, UpdateMeta(o, next, onError),
         pc \in ProvisionPcs \cup {"ensureState", "addFinalizer"},
         {next, onError} \subseteq ProvisionPcs \cup {"addFinalizer", "requeue"}
  PROVE  PassStep
BY MetaWrite DEF PassStep, KeepsOwner, KeepsObjUID, SameName

LEMMA FactStep ==
  ASSUME TypeOK, NEW s \in Facts, NEW next, NEW onError, WriteState(s, next, onError),
         pc \in ProvisionPcs \cup {"ensureState", "addFinalizer"},
         {next, onError} \subseteq ProvisionPcs \cup {"addFinalizer", "requeue"}
  PROVE  PassStep
BY FactWrite DEF PassStep

LEMMA RecordFactsSteps == ASSUME TypeOK, RecordFacts PROVE PassStep
<1> USE DEF ProvisionPcs
<1>0. /\ obj \in CRs /\ AfterUID \in ProvisionPcs \cup {"requeue"}
      /\ CurrentState.exists
      /\ \A s \in Facts : s.exists /\ s.owner = CurrentState.owner
  <2>1. \A s \in Facts : s.exists /\ s.owner = CurrentState.owner
    BY FactsOwner
  <2>2. CurrentState.exists
    BY <2>1 DEF Facts
  <2> QED BY <2>1, <2>2 DEF TypeOK, AfterUID
<1>1. CASE FailStatus
  BY <1>0, <1>1, StatusStep DEF FailStatus, CRs
<1>2. CASE SetClusterFailed
  BY <1>2, FactStep DEF SetClusterFailed, Facts
<1>3. CASE SetClusterProvisioned
  BY <1>3, FactStep DEF SetClusterProvisioned, Facts
<1>4. CASE SetClusterFQDN
  BY <1>4, FactStep DEF SetClusterFQDN, Facts
<1>5. CASE SetAKSProvisionState
  BY <1>5, FactStep DEF SetAKSProvisionState, Facts
<1>6. CASE FetchKubeconfig
  <2>1. secret' = secret \/ secret' = CurrentState
    BY <1>6 DEF FetchKubeconfig
  <2>2. UNCHANGED <<cr, cache, fresh, queued, obj>> /\ pc = "kubeconfig"
        /\ pc' \in {"kubeSystemUID", "setKubeconfig"}
    BY <1>6 DEF FetchKubeconfig
  <2> QED BY <1>0, <2>1, <2>2, UnchangedKeepsName
          DEF PassStep, KeepsFreshness, KeepsOwner, KeepsObjUID
<1>7. CASE SetKubeconfig
  BY <1>7, FactStep DEF SetKubeconfig, Facts
<1>8. CASE SetKubernetesAPIReady
  BY <1>8, FactStep DEF SetKubernetesAPIReady, Facts
<1>9. CASE SetClusterReady
  BY <1>9, FactStep DEF SetClusterReady, Facts
<1>10. CASE FetchKubeSystemUID
  <2>1. secret' = secret \/ secret' = CurrentState
    BY <1>10 DEF FetchKubeSystemUID, AdoptUID
  <2>2. UNCHANGED <<cr, cache, fresh, queued>> /\ pc = "kubeSystemUID"
        /\ pc' \in {"annotateUID", "setUID", AfterUID} /\ obj'.uid = obj.uid
    BY <1>0, <1>10 DEF FetchKubeSystemUID, AdoptUID, CRs
  <2> QED BY <1>0, <2>1, <2>2, UnchangedKeepsName
          DEF PassStep, KeepsFreshness, KeepsOwner, KeepsObjUID
<1>11. CASE SetKubeSystemUID
  <2>1. secret' \in {secret, CurrentState, [CurrentState EXCEPT !.uid = inHand]}
    BY <1>11 DEF SetKubeSystemUID
  <2>2. KeepsOwner
    BY <1>0, <2>1 DEF KeepsOwner, Facts
  <2>3. UNCHANGED <<cr, cache, fresh, queued>> /\ pc = "setUID"
        /\ pc' \in {"annotateUID", AfterUID} /\ obj'.uid = obj.uid
    BY <1>0, <1>11 DEF SetKubeSystemUID, CRs
  <2> QED BY <1>0, <2>2, <2>3, UnchangedKeepsName DEF PassStep, KeepsFreshness, KeepsObjUID
<1>12. CASE AnnotateUID
  BY <1>0, <1>12, MetaStep DEF AnnotateUID
<1>13. CASE AnnotateID
  <2>1. CASE obj.annID
    BY <1>13, <2>1, UnchangedKeepsName
       DEF AnnotateID, PassStep, KeepsFreshness, KeepsOwner, KeepsObjUID, world
  <2>2. CASE ~obj.annID
    BY <1>0, <1>13, <2>2, MetaStep DEF AnnotateID, CRs
  <2> QED BY <2>1, <2>2
<1>14. CASE WriteStatus
  BY <1>0, <1>14, StatusStep DEF WriteStatus, WithStatus, CRs
<1>15. CASE Refetch
  BY <1>15, UnchangedKeepsName DEF Refetch, PassStep, KeepsFreshness, KeepsOwner, KeepsObjUID
<1>16. CASE RewriteStatus
  BY <1>0, <1>16, StatusStep DEF RewriteStatus, WithStatus, CRs
<1> QED BY <1>1, <1>2, <1>3, <1>4, <1>5, <1>6, <1>7, <1>8, <1>9, <1>10, <1>11,
           <1>12, <1>13, <1>14, <1>15, <1>16 DEF RecordFacts

LEMMA PassSteps == ASSUME TypeOK, Pass PROVE PassStep
<1>0. obj \in CRs
  BY DEF TypeOK
<1>1. CASE EnsureState
  <2>1. AfterEnsureState \in ProvisionPcs \cup {"addFinalizer"}
    BY DEF AfterEnsureState, ProvisionPcs
  <2> QED BY <1>1, <2>1, FactStep DEF EnsureState, Facts
<1>2. CASE AddFinalizer
  BY <1>0, <1>2, MetaStep DEF AddFinalizer, CRs
<1>3. CASE InitStatus
  BY <1>0, <1>3, StatusStep DEF InitStatus, CRs, ProvisionPcs
<1> QED BY <1>1, <1>2, <1>3, ReconcileClusterSteps, RecordFactsSteps DEF Pass

(* The calls that write the CR, and when the API server takes the write.      *)
WritesCR ==
  /\ pc \in {"addFinalizer", "initStatus", "failStatus", "annotateUID", "annotateID",
             "writeStatus", "rewriteStatus", "markDeleting", "removeFinalizer"}
  /\ ~(pc = "annotateID" /\ obj.annID)
  /\ IsCurrent /\ (budget' = budget \/ fresh' = {})

LEMMA WriteTaken ==
  ASSUME NEW c, NEW o, NEW next, NEW onConflict, NEW onError,
         Write(c, o, next, onConflict, onError), cr' # cr
  PROVE  IsCurrent /\ (budget' = budget \/ fresh' = {})
BY DEF Write

LEMMA OnlyWritesChangeCR == ASSUME Reconcile, cr' # cr PROVE WritesCR
<1>1. CASE Fetch \/ EnsureState \/ Return \/ ReconcileCluster
  BY <1>1, ReconcileClusterEffect DEF Fetch, EnsureState, WriteState, Return
<1>2. CASE AddFinalizer \/ InitStatus
  BY <1>2, WriteTaken DEF AddFinalizer, InitStatus, UpdateMeta, UpdateStatus, WritesCR
<1>3. CASE FailStatus \/ AnnotateUID \/ WriteStatus \/ RewriteStatus
  BY <1>3, WriteTaken
     DEF FailStatus, AnnotateUID, WriteStatus, RewriteStatus, UpdateMeta, UpdateStatus, WritesCR
<1>4. CASE AnnotateID
  <2>1. ~obj.annID
    BY <1>4 DEF AnnotateID, world
  <2> QED BY <1>4, <2>1, WriteTaken DEF AnnotateID, UpdateMeta, WritesCR
<1>5. CASE SetClusterFailed \/ SetClusterProvisioned \/ SetClusterFQDN \/ SetAKSProvisionState
             \/ SetKubeconfig \/ SetKubernetesAPIReady \/ SetClusterReady
  BY <1>5 DEF SetClusterFailed, SetClusterProvisioned, SetClusterFQDN, SetAKSProvisionState,
              SetKubeconfig, SetKubernetesAPIReady, SetClusterReady, WriteState
<1>6. CASE FetchKubeconfig \/ FetchKubeSystemUID \/ SetKubeSystemUID \/ Refetch
  BY <1>6 DEF FetchKubeconfig, FetchKubeSystemUID, SetKubeSystemUID, Refetch
<1>7. CASE MarkDeleting \/ RemoveFinalizer
  BY <1>7, WriteTaken DEF MarkDeleting, RemoveFinalizer, UpdateMeta, UpdateStatus, WritesCR
<1>8. CASE DeleteCluster \/ PollDelete \/ DeleteState
  BY <1>8 DEF DeleteCluster, PollDelete, DeleteState
<1> QED BY <1>1, <1>2, <1>3, <1>4, <1>5, <1>6, <1>7, <1>8
        DEF Reconcile, RecordFacts, HandleDeletion

-----------------------------------------------------------------------------
(* The key of a CR that needs the operator is not forgotten                   *)

Needed(c) == c.exists /\ (c.deleting => c.finalizer)

(* As long as the cache is behind a watch event is due, which will queue the  *)
(* key.  Once it is not, a pass may come to its end without a requeue only if *)
(* the CR it leaves no longer needs the operator; a pass that deletes gets    *)
(* there by way of the finalizer, which its copy of such a CR carries.        *)
ScheduleInv ==
  "cache" \in fresh =>
    /\ cache = cr
    /\ pc \in {"idle", "finished"} /\ ~queued => ~Needed(cr)
    /\ pc \in DeletePcs /\ ~queued /\ Needed(cr) => obj.finalizer

LEMMA ScheduleReconcile == ASSUME TypeOK, ScheduleInv, Reconcile PROVE ScheduleInv'
<1>0. obj \in CRs /\ cache \in CRs /\ cr \in CRs
  BY DEF TypeOK
<1>1. CASE Fetch
  BY <1>0, <1>1 DEF Fetch, ScheduleInv, Needed, DeletePcs, CRs
<1>2. CASE Pass
  <2>1. PassStep
    BY <1>2, PassSteps
  <2>2. pc' \notin DeletePcs \cup {"idle", "finished"}
    BY <2>1 DEF PassStep, ProvisionPcs, DeletePcs
  <2> QED BY <2>1, <2>2 DEF PassStep, KeepsFreshness, ScheduleInv
<1>3. CASE Return
  BY <1>3 DEF Return, ScheduleInv, DeletePcs
<1>4. CASE MarkDeleting
  <2> DEFINE o == [obj EXCEPT !.phase = "Deleting"]
  <2>1. o.finalizer = obj.finalizer
    BY <1>0 DEF CRs
  <2>2. UpdateStatus(o, "deleteCluster", "deleteCluster", "deleteCluster")
    BY <1>4 DEF MarkDeleting
  <2> HIDE DEF o
  <2>3. /\ UNCHANGED <<cache, queued>> /\ pc' = "deleteCluster" /\ KeepsFreshness
        /\ "cache" \in fresh' => obj' = o
    BY <2>2, StatusWrite
  <2>4. pc \in DeletePcs
    BY <1>4 DEF MarkDeleting, DeletePcs
  <2> QED BY <2>1, <2>3, <2>4 DEF KeepsFreshness, ScheduleInv
<1>5. CASE DeleteCluster \/ PollDelete
  <2>1. /\ UNCHANGED <<cr, cache, fresh, queued, obj>> /\ pc \in DeletePcs
        /\ pc' \notin {"idle", "finished"}
    BY <1>5 DEF DeleteCluster, PollDelete, AfterFailedDelete, DeletePcs
  <2> QED BY <2>1 DEF ScheduleInv
<1>6. CASE DeleteState
  BY <1>6 DEF DeleteState, ScheduleInv, DeletePcs
<1>7. CASE RemoveFinalizer
  <2>1. /\ cache' = cache /\ pc' \in {"finished", "requeue"} /\ KeepsFreshness
    BY <1>7, MetaWrite DEF RemoveFinalizer
  <2>2. pc' = "finished" => "cache" \notin fresh'
    BY <1>7 DEF RemoveFinalizer, UpdateMeta, Write
  <2> QED BY <2>1, <2>2 DEF KeepsFreshness, ScheduleInv, DeletePcs
<1> QED BY <1>1, <1>2, <1>3, <1>4, <1>5, <1>6, <1>7 DEF Reconcile, Pass, HandleDeletion

LEMMA ScheduleEnvironment == ASSUME TypeOK, ScheduleInv, Environment PROVE ScheduleInv'
<1>1. CASE CacheSync
  BY <1>1 DEF CacheSync, ScheduleInv, locals
<1>2. CASE Crash
  BY <1>2 DEF Crash, ScheduleInv, Needed, DeletePcs
<1>3. CASE AKSProgress \/ CollectSecret \/ PortalChange \/ SecretDeleted
  BY <1>3 DEF AKSProgress, CollectSecret, PortalChange, SecretDeleted, ScheduleInv, locals
<1>4. CASE EndForegroundDeletion \/ UserEdit \/ UserDelete \/ UserRecreate
  BY <1>4 DEF EndForegroundDeletion, UserEdit, UserDelete, UserRecreate, ScheduleInv
<1> QED BY <1>1, <1>2, <1>3, <1>4 DEF Environment

(* A CR that needs the operator is queued, being reconciled, or the subject   *)
(* of a watch event that is still due, whatever failed, crashed or conflicted *)
(* in the passes before.                                                      *)
THEOREM WorkScheduledTheorem == Spec => []WorkScheduled
<1>1. Init => ScheduleInv
  BY DEF Init, ScheduleInv
<1>2. TypeOK /\ ScheduleInv /\ [Next]_vars => ScheduleInv'
  <2>1. ScheduleInv /\ UNCHANGED vars => ScheduleInv'
    BY DEF ScheduleInv, vars, world, locals
  <2> QED BY <2>1, ScheduleReconcile, ScheduleEnvironment DEF Next
<1>3. ScheduleInv => WorkScheduled
  BY DEF ScheduleInv, WorkScheduled, Needed
<1> QED BY <1>1, <1>2, <1>3, TypeCorrect, PTL DEF Spec

-----------------------------------------------------------------------------
(* The first CR of its name and its secret                                    *)

(* Every copy is one of this CR, the secret is its own, and none of the       *)
(* copies says that it is being deleted when it is not.                       *)
FirstInv ==
  /\ cr.uid # 0
  /\ secret.exists \/ secret = NoSecret
  /\ FirstOfItsName =>
       /\ cache.exists => cache.uid = 1
       /\ pc # "idle" => obj.uid = 1
       /\ secret.exists => secret.owner = 1
       /\ cache.exists /\ cache.deleting => ~Live
       /\ pc \in DeletePcs => ~Live

LEMMA NothingStored == ~NoSecret.exists
BY DEF NoSecret

(* The steps of the environment that do not end the CR's name.                *)
LEMMA EnvironmentName == ASSUME TypeOK, Environment PROVE SameName \/ UserRecreate
<1>0. cr \in CRs
  BY DEF TypeOK
<1>1. CASE EndForegroundDeletion
  <2> DEFINE c == [cr EXCEPT !.held = FALSE]
  <2>1. c.exists = cr.exists /\ c.uid = cr.uid /\ c.deleting = cr.deleting
    BY <1>0 DEF CRs
  <2>2. cr' = Stored(c)
    BY <1>1 DEF EndForegroundDeletion
  <2> HIDE DEF c
  <2> QED BY <2>1, <2>2, StoredKeepsName
<1>2. CASE UserDelete
  <2>1. PICK b \in BOOLEAN : cr' = Stored([cr EXCEPT !.deleting = TRUE, !.held = b])
    BY <1>2 DEF UserDelete
  <2> DEFINE c == [cr EXCEPT !.deleting = TRUE, !.held = b]
  <2>2. c.exists = cr.exists /\ c.uid = cr.uid /\ c.deleting
    BY <1>0 DEF CRs
  <2>3. cr' = Stored(c)
    BY <2>1
  <2> HIDE DEF c
  <2> QED BY <2>2, <2>3, StoredKeepsName
<1>3. CASE UserEdit
  <2>1. PICK s \in Specs : cr' = [cr EXCEPT !.spec = s]
    BY <1>3 DEF UserEdit
  <2>2. cr'.exists = cr.exists /\ cr'.uid = cr.uid /\ cr'.deleting = cr.deleting
    BY <1>0, <2>1 DEF CRs
  <2> QED BY <2>2 DEF SameName, Live
<1>4. CASE CacheSync \/ Crash \/ AKSProgress \/ CollectSecret \/ PortalChange \/ SecretDeleted
  BY <1>4, UnchangedKeepsName
     DEF CacheSync, Crash, AKSProgress, CollectSecret, PortalChange, SecretDeleted
<1> QED BY <1>1, <1>2, <1>3, <1>4 DEF Environment

LEMMA FirstReconcile == ASSUME TypeOK, FirstInv, Reconcile PROVE FirstInv'
<1>0. obj \in CRs /\ cache \in CRs /\ cr \in CRs /\ secret \in Secrets
  BY DEF TypeOK
<1>1. CASE Fetch
  BY <1>0, <1>1 DEF Fetch, FirstInv, FirstOfItsName, Live, DeletePcs, CRs
<1>2. CASE Pass
  <2>1. PassStep
    BY <1>2, PassSteps
  <2>2. pc # "idle" /\ pc' \notin DeletePcs
    BY <2>1 DEF PassStep, ProvisionPcs, DeletePcs
  <2>3. secret'.exists \/ secret' = NoSecret
    BY <2>1 DEF PassStep, KeepsOwner, FirstInv
  <2>4. ASSUME FirstOfItsName PROVE obj'.uid = 1 /\ (secret'.exists => secret'.owner = 1)
    <3>1. obj.uid = 1 /\ (secret.exists => secret.owner = 1) /\ (cache.exists => cache.uid = 1)
      BY <2>2, <2>4 DEF FirstInv
    <3>2. CurrentState.owner = 1
      BY <3>1 DEF CurrentState, NoSecret
    <3> QED BY <2>1, <2>4, <3>1, <3>2 DEF PassStep, KeepsObjUID, KeepsOwner, FirstOfItsName
  <2> QED BY <2>1, <2>2, <2>3, <2>4 DEF PassStep, SameName, FirstInv, FirstOfItsName
<1>3. CASE Return
  BY <1>3 DEF Return, FirstInv, FirstOfItsName, Live, DeletePcs
<1>4. CASE MarkDeleting
  <2> DEFINE o == [obj EXCEPT !.phase = "Deleting"]
  <2>1. o.uid = obj.uid
    BY <1>0 DEF CRs
  <2>2. UpdateStatus(o, "deleteCluster", "deleteCluster", "deleteCluster")
    BY <1>4 DEF MarkDeleting
  <2> HIDE DEF o
  <2>3. UNCHANGED <<cache, secret>> /\ SameName /\ (obj' = o \/ obj' = cr')
    BY <2>2, StatusWrite
  <2>4. pc \in DeletePcs /\ pc # "idle"
    BY <1>4 DEF MarkDeleting, DeletePcs
  <2> QED BY <2>1, <2>3, <2>4 DEF SameName, FirstInv, FirstOfItsName
<1>5. CASE DeleteCluster \/ PollDelete \/ DeleteState
  <2>1. /\ UNCHANGED <<cr, cache, obj>> /\ pc \in DeletePcs /\ pc # "idle"
        /\ secret' \in {secret, NoSecret}
    BY <1>5 DEF DeleteCluster, PollDelete, DeleteState, DeletePcs
  <2> QED BY <2>1, NothingStored DEF FirstInv, FirstOfItsName, Live
<1>6. CASE RemoveFinalizer
  <2> DEFINE o == [obj EXCEPT !.finalizer = FALSE]
  <2>1. o.uid = obj.uid
    BY <1>0 DEF CRs
  <2>2. UpdateMeta(o, "finished", "requeue")
    BY <1>6 DEF RemoveFinalizer
  <2> HIDE DEF o
  <2>3. UNCHANGED <<cache, secret>> /\ SameName /\ (obj' = o \/ obj' = cr')
    BY <2>2, MetaWrite
  <2>4. pc \in DeletePcs /\ pc # "idle"
    BY <1>6 DEF RemoveFinalizer, DeletePcs
  <2> QED BY <2>1, <2>3, <2>4 DEF SameName, FirstInv, FirstOfItsName
<1> QED BY <1>1, <1>2, <1>3, <1>4, <1>5, <1>6 DEF Reconcile, Pass, HandleDeletion

LEMMA FirstEnvironment == ASSUME TypeOK, FirstInv, Environment PROVE FirstInv'
<1>1. CASE UserRecreate
  <2>1. PICK s \in Specs : cr' = NewCR(cr.uid + 1, s)
    BY <1>1 DEF UserRecreate
  <2>2. cr'.uid = cr.uid + 1 /\ cr.uid \in Nat
    BY <2>1 DEF NewCR, NoCR, TypeOK, CRs
  <2>3. secret' = secret
    BY <1>1 DEF UserRecreate
  <2> QED BY <2>2, <2>3 DEF FirstInv, FirstOfItsName
<1>2. CASE SameName /\ ~UserRecreate
  <2>1. \/ cache' = cache /\ pc' = pc /\ obj' = obj
        \/ cache' = cr /\ cr' = cr /\ pc' = pc /\ obj' = obj
        \/ cache' = cr /\ cr' = cr /\ pc' = "idle"
    BY <1>2 DEF Environment, CacheSync, Crash, AKSProgress, CollectSecret, PortalChange,
            SecretDeleted, EndForegroundDeletion, UserEdit, UserDelete, locals
  <2>2. secret' \in {secret, NoSecret}
    BY <1>2 DEF Environment, CacheSync, Crash, AKSProgress, CollectSecret, PortalChange,
            SecretDeleted, EndForegroundDeletion, UserEdit, UserDelete
  <2> QED BY <1>2, <2>1, <2>2, NothingStored
          DEF SameName, FirstInv, FirstOfItsName, Live, DeletePcs
<1> QED BY <1>1, <1>2, EnvironmentName

LEMMA FirstInvariant == Spec => [](TypeOK /\ FirstInv)
<1>1. Init => FirstInv
  <2>1. ASSUME Init PROVE FirstInv
    <3>1. PICK s \in Specs : cr = NewCR(1, s)
      BY <2>1 DEF Init
    <3>2. cr.uid = 1 /\ ~cache.exists /\ pc = "idle" /\ secret = NoSecret
      BY <2>1, <3>1 DEF Init, NewCR, NoCR
    <3> QED BY <3>2, NothingStored DEF FirstInv, DeletePcs
  <2> QED BY <2>1
<1>2. TypeOK /\ FirstInv /\ [Next]_vars => FirstInv'
  <2>1. FirstInv /\ UNCHANGED vars => FirstInv'
    BY DEF FirstInv, FirstOfItsName, Live, vars, world, locals
  <2> QED BY <2>1, FirstReconcile, FirstEnvironment DEF Next
<1> QED BY <1>1, <1>2, TypeCorrect, PTL DEF Spec

(* Nobody deletes the secret by hand.                                         *)
SecretKept == "secret" \notin Disruptions

(* The steps that leave the first CR of its name in place and not deleted: no *)
(* deletion runs and its secret is nobody's to collect.                       *)
Bystanders == Fetch \/ Return \/ CacheSync \/ Crash \/ UserEdit \/ AKSProgress \/ PortalChange

LEMMA LiveStep ==
  ASSUME TypeOK, FirstInv, SecretKept, Next, Live', FirstOfItsName'
  PROVE  Live /\ FirstOfItsName /\ (Pass \/ Bystanders)
<1>1. cr \in CRs /\ secret \in Secrets
  BY DEF TypeOK
<1>2. CASE HandleDeletion
  <2>1. pc \in DeletePcs
    BY <1>2 DEF HandleDeletion, MarkDeleting, DeleteCluster, PollDelete, DeleteState,
            RemoveFinalizer, DeletePcs
  <2>2. SameName
    BY <1>2, StatusWrite, MetaWrite, UnchangedKeepsName
       DEF HandleDeletion, MarkDeleting, DeleteCluster, PollDelete, DeleteState, RemoveFinalizer
  <2> QED BY <2>1, <2>2 DEF SameName, FirstInv, FirstOfItsName
<1>3. CASE Pass \/ Fetch \/ Return
  <2>1. SameName
    BY <1>3, PassSteps, UnchangedKeepsName DEF PassStep, Fetch, Return
  <2> QED BY <1>3, <2>1 DEF SameName, FirstOfItsName, Bystanders
<1>4. CASE Environment
  <2>1. ~UserRecreate
    <3>1. ASSUME UserRecreate PROVE FALSE
      <4>1. PICK s \in Specs : cr' = NewCR(cr.uid + 1, s)
        BY <3>1 DEF UserRecreate
      <4>2. cr'.uid = cr.uid + 1
        BY <4>1 DEF NewCR, NoCR
      <4> QED BY <1>1, <4>2 DEF FirstInv, FirstOfItsName, CRs
    <3> QED BY <3>1
  <2>2. SameName
    BY <1>4, <2>1, EnvironmentName
  <2>3. Live /\ FirstOfItsName
    BY <2>2 DEF SameName, FirstOfItsName
  <2>4. ~EndForegroundDeletion
    BY <2>3 DEF EndForegroundDeletion, Live
  <2>5. ~CollectSecret
    BY <2>3 DEF CollectSecret, OwnsSecret, FirstInv, FirstOfItsName, Live
  <2>6. ~SecretDeleted
    BY DEF SecretDeleted, SecretKept
  <2>7. ~UserDelete
    BY <1>1 DEF UserDelete, Stored, NoCR, Live, CRs
  <2> QED BY <1>4, <2>1, <2>3, <2>4, <2>5, <2>6, <2>7 DEF Environment, Bystanders
<1> QED BY <1>2, <1>3, <1>4 DEF Next, Reconcile, Pass

(* GetOrCreateState invents no fact.                                          *)
LEMMA CurrentFacts ==
  ASSUME TypeOK, FirstInv
  PROVE  /\ CurrentState \in Secrets
         /\ CurrentState.access = secret.access
         /\ CurrentState.kubeconfig = secret.kubeconfig
         /\ CurrentState.uid = secret.uid
         /\ CurrentState.provisioned = secret.provisioned
         /\ CurrentState.provState = secret.provState
BY CurrentStateType DEF CurrentState, FirstInv, NoSecret

-----------------------------------------------------------------------------
(* cluster_access is only set in a secret that holds a kubeconfig             *)

AccessInv ==
  Live /\ FirstOfItsName =>
    /\ aks.state # "Absent" => aks.gen # 0
    /\ pc = "setKubeconfig" => inHand # 0
    /\ secret.access => secret.kubeconfig # 0
    /\ pc \in {"setAPIReady", "setReady"} => secret.kubeconfig # 0

(* A step that leaves both facts alone and does not enter the calls that      *)
(* store them.                                                                *)
LEMMA AccessKept ==
  ASSUME AccessInv, Live, FirstOfItsName,
         secret'.access = secret.access, secret'.kubeconfig = secret.kubeconfig,
         aks' = aks, pc' \notin {"setKubeconfig", "setAPIReady", "setReady"}
  PROVE  AccessInv'
BY DEF AccessInv

LEMMA AccessReconcileCluster ==
  ASSUME TypeOK, AccessInv, Live, FirstOfItsName, ReconcileCluster PROVE AccessInv'
<1>1. PutCluster.gen # 0
  BY DEF PutCluster, AccessInv, TypeOK, AKSClusters
<1> QED BY <1>1, ReconcileClusterEffect DEF AccessInv, ManagerPcs

LEMMA AccessRecordFacts ==
  ASSUME TypeOK, FirstInv, AccessInv, Live, FirstOfItsName, RecordFacts PROVE AccessInv'
<1> DEFINE S == CurrentState
<1>0. /\ S \in Secrets /\ S.access = secret.access /\ S.kubeconfig = secret.kubeconfig
      /\ secret \in Secrets
  BY CurrentFacts DEF TypeOK
<1> HIDE DEF S
<1>1. ASSUME NEW s, s.access = secret.access, s.kubeconfig = secret.kubeconfig,
             NEW next, next \notin {"setKubeconfig", "setAPIReady", "setReady"},
             WriteState(s, next, next)
      PROVE  AccessInv'
  <2>1. secret' \in {s, secret, S} /\ aks' = aks /\ pc' = next
    BY <1>1 DEF WriteState, S
  <2> QED BY <1>0, <1>1, <2>1, AccessKept
<1>2. CASE FailStatus \/ WriteStatus \/ RewriteStatus
  <2>1. UNCHANGED <<secret, aks>> /\ pc' \in {"requeue", "refetch"}
    BY <1>2, StatusWrite DEF FailStatus, WriteStatus, RewriteStatus
  <2> QED BY <2>1, AccessKept
<1>3. CASE SetClusterFailed
  BY <1>0, <1>1, <1>3 DEF SetClusterFailed, Secrets, S
<1>4. CASE SetClusterProvisioned
  BY <1>0, <1>1, <1>4 DEF SetClusterProvisioned, Secrets, S
<1>5. CASE SetClusterFQDN
  <2> DEFINE s == [S EXCEPT !.fqdn = reply.gen]
  <2>1. s.access = S.access /\ s.kubeconfig = S.kubeconfig
    BY <1>0 DEF Secrets
  <2>2. secret' \in {secret, S, s} /\ aks' = aks /\ pc' \in {"setProvState", "kubeconfig", "annotateID"}
    BY <1>5 DEF SetClusterFQDN, WriteState, S
  <2> HIDE DEF s
  <2> QED BY <1>0, <2>1, <2>2, AccessKept
<1>6. CASE SetAKSProvisionState
  <2> DEFINE s == [S EXCEPT !.provState = reply.state]
  <2>1. s.access = S.access /\ s.kubeconfig = S.kubeconfig
    BY <1>0 DEF Secrets
  <2>2. secret' \in {secret, S, s} /\ aks' = aks /\ pc' \in {"setProvState", "kubeconfig", "annotateID"}
    BY <1>6 DEF SetAKSProvisionState, WriteState, S
  <2> HIDE DEF s
  <2> QED BY <1>0, <2>1, <2>2, AccessKept
<1>7. CASE FetchKubeconfig
  <2>1. secret' \in {secret, S} /\ aks' = aks
    BY <1>7 DEF FetchKubeconfig, S
  <2>2. \/ pc' = "kubeSystemUID"
        \/ pc' = "setKubeconfig" /\ inHand' = aks.gen /\ aks.state # "Absent"
    BY <1>7 DEF FetchKubeconfig
  <2> QED BY <1>0, <2>1, <2>2 DEF AccessInv
<1>8. CASE SetKubeconfig
  <2> DEFINE s == [S EXCEPT !.kubeconfig = inHand]
  <2>1. s.access = S.access /\ s.kubeconfig = inHand
    BY <1>0 DEF Secrets
  <2>2. inHand # 0
    BY <1>8 DEF SetKubeconfig, AccessInv
  <2>3. /\ aks' = aks
        /\ \/ pc' = "setAPIReady" /\ secret' = s
           \/ pc' = "kubeSystemUID" /\ secret' \in {secret, S, s}
    BY <1>8 DEF SetKubeconfig, WriteState, S
  <2> HIDE DEF s
  <2> QED BY <1>0, <2>1, <2>2, <2>3 DEF AccessInv
<1>9. CASE SetKubernetesAPIReady
  <2> DEFINE s == [S EXCEPT !.apiReady = TRUE]
  <2>1. s.access = S.access /\ s.kubeconfig = S.kubeconfig
    BY <1>0 DEF Secrets
  <2>2. secret' \in {secret, S, s} /\ aks' = aks /\ pc = "setAPIReady" /\ pc' = "setReady"
    BY <1>9 DEF SetKubernetesAPIReady, WriteState, S
  <2> HIDE DEF s
  <2> QED BY <1>0, <2>1, <2>2 DEF AccessInv
<1>10. CASE SetClusterReady
  <2> DEFINE s == [S EXCEPT !.apiReady = TRUE, !.access = TRUE]
  <2>1. s.kubeconfig = S.kubeconfig
    BY <1>0 DEF Secrets
  <2>2. secret' \in {secret, S, s} /\ aks' = aks /\ pc = "setReady" /\ pc' = "kubeSystemUID"
    BY <1>10 DEF SetClusterReady, WriteState, S
  <2> HIDE DEF s
  <2> QED BY <1>0, <2>1, <2>2 DEF AccessInv
<1>11. CASE FetchKubeSystemUID
  <2>1. secret' \in {secret, S} /\ aks' = aks /\ pc' \in {"annotateUID", "setUID", AfterUID}
    BY <1>11 DEF FetchKubeSystemUID, AdoptUID, S
  <2> QED BY <1>0, <2>1, AccessKept DEF AfterUID
<1>12. CASE SetKubeSystemUID
  <2> DEFINE s == [S EXCEPT !.uid = inHand]
  <2>1. s.access = S.access /\ s.kubeconfig = S.kubeconfig
    BY <1>0 DEF Secrets
  <2>2. secret' \in {secret, S, s} /\ aks' = aks /\ pc' \in {"annotateUID", AfterUID}
    BY <1>12 DEF SetKubeSystemUID, S
  <2> HIDE DEF s
  <2> QED BY <1>0, <2>1, <2>2, AccessKept DEF AfterUID
<1>13. CASE AnnotateUID \/ AnnotateID
  <2>1. UNCHANGED <<secret, aks>> /\ pc' \in {"writeStatus", AfterUID}
    BY <1>13, MetaWrite DEF AnnotateUID, AnnotateID, world
  <2> QED BY <2>1, AccessKept DEF AfterUID
<1>14. CASE Refetch
  <2>1. UNCHANGED <<secret, aks>> /\ pc' \in {"rewriteStatus", "requeue"}
    BY <1>14 DEF Refetch
  <2> QED BY <2>1, AccessKept
<1> QED BY <1>2, <1>3, <1>4, <1>5, <1>6, <1>7, <1>8, <1>9, <1>10, <1>11, <1>12,
           <1>13, <1>14 DEF RecordFacts

LEMMA AccessStep ==
  ASSUME TypeOK, FirstInv, AccessInv, SecretKept, Next PROVE AccessInv'
<1> SUFFICES ASSUME Live', FirstOfItsName' PROVE AccessInv'
  BY DEF AccessInv
<1>1. Live /\ FirstOfItsName /\ (Pass \/ Bystanders)
  BY LiveStep
<1>2. CASE EnsureState
  <2>1. /\ secret' \in {secret, CurrentState} /\ aks' = aks
        /\ pc' \in {"addFinalizer", "initStatus", "getCluster"}
    BY <1>2 DEF EnsureState, WriteState, AfterEnsureState
  <2> QED BY <1>1, <2>1, CurrentFacts, AccessKept
<1>3. CASE AddFinalizer \/ InitStatus
  <2>1. UNCHANGED <<secret, aks>> /\ pc' \in {"requeue", "getCluster"}
    BY <1>3, MetaWrite, StatusWrite DEF AddFinalizer, InitStatus
  <2> QED BY <1>1, <2>1, AccessKept
<1>4. CASE Fetch \/ Return \/ Crash
  <2>1. UNCHANGED <<secret, aks>> /\ pc' \in {"idle", "markDeleting", "ensureState"}
    <3>1. CASE Fetch /\ cache.exists
      BY <3>1 DEF Fetch
    <3>2. CASE Fetch /\ ~cache.exists
      BY <3>2 DEF Fetch
    <3> QED BY <1>4, <3>1, <3>2 DEF Return, Crash
  <2> QED BY <1>1, <2>1, AccessKept
<1>5. CASE CacheSync \/ UserEdit \/ AKSProgress \/ PortalChange
  <2>1. aks' = aks \/ (aks.state # "Absent" /\ aks'.gen = aks.gen)
    BY <1>5 DEF CacheSync, UserEdit, AKSProgress, PortalChange, InProgress, TypeOK, AKSClusters
  <2>2. UNCHANGED <<secret, pc, inHand>>
    BY <1>5 DEF CacheSync, UserEdit, AKSProgress, PortalChange, locals
  <2> QED BY <1>1, <2>1, <2>2 DEF AccessInv
<1> QED BY <1>1, <1>2, <1>3, <1>4, <1>5, AccessReconcileCluster, AccessRecordFacts
        DEF Pass, Bystanders

(* Whatever fails, crashes or is changed in Azure, the secret of a CR that is *)
(* not deleted never claims access without the kubeconfig, unless someone     *)
(* deletes the secret between two calls of a pass.                            *)
THEOREM AccessImpliesKubeconfigTheorem ==
  ASSUME SecretKept PROVE Spec => []AccessImpliesKubeconfig
<1>1. Init => AccessInv
  <2>1. ~NoSecret.access
    BY DEF NoSecret
  <2> QED BY <2>1 DEF Init, AccessInv
<1>2. TypeOK /\ FirstInv /\ AccessInv /\ [Next]_vars => AccessInv'
  <2>1. AccessInv /\ UNCHANGED vars => AccessInv'
    BY DEF AccessInv, Live, FirstOfItsName, vars, world, locals
  <2> QED BY <2>1, AccessStep
<1>3. AccessInv => AccessImpliesKubeconfig
  BY DEF AccessInv, AccessImpliesKubeconfig
<1> QED BY <1>1, <1>2, <1>3, FirstInvariant, PTL DEF Spec

-----------------------------------------------------------------------------
(* The annotation with the kube-system UID names the UID in the secret        *)

(* Nobody deletes the AKS cluster behind the operator's back.  When someone   *)
(* does, a kubeconfig that cannot be read is overwritten with that of the     *)
(* cluster created in its place, and another UID can reach the secret.        *)
ClusterKept == "portal" \notin Disruptions

(* As long as the CR is not deleted there is one incarnation of the cluster,  *)
(* the first, so that every UID there is to store is the same one.            *)
AnnotationInv ==
  Live /\ FirstOfItsName =>
    /\ aks.state # "Deleting"
    /\ aks.gen = IF aks.state = "Absent" THEN 0 ELSE 1
    /\ pc = "setUID" => inHand = 1
    /\ secret.uid \in {0, 1}
    /\ cr.annUID \in {0, secret.uid}
    /\ cache.annUID \in {0, secret.uid}
    /\ obj.annUID \in {0, secret.uid}

LEMMA AnnotationKept ==
  ASSUME AnnotationInv, Live, FirstOfItsName,
         aks' = aks, secret'.uid = secret.uid, pc' # "setUID",
         cr'.annUID \in {cr.annUID, obj.annUID},
         cache'.annUID \in {cache.annUID, cr.annUID},
         obj'.annUID \in {0, obj.annUID, cache.annUID, cr'.annUID}
  PROVE  AnnotationInv'
BY DEF AnnotationInv

LEMMA AnnotationReconcileCluster ==
  ASSUME TypeOK, AnnotationInv, Live, FirstOfItsName, ReconcileCluster PROVE AnnotationInv'
<1>1. /\ PutCluster.state \in {"Creating", "Updating"} /\ PutCluster.gen = 1
  BY DEF PutCluster, AnnotationInv, TypeOK, AKSClusters
<1> QED BY <1>1, ReconcileClusterEffect DEF AnnotationInv, ManagerPcs

LEMMA AnnotationRecordFacts ==
  ASSUME TypeOK, FirstInv, AnnotationInv, Live, FirstOfItsName, Live', RecordFacts
  PROVE  AnnotationInv'
<1> DEFINE S == CurrentState
<1>0. S \in Secrets /\ S.uid = secret.uid /\ obj \in CRs /\ cache \in CRs /\ secret.uid \in Nat
  BY CurrentFacts DEF TypeOK, Secrets
<1> HIDE DEF S
<1>1. ASSUME NEW s, s.uid = secret.uid,
             NEW next, next # "setUID", NEW onError, onError # "setUID",
             WriteState(s, next, onError)
      PROVE  AnnotationInv'
  <2>1. /\ secret' \in {s, secret, S} /\ pc' \in {next, onError}
        /\ UNCHANGED <<aks, cr, cache, obj>>
    BY <1>1 DEF WriteState, S
  <2> QED BY <1>0, <1>1, <2>1, AnnotationKept
<1>2. ASSUME NEW o, o.annUID = obj.annUID, NEW onConflict \in {"requeue", "refetch"},
             UpdateStatus(o, "requeue", onConflict, "requeue")
      PROVE  AnnotationInv'
  <2>1. /\ UNCHANGED <<secret, aks, cache>> /\ pc' \in {"requeue", "refetch"}
        /\ cr'.annUID = cr.annUID /\ (obj' = o \/ obj' = cr')
    BY <1>2, StatusWrite DEF Live
  <2> QED BY <1>2, <2>1, AnnotationKept
<1>3. CASE FailStatus
  BY <1>0, <1>2, <1>3 DEF FailStatus, CRs
<1>4. CASE WriteStatus \/ RewriteStatus
  BY <1>0, <1>2, <1>4 DEF WriteStatus, RewriteStatus, WithStatus, CRs
<1>5. CASE SetClusterFailed
  <2> DEFINE s == [S EXCEPT !.provisioned = FALSE, !.provState = "Failed"]
  <2>1. s.uid = secret.uid
    BY <1>0 DEF Secrets
  <2>2. WriteState(s, "failStatus", "failStatus")
    BY <1>5 DEF SetClusterFailed, S
  <2> HIDE DEF s
  <2> QED BY <1>1, <2>1, <2>2
<1>6. CASE SetClusterProvisioned
  <2> DEFINE s == [S EXCEPT !.provisioned = TRUE]
  <2>1. s.uid = secret.uid
    BY <1>0 DEF Secrets
  <2>2. \E next \in {"setFQDN", "setProvState"} : WriteState(s, next, next)
    BY <1>6 DEF SetClusterProvisioned, S
  <2> HIDE DEF s
  <2> QED BY <1>1, <2>1, <2>2
<1>7. CASE SetClusterFQDN
  <2> DEFINE s == [S EXCEPT !.fqdn = reply.gen]
  <2>1. s.uid = secret.uid
    BY <1>0 DEF Secrets
  <2>2. WriteState(s, "setProvState", "setProvState")
    BY <1>7 DEF SetClusterFQDN, S
  <2> HIDE DEF s
  <2> QED BY <1>1, <2>1, <2>2
<1>8. CASE SetAKSProvisionState
  <2> DEFINE s == [S EXCEPT !.provState = reply.state]
  <2>1. s.uid = secret.uid
    BY <1>0 DEF Secrets
  <2>2. \E next \in {"kubeconfig", "annotateID"} : WriteState(s, next, next)
    BY <1>8 DEF SetAKSProvisionState, S
  <2> HIDE DEF s
  <2> QED BY <1>1, <2>1, <2>2
<1>9. CASE FetchKubeconfig
  <2>1. /\ secret' \in {secret, S} /\ pc' # "setUID" /\ UNCHANGED <<aks, cr, cache, obj>>
    BY <1>9 DEF FetchKubeconfig, S
  <2> QED BY <1>0, <2>1, AnnotationKept
<1>10. CASE SetKubeconfig
  <2> DEFINE s == [S EXCEPT !.kubeconfig = inHand]
  <2>1. s.uid = secret.uid
    BY <1>0 DEF Secrets
  <2>2. WriteState(s, "setAPIReady", "kubeSystemUID")
    BY <1>10 DEF SetKubeconfig, S
  <2> HIDE DEF s
  <2> QED BY <1>1, <2>1, <2>2
<1>11. CASE SetKubernetesAPIReady
  <2> DEFINE s == [S EXCEPT !.apiReady = TRUE]
  <2>1. s.uid = secret.uid
    BY <1>0 DEF Secrets
  <2>2. WriteState(s, "setReady", "setReady")
    BY <1>11 DEF SetKubernetesAPIReady, S
  <2> HIDE DEF s
  <2> QED BY <1>1, <2>1, <2>2
<1>12. CASE SetClusterReady
  <2> DEFINE s == [S EXCEPT !.apiReady = TRUE, !.access = TRUE]
  <2>1. s.uid = secret.uid
    BY <1>0 DEF Secrets
  <2>2. WriteState(s, "kubeSystemUID", "kubeSystemUID")
    BY <1>12 DEF SetClusterReady, S
  <2> HIDE DEF s
  <2> QED BY <1>1, <2>1, <2>2
<1>13. CASE FetchKubeSystemUID
  <2>1. /\ secret' \in {secret, S} /\ UNCHANGED <<aks, cr, cache>>
        /\ \/ obj' = obj
           \/ obj' = [obj EXCEPT !.annUID = secret.uid]
        /\ pc' = "setUID" => GuestAnswers /\ inHand' = aks.gen
    BY <1>13 DEF FetchKubeSystemUID, AdoptUID, AfterUID, S
  <2>2. obj'.annUID \in {obj.annUID, secret.uid}
    BY <1>0, <2>1 DEF CRs
  <2>3. GuestAnswers => aks.state # "Absent"
    BY DEF GuestAnswers
  <2> QED BY <1>0, <2>1, <2>2, <2>3 DEF AnnotationInv
<1>14. CASE SetKubeSystemUID
  <2> DEFINE s == [S EXCEPT !.uid = inHand]
             o == [obj EXCEPT !.annUID = inHand]
  <2>1. s.uid = inHand /\ o.annUID = inHand
    BY <1>0 DEF Secrets, CRs
  <2>2. /\ (secret' = s /\ obj' = o) \/ (secret' \in {secret, S, s} /\ obj' = obj)
        /\ UNCHANGED <<aks, cr, cache>> /\ pc = "setUID" /\ pc' # "setUID"
    BY <1>14 DEF SetKubeSystemUID, AfterUID, S
  <2> HIDE DEF s, o
  <2> QED BY <1>0, <2>1, <2>2 DEF AnnotationInv
<1>15. CASE AnnotateUID \/ AnnotateID
  <2>1. CASE AnnotateID /\ obj.annID
    BY <2>1, AnnotationKept DEF AnnotateID, world
  <2>2. CASE AnnotateUID \/ (AnnotateID /\ ~obj.annID)
    <3>1. PICK o, next : /\ o.annUID = obj.annUID /\ next # "setUID"
                         /\ UpdateMeta(o, next, next)
      BY <1>0, <2>2 DEF AnnotateUID, AnnotateID, AfterUID, CRs
    <3>2. /\ UNCHANGED <<secret, aks, cache>> /\ pc' # "setUID"
          /\ cr'.annUID \in {cr.annUID, o.annUID} /\ (obj' = o \/ obj' = cr')
      BY <3>1, MetaWrite DEF Live
    <3> QED BY <3>1, <3>2, AnnotationKept
  <2> QED BY <1>15, <2>1, <2>2
<1>16. CASE Refetch
  <2>1. UNCHANGED <<secret, aks, cr, cache>> /\ pc' # "setUID" /\ (obj' = cache \/ obj' = obj)
    BY <1>16 DEF Refetch
  <2> QED BY <2>1, AnnotationKept
<1> QED BY <1>3, <1>4, <1>5, <1>6, <1>7, <1>8, <1>9, <1>10, <1>11, <1>12,
           <1>13, <1>14, <1>15, <1>16 DEF RecordFacts

LEMMA AnnotationStep ==
  ASSUME TypeOK, FirstInv, AnnotationInv, SecretKept, ClusterKept, Next PROVE AnnotationInv'
<1> SUFFICES ASSUME Live', FirstOfItsName' PROVE AnnotationInv'
  BY DEF AnnotationInv
<1>0. obj \in CRs /\ cr \in CRs
  BY DEF TypeOK
<1>1. Live /\ FirstOfItsName /\ (Pass \/ Bystanders)
  BY LiveStep
<1>2. CASE EnsureState
  <2>1. /\ secret' \in {secret, CurrentState} /\ pc' # "setUID"
        /\ UNCHANGED <<aks, cr, cache, obj>>
    BY <1>2 DEF EnsureState, WriteState, AfterEnsureState
  <2> QED BY <1>1, <2>1, CurrentFacts, AnnotationKept
<1>3. CASE AddFinalizer
  <2> DEFINE o == [obj EXCEPT !.finalizer = TRUE]
  <2>1. o.annUID = obj.annUID /\ UpdateMeta(o, "requeue", "requeue")
    BY <1>0, <1>3 DEF AddFinalizer, CRs
  <2> HIDE DEF o
  <2>2. /\ UNCHANGED <<secret, aks, cache>> /\ pc' # "setUID"
        /\ cr'.annUID \in {cr.annUID, o.annUID} /\ (obj' = o \/ obj' = cr')
    BY <2>1, MetaWrite DEF Live
  <2> QED BY <1>1, <2>1, <2>2, AnnotationKept
<1>4. CASE InitStatus
  <2> DEFINE o == [obj EXCEPT !.phase = "Creating"]
  <2>1. o.annUID = obj.annUID /\ UpdateStatus(o, "getCluster", "getCluster", "getCluster")
    BY <1>0, <1>4 DEF InitStatus, CRs
  <2> HIDE DEF o
  <2>2. /\ UNCHANGED <<secret, aks, cache>> /\ pc' # "setUID"
        /\ cr'.annUID = cr.annUID /\ (obj' = o \/ obj' = cr')
    BY <2>1, StatusWrite DEF Live
  <2> QED BY <1>1, <2>1, <2>2, AnnotationKept
<1>5. CASE Fetch
  <2>1. UNCHANGED <<secret, aks, cr, cache>> /\ (obj' = cache \/ obj' = obj)
    BY <1>5 DEF Fetch
  <2>2. pc' # "setUID"
    <3>1. CASE cache.exists
      BY <1>5, <3>1 DEF Fetch
    <3>2. CASE ~cache.exists
      BY <1>5, <3>2 DEF Fetch
    <3> QED BY <3>1, <3>2
  <2> QED BY <1>1, <2>1, <2>2, AnnotationKept
<1>6. CASE Return \/ Crash
  <2>1. NoCR.annUID = 0
    BY DEF NoCR
  <2>2. /\ UNCHANGED <<secret, aks, cr>> /\ pc' # "setUID" /\ obj' = NoCR
        /\ cache' \in {cache, cr}
    BY <1>6 DEF Return, Crash
  <2> QED BY <1>1, <2>1, <2>2, AnnotationKept
<1>7. CASE CacheSync \/ UserEdit
  <2>1. /\ UNCHANGED <<secret, aks, pc, obj, inHand>> /\ cache' \in {cache, cr}
    BY <1>7 DEF CacheSync, UserEdit, locals
  <2>2. cr'.annUID = cr.annUID
    BY <1>0, <1>7 DEF CacheSync, UserEdit, CRs
  <2> QED BY <1>1, <2>1, <2>2 DEF AnnotationInv
<1>8. CASE AKSProgress
  <2>1. UNCHANGED <<secret, pc, obj, cr, cache, inHand>>
    BY <1>8 DEF AKSProgress, locals
  <2>2. /\ aks'.gen = aks.gen /\ aks'.state \in {"Succeeded", "Failed", "Canceled"}
        /\ aks.state # "Absent"
    BY <1>1, <1>8 DEF AKSProgress, AnnotationInv, InProgress, TypeOK, AKSClusters
  <2> QED BY <1>1, <2>1, <2>2 DEF AnnotationInv
<1>9. CASE PortalChange
  BY <1>9 DEF PortalChange, ClusterKept
<1> QED BY <1>1, <1>2, <1>3, <1>4, <1>5, <1>6, <1>7, <1>8, <1>9,
           AnnotationReconcileCluster, AnnotationRecordFacts DEF Pass, Bystanders

(* What the annotation of a CR that is not deleted says of its cluster is     *)
(* what the secret says, through every failure of a call and every crash.     *)
THEOREM AnnotationBackedTheorem ==
  ASSUME SecretKept, ClusterKept PROVE Spec => []AnnotationBacked
<1>1. Init => AnnotationInv
  <2>1. ASSUME Init PROVE AnnotationInv
    <3>1. PICK s \in Specs : cr = NewCR(1, s)
      BY <2>1 DEF Init
    <3>2. cr.annUID = 0 /\ NoCR.annUID = 0 /\ NoSecret.uid = 0
      BY <3>1 DEF NewCR, NoCR, NoSecret
    <3> QED BY <2>1, <3>2 DEF Init, AnnotationInv
  <2> QED BY <2>1
<1>2. TypeOK /\ FirstInv /\ AnnotationInv /\ [Next]_vars => AnnotationInv'
  <2>1. AnnotationInv /\ UNCHANGED vars => AnnotationInv'
    BY DEF AnnotationInv, Live, FirstOfItsName, vars, world, locals
  <2> QED BY <2>1, AnnotationStep
<1>3. AnnotationInv => AnnotationBacked
  BY DEF AnnotationInv, AnnotationBacked
<1> QED BY <1>1, <1>2, <1>3, FirstInvariant, PTL DEF Spec

-----------------------------------------------------------------------------
(* What another operator may rely on, if it works on the same CR              *)

(* A name that is the first stays so backwards, and nothing undoes a deletion. *)
LEMMA NameStep ==
  ASSUME TypeOK, FirstInv, Next, FirstOfItsName'
  PROVE  FirstOfItsName /\ (Live' => Live)
<1>1. CASE HandleDeletion
  BY <1>1, StatusWrite, MetaWrite, UnchangedKeepsName
     DEF HandleDeletion, MarkDeleting, DeleteCluster, PollDelete, DeleteState, RemoveFinalizer,
         SameName, FirstOfItsName
<1>2. CASE Pass \/ Fetch \/ Return
  BY <1>2, PassSteps, UnchangedKeepsName DEF PassStep, Fetch, Return, SameName, FirstOfItsName
<1>3. CASE Environment
  <2>1. ASSUME UserRecreate PROVE FALSE
    <3>1. PICK s \in Specs : cr' = NewCR(cr.uid + 1, s)
      BY <2>1 DEF UserRecreate
    <3>2. cr'.uid = cr.uid + 1
      BY <3>1 DEF NewCR, NoCR
    <3> QED BY <3>2 DEF FirstInv, FirstOfItsName, TypeOK, CRs
  <2> QED BY <1>3, <2>1, EnvironmentName DEF SameName, FirstOfItsName
<1> QED BY <1>1, <1>2, <1>3 DEF Next, Reconcile, Pass

(* Only two calls of a pass change the credentials in the secret, to what     *)
(* they hold in hand.                                                         *)
LEMMA PassCredentials ==
  ASSUME TypeOK, FirstInv, Pass
  PROVE  /\ \/ secret'.kubeconfig = secret.kubeconfig
            \/ pc = "setKubeconfig" /\ secret'.kubeconfig = inHand
         /\ secret'.uid = secret.uid \/ (pc = "setUID" /\ secret'.uid = inHand)
<1> DEFINE S == CurrentState
<1>0. S \in Secrets /\ S.uid = secret.uid /\ S.kubeconfig = secret.kubeconfig
  BY CurrentFacts
<1> HIDE DEF S
<1>1. CASE EnsureState \/ FetchKubeconfig \/ FetchKubeSystemUID
  <2>1. secret' \in {secret, S}
    BY <1>1 DEF EnsureState, FetchKubeconfig, FetchKubeSystemUID, AdoptUID, WriteState, S
  <2> QED BY <1>0, <2>1
<1>2. CASE \/ AddFinalizer \/ InitStatus \/ FailStatus \/ AnnotateUID \/ AnnotateID
           \/ WriteStatus \/ Refetch \/ RewriteStatus
  <2>1. secret' = secret
    BY <1>2, StatusWrite, MetaWrite
       DEF AddFinalizer, InitStatus, FailStatus, AnnotateUID, AnnotateID, WriteStatus, Refetch,
           RewriteStatus, world
  <2> QED BY <2>1
<1>3. CASE ReconcileCluster
  BY <1>3, ReconcileClusterEffect
<1>4. CASE \/ SetClusterFailed \/ SetClusterProvisioned \/ SetClusterFQDN
           \/ SetAKSProvisionState \/ SetKubernetesAPIReady \/ SetClusterReady
  <2> DEFINE Others == {[S EXCEPT !.provisioned = FALSE, !.provState = "Failed"],
                        [S EXCEPT !.provisioned = TRUE],
                        [S EXCEPT !.fqdn = reply.gen],
                        [S EXCEPT !.provState = reply.state],
                        [S EXCEPT !.apiReady = TRUE],
                        [S EXCEPT !.apiReady = TRUE, !.access = TRUE]}
  <2>1. \A s \in Others : s.kubeconfig = S.kubeconfig /\ s.uid = S.uid
    BY <1>0 DEF Secrets
  <2>2. \E s \in Others : secret' \in {s, secret, S}
    BY <1>4 DEF SetClusterFailed, SetClusterProvisioned, SetClusterFQDN, SetAKSProvisionState,
                SetKubernetesAPIReady, SetClusterReady, WriteState, S
  <2> HIDE DEF Others
  <2> QED BY <1>0, <2>1, <2>2
<1>5. CASE SetKubeconfig
  <2> DEFINE s == [S EXCEPT !.kubeconfig = inHand]
  <2>1. s.kubeconfig = inHand /\ s.uid = S.uid
    BY <1>0 DEF Secrets
  <2>2. secret' \in {secret, S, s} /\ pc = "setKubeconfig"
    BY <1>5 DEF SetKubeconfig, WriteState, S
  <2> HIDE DEF s
  <2> QED BY <1>0, <2>1, <2>2
<1>6. CASE SetKubeSystemUID
  <2> DEFINE s == [S EXCEPT !.uid = inHand]
  <2>1. s.uid = inHand /\ s.kubeconfig = S.kubeconfig
    BY <1>0 DEF Secrets
  <2>2. secret' \in {secret, S, s} /\ pc = "setUID"
    BY <1>6 DEF SetKubeSystemUID, S
  <2> HIDE DEF s
  <2> QED BY <1>0, <2>1, <2>2
<1> QED BY <1>1, <1>2, <1>3, <1>4, <1>5, <1>6 DEF Pass, RecordFacts

(* A kubeconfig, once stored, is not taken out again, and a UID not replaced. *)
LEMMA CredentialsStay ==
  ASSUME TypeOK, FirstInv, SecretKept, Next, Live', FirstOfItsName'
  PROVE  /\ AccessInv /\ secret.kubeconfig # 0 => secret'.kubeconfig # 0
         /\ AnnotationInv /\ secret.uid # 0 => secret'.uid = secret.uid
<1>1. Live /\ FirstOfItsName /\ (Pass \/ Bystanders)
  BY LiveStep
<1>2. CASE Pass
  <2>1. AccessInv => (pc = "setKubeconfig" => inHand # 0)
    BY <1>1 DEF AccessInv
  <2>2. AnnotationInv => secret.uid \in {0, 1} /\ (pc = "setUID" => inHand = 1)
    BY <1>1 DEF AnnotationInv
  <2> QED BY <1>2, <2>1, <2>2, PassCredentials
<1>3. CASE Bystanders
  <2>1. secret' = secret
    BY <1>3 DEF Bystanders, Fetch, Return, CacheSync, Crash, UserEdit, AKSProgress,
                PortalChange, locals
  <2> QED BY <2>1
<1> QED BY <1>1, <1>2, <1>3

-----------------------------------------------------------------------------
(* The status turns Ready only after the secret recorded the cluster          *)

(* The calls that store a fact reach the API server: an error of theirs is    *)
(* logged, and the status is written all the same.                            *)
CallsSucceed == "api" \notin Disruptions
NeverRecreated == "recreate" \notin Disruptions

FactsPcs == {"kubeconfig", "setKubeconfig", "setAPIReady", "setReady",
             "kubeSystemUID", "setUID", "annotateUID"}
StatusPcs == {"annotateID", "writeStatus", "refetch", "rewriteStatus"}

(* By the time the credentials are looked at, and for as long as the status   *)
(* may still be written, the secret says what the pass saw in Azure.          *)
RecordInv ==
  Live =>
    /\ pc \in {"setFQDN", "setProvState"} => secret.provisioned
    /\ pc \in StatusPcs \/ (pc \in FactsPcs /\ reply.needsStateUpdate) =>
         secret.provisioned /\ secret.provState = reply.state

LEMMA RemainsFirst ==
  ASSUME TypeOK, NeverRecreated, FirstOfItsName, Next PROVE FirstOfItsName'
<1>1. ~UserRecreate
  BY DEF UserRecreate, NeverRecreated
<1>2. CASE Environment
  BY <1>1, <1>2, EnvironmentName DEF SameName, FirstOfItsName
<1>3. CASE HandleDeletion
  BY <1>3, StatusWrite, MetaWrite, UnchangedKeepsName
     DEF HandleDeletion, MarkDeleting, DeleteCluster, PollDelete, DeleteState, RemoveFinalizer,
         SameName, FirstOfItsName
<1>4. CASE Pass \/ Fetch \/ Return
  BY <1>4, PassSteps, UnchangedKeepsName
     DEF PassStep, Fetch, Return, SameName, FirstOfItsName
<1> QED BY <1>2, <1>3, <1>4 DEF Next, Reconcile, Pass

(* A step inside a stage, or from the facts to the status.                    *)
LEMMA RecordKept ==
  ASSUME RecordInv, Live, reply' = reply,
         secret'.provisioned = secret.provisioned, secret'.provState = secret.provState,
         \/ pc \in FactsPcs /\ pc' \in FactsPcs \cup {AfterUID}
         \/ pc \in StatusPcs /\ pc' \in StatusPcs \cup {"requeue"}
         \/ pc' \notin FactsPcs \cup StatusPcs \cup {"setFQDN", "setProvState"}
  PROVE  RecordInv'
BY DEF RecordInv, AfterUID, FactsPcs, StatusPcs

LEMMA RecordRecordFacts ==
  ASSUME TypeOK, FirstInv, RecordInv, CallsSucceed, Live, RecordFacts PROVE RecordInv'
<1> USE DEF FactsPcs, StatusPcs
<1> DEFINE S == CurrentState
<1>0. /\ S \in Secrets /\ S.provisioned = secret.provisioned /\ S.provState = secret.provState
  BY CurrentFacts
<1>1. ~Disturbed("api")
  BY DEF CallsSucceed
<1> HIDE DEF S
<1>2. CASE SetClusterFailed \/ FailStatus
  <2>1. pc' \in {"failStatus", "requeue"}
    BY <1>2, StatusWrite DEF SetClusterFailed, FailStatus, WriteState
  <2> QED BY <2>1 DEF RecordInv
<1>3. CASE SetClusterProvisioned
  <2>1. /\ secret' = [S EXCEPT !.provisioned = TRUE]
        /\ pc' \in {"setFQDN", "setProvState"}
    BY <1>1, <1>3 DEF SetClusterProvisioned, WriteState, S
  <2>2. secret'.provisioned
    BY <1>0, <2>1 DEF Secrets
  <2> QED BY <2>1, <2>2 DEF RecordInv
<1>4. CASE SetClusterFQDN
  <2>1. /\ secret' = [S EXCEPT !.fqdn = reply.gen]
        /\ pc = "setFQDN" /\ pc' = "setProvState"
    BY <1>1, <1>4 DEF SetClusterFQDN, WriteState, S
  <2>2. secret'.provisioned = S.provisioned
    BY <1>0, <2>1 DEF Secrets
  <2> QED BY <1>0, <2>1, <2>2 DEF RecordInv
<1>5. CASE SetAKSProvisionState
  <2>1. /\ secret' = [S EXCEPT !.provState = reply.state] /\ reply' = reply
        /\ pc = "setProvState" /\ pc' \in {"kubeconfig", "annotateID"}
    BY <1>1, <1>5 DEF SetAKSProvisionState, WriteState, S
  <2>2. secret'.provisioned = S.provisioned /\ secret'.provState = reply.state
    BY <1>0, <2>1 DEF Secrets
  <2> QED BY <1>0, <2>1, <2>2 DEF RecordInv
<1>6. ASSUME NEW s, s.provisioned = S.provisioned, s.provState = S.provState,
             pc \in FactsPcs, NEW next \in FactsPcs, NEW onError \in FactsPcs,
             WriteState(s, next, onError)
      PROVE  RecordInv'
  <2>1. secret' = s /\ pc' \in FactsPcs /\ reply' = reply
    BY <1>1, <1>6 DEF WriteState
  <2> QED BY <1>0, <1>6, <2>1, RecordKept
<1>7. CASE FetchKubeconfig
  <2>1. /\ secret' \in {secret, S} /\ reply' = reply
        /\ pc = "kubeconfig" /\ pc' \in {"kubeSystemUID", "setKubeconfig"}
    BY <1>7 DEF FetchKubeconfig, S
  <2> QED BY <1>0, <2>1, RecordKept
<1>8. CASE SetKubeconfig
  <2> DEFINE s == [S EXCEPT !.kubeconfig = inHand]
  <2>1. s.provisioned = S.provisioned /\ s.provState = S.provState
    BY <1>0 DEF Secrets
  <2>2. pc = "setKubeconfig" /\ WriteState(s, "setAPIReady", "kubeSystemUID")
    BY <1>8 DEF SetKubeconfig, S
  <2> HIDE DEF s
  <2> QED BY <1>6, <2>1, <2>2
<1>9. CASE SetKubernetesAPIReady
  <2> DEFINE s == [S EXCEPT !.apiReady = TRUE]
  <2>1. s.provisioned = S.provisioned /\ s.provState = S.provState
    BY <1>0 DEF Secrets
  <2>2. pc = "setAPIReady" /\ WriteState(s, "setReady", "setReady")
    BY <1>9 DEF SetKubernetesAPIReady, S
  <2> HIDE DEF s
  <2> QED BY <1>6, <2>1, <2>2
<1>10. CASE SetClusterReady
  <2> DEFINE s == [S EXCEPT !.apiReady = TRUE, !.access = TRUE]
  <2>1. s.provisioned = S.provisioned /\ s.provState = S.provState
    BY <1>0 DEF Secrets
  <2>2. pc = "setReady" /\ WriteState(s, "kubeSystemUID", "kubeSystemUID")
    BY <1>10 DEF SetClusterReady, S
  <2> HIDE DEF s
  <2> QED BY <1>6, <2>1, <2>2
<1>11. CASE FetchKubeSystemUID
  <2>1. /\ secret' \in {secret, S} /\ reply' = reply
        /\ pc = "kubeSystemUID" /\ pc' \in {"annotateUID", "setUID", AfterUID}
    BY <1>11 DEF FetchKubeSystemUID, AdoptUID, S
  <2> QED BY <1>0, <2>1, RecordKept
<1>12. CASE SetKubeSystemUID
  <2>1. /\ secret' = [S EXCEPT !.uid = inHand] /\ reply' = reply
        /\ pc = "setUID" /\ pc' = "annotateUID"
    BY <1>1, <1>12 DEF SetKubeSystemUID, S
  <2>2. secret'.provisioned = S.provisioned /\ secret'.provState = S.provState
    BY <1>0, <2>1 DEF Secrets
  <2> QED BY <1>0, <2>1, <2>2, RecordKept
<1>13. CASE AnnotateUID
  <2>1. /\ UNCHANGED <<secret, reply>> /\ pc = "annotateUID" /\ pc' = AfterUID
    BY <1>13, MetaWrite DEF AnnotateUID
  <2> QED BY <2>1, RecordKept
<1>14. CASE AnnotateID
  <2>1. /\ UNCHANGED <<secret, reply>> /\ pc = "annotateID" /\ pc' = "writeStatus"
    BY <1>14, MetaWrite DEF AnnotateID, world
  <2> QED BY <2>1, RecordKept
<1>15. CASE WriteStatus \/ Refetch \/ RewriteStatus
  <2>1. /\ UNCHANGED <<secret, reply>> /\ pc \in StatusPcs
        /\ pc' \in {"requeue", "refetch", "rewriteStatus"}
    BY <1>15, StatusWrite DEF WriteStatus, Refetch, RewriteStatus
  <2> QED BY <2>1, RecordKept
<1> QED BY <1>2, <1>3, <1>4, <1>5, <1>7, <1>8, <1>9, <1>10, <1>11, <1>12, <1>13,
           <1>14, <1>15 DEF RecordFacts

LEMMA RecordStep ==
  ASSUME TypeOK, FirstInv, FirstOfItsName, RecordInv,
         SecretKept, CallsSucceed, NeverRecreated, Next
  PROVE  RecordInv'
<1> SUFFICES ASSUME Live' PROVE RecordInv'
  BY DEF RecordInv
<1>1. Live /\ (Pass \/ Bystanders)
  BY RemainsFirst, LiveStep
<1>2. CASE ReconcileCluster
  BY <1>2, ReconcileClusterEffect DEF RecordInv, ManagerPcs, FactsPcs, StatusPcs
<1>3. CASE EnsureState \/ AddFinalizer \/ InitStatus
  <2>1. pc' \in {"addFinalizer", "initStatus", "getCluster", "requeue"}
    BY <1>3, MetaWrite, StatusWrite
       DEF EnsureState, WriteState, AfterEnsureState, AddFinalizer, InitStatus
  <2> QED BY <2>1 DEF RecordInv, FactsPcs, StatusPcs
<1>4. CASE Fetch \/ Return \/ Crash
  <2>1. pc' \in {"idle", "markDeleting", "ensureState"}
    <3>1. CASE Fetch /\ cache.exists
      BY <3>1 DEF Fetch
    <3>2. CASE Fetch /\ ~cache.exists
      BY <3>2 DEF Fetch
    <3> QED BY <1>4, <3>1, <3>2 DEF Return, Crash
  <2> QED BY <2>1 DEF RecordInv, FactsPcs, StatusPcs
<1>5. CASE CacheSync \/ UserEdit \/ AKSProgress \/ PortalChange
  <2>1. UNCHANGED <<secret, pc, reply>>
    BY <1>5 DEF CacheSync, UserEdit, AKSProgress, PortalChange, locals
  <2> QED BY <1>1, <2>1 DEF RecordInv
<1> QED BY <1>1, <1>2, <1>3, <1>4, <1>5, RecordRecordFacts DEF Pass, Bystanders

(* A write of the CR, when it makes the API server remove it included.        *)
LEMMA StatusPhase ==
  ASSUME TypeOK, NEW o, NEW next, NEW onConflict, NEW onError,
         UpdateStatus(o, next, onConflict, onError), cr'.phase = "Ready"
  PROVE  cr.phase = "Ready" \/ o.phase = "Ready"
<1> DEFINE c == [cr EXCEPT !.phase = o.phase]
<1>1. c.phase = o.phase
  BY DEF TypeOK, CRs
<1>2. cr' = cr \/ cr' = Stored(c)
  BY WriteEffect DEF UpdateStatus
<1> HIDE DEF c
<1>3. cr' \in {cr, c, [NoCR EXCEPT !.uid = c.uid]}
  BY <1>2 DEF Stored
<1>4. [NoCR EXCEPT !.uid = c.uid].phase = ""
  BY DEF NoCR
<1> QED BY <1>1, <1>3, <1>4

LEMMA MetaPhase ==
  ASSUME TypeOK, NEW o, NEW next, NEW onError, UpdateMeta(o, next, onError), cr'.phase = "Ready"
  PROVE  cr.phase = "Ready"
<1> DEFINE c == [cr EXCEPT !.finalizer = o.finalizer, !.annID = o.annID, !.annUID = o.annUID]
<1>1. c.phase = cr.phase
  BY DEF TypeOK, CRs
<1>2. cr' = cr \/ cr' = Stored(c)
  BY WriteEffect DEF UpdateMeta
<1> HIDE DEF c
<1>3. cr' \in {cr, c, [NoCR EXCEPT !.uid = c.uid]}
  BY <1>2 DEF Stored
<1>4. [NoCR EXCEPT !.uid = c.uid].phase = ""
  BY DEF NoCR
<1> QED BY <1>1, <1>3, <1>4

(* Only the status of a pass that saw the cluster Succeeded says Ready.       *)
LEMMA TurnsReady ==
  ASSUME TypeOK, NeverRecreated, Next, cr.phase # "Ready", cr'.phase = "Ready"
  PROVE  pc \in {"writeStatus", "rewriteStatus"} /\ reply.state = "Succeeded"
<1>0. obj \in CRs /\ cr \in CRs
  BY DEF TypeOK
<1>1. cr' # cr
  OBVIOUS
<1>2. CASE Environment
  <2>1. ASSUME NEW c, c.phase = cr.phase, cr' = Stored(c) PROVE FALSE
    BY <2>1 DEF Stored, NoCR
  <2>2. ~EndForegroundDeletion
    BY <1>0, <2>1 DEF EndForegroundDeletion, CRs
  <2>3. ~UserDelete
    BY <1>0, <2>1 DEF UserDelete, CRs
  <2>4. ~UserEdit
    BY <1>0 DEF UserEdit, CRs
  <2> QED BY <1>1, <1>2, <2>2, <2>3, <2>4
          DEF Environment, CacheSync, Crash, AKSProgress, CollectSecret, UserRecreate,
              PortalChange, SecretDeleted, NeverRecreated
<1>3. ~(AddFinalizer \/ AnnotateUID \/ AnnotateID \/ RemoveFinalizer)
  BY <1>1, MetaPhase DEF AddFinalizer, AnnotateUID, AnnotateID, RemoveFinalizer, world
<1>4. ASSUME NEW phase, phase # "Ready", NEW next, NEW onConflict, NEW onError,
             UpdateStatus([obj EXCEPT !.phase = phase], next, onConflict, onError)
      PROVE  FALSE
  <2> DEFINE o == [obj EXCEPT !.phase = phase]
  <2>1. o.phase = phase
    BY <1>0 DEF CRs
  <2> HIDE DEF o
  <2> QED BY <1>4, <2>1, StatusPhase DEF o
<1>5. ~(InitStatus \/ FailStatus \/ MarkDeleting)
  BY <1>4 DEF InitStatus, FailStatus, MarkDeleting
<1>6. CASE WriteStatus \/ RewriteStatus
  <2>1. PhaseFromAKS(reply.state) = "Ready"
    BY <1>4, <1>6 DEF WriteStatus, RewriteStatus, WithStatus
  <2> QED BY <1>6, <2>1 DEF PhaseFromAKS, WriteStatus, RewriteStatus
<1>7. ~(Fetch \/ EnsureState \/ Return \/ ReconcileCluster)
  BY <1>1, ReconcileClusterEffect DEF Fetch, EnsureState, WriteState, Return
<1>8. ~(DeleteCluster \/ PollDelete \/ DeleteState)
  BY <1>1 DEF DeleteCluster, PollDelete, DeleteState
<1>9. ~(\/ SetClusterFailed \/ SetClusterProvisioned \/ SetClusterFQDN \/ SetAKSProvisionState
        \/ SetKubeconfig \/ SetKubernetesAPIReady \/ SetClusterReady)
  BY <1>1 DEF SetClusterFailed, SetClusterProvisioned, SetClusterFQDN, SetAKSProvisionState,
              SetKubeconfig, SetKubernetesAPIReady, SetClusterReady, WriteState
<1>10. ~(FetchKubeconfig \/ FetchKubeSystemUID \/ SetKubeSystemUID \/ Refetch)
  BY <1>1 DEF FetchKubeconfig, FetchKubeSystemUID, SetKubeSystemUID, Refetch
<1> QED BY <1>2, <1>3, <1>5, <1>6, <1>7, <1>8, <1>9, <1>10
        DEF Next, Reconcile, RecordFacts, HandleDeletion

(* The order of reconcileCluster's calls: whatever Azure answers, whoever     *)
(* edits the CR or the cluster and however often the operator crashes, the    *)
(* status turns Ready only when the secret says provisioned and Succeeded.    *)
THEOREM ReadyAfterRecordTheorem ==
  ASSUME SecretKept, CallsSucceed, NeverRecreated PROVE Spec => ReadyAfterRecord
<1> DEFINE I == TypeOK /\ FirstInv /\ FirstOfItsName /\ RecordInv
           A == Live /\ cr.phase # "Ready" /\ cr'.phase = "Ready"
                  => secret.provisioned /\ secret.provState = "Succeeded"
<1>1. Init => FirstOfItsName /\ RecordInv
  <2>1. ASSUME Init PROVE FirstOfItsName /\ RecordInv
    <3>1. PICK s \in Specs : cr = NewCR(1, s)
      BY <2>1 DEF Init
    <3>2. cr.uid = 1 /\ pc = "idle"
      BY <2>1, <3>1 DEF Init, NewCR, NoCR
    <3> QED BY <3>2 DEF FirstOfItsName, RecordInv, FactsPcs, StatusPcs
  <2> QED BY <2>1
<1>2. I /\ (TypeOK /\ FirstInv)' /\ [Next]_vars => I'
  <2>1. FirstOfItsName /\ RecordInv /\ UNCHANGED vars => (FirstOfItsName /\ RecordInv)'
    BY DEF RecordInv, Live, FirstOfItsName, vars, world, locals
  <2> QED BY <2>1, RemainsFirst, RecordStep
<1>3. I /\ [Next]_vars => [A]_vars
  <2>1. ASSUME I, Next, Live, cr.phase # "Ready", cr'.phase = "Ready"
        PROVE  secret.provisioned /\ secret.provState = "Succeeded"
    BY <2>1, TurnsReady DEF RecordInv, StatusPcs
  <2> QED BY <2>1
<1> HIDE DEF A
<1>4. Spec => [][A]_vars
  BY <1>1, <1>2, <1>3, FirstInvariant, PTL DEF Spec
<1> QED BY <1>4 DEF ReadyAfterRecord, A
=============================================================================
