------------------ MODULE KubernetesClusterControllerProofs ------------------
(* Theorems about KubernetesClusterController for any set of specs, any       *)
(* disruptions and any number of them.                                        *)
EXTENDS KubernetesClusterController, TLAPS

USE DEF Calm, Disturbed, At, Goto

-----------------------------------------------------------------------------
(* Type correctness                                                           *)

LEMMA AnySpecType == AnySpec \in Specs
BY SpecsAssumption DEF AnySpec

LEMMA NoCRType == NoCR \in CRs
BY AnySpecType DEF NoCR, CRs, Phases

LEMMA NoReplyType == NoReply \in Replies
BY DEF NoReply, Replies

LEMMA NoSecretType == NoSecret \in Secrets
BY DEF NoSecret, Secrets

LEMMA StoredType == ASSUME NEW c \in CRs PROVE Stored(c) \in CRs
BY NoCRType DEF Stored, CRs

LEMMA CurrentStateType == ASSUME TypeOK PROVE CurrentState \in Secrets
BY NoSecretType DEF TypeOK, CurrentState, Secrets, CRs

LEMMA PhaseType ==
  ASSUME NEW state \in ProvisioningStates \cup {""} PROVE PhaseFromAKS(state) \in Phases
BY DEF PhaseFromAKS, Phases, ProvisioningStates

LEMMA ObservationsType == ASSUME TypeOK, aks.state # "Absent" PROVE Observations \subseteq Replies
<1> DEFINE needs == \/ obj.phase # PhaseFromAKS(aks.state)
                    \/ obj.phase \in {"", "Creating", "Provisioning"}
           from  == IF aks.state = "Creating" THEN BOOLEAN ELSE {TRUE}
           seen(b, n) == [state |-> aks.state, gen |-> aks.gen, fqdn |-> b,
                          needsStateUpdate |-> n]
<1>1. needs \in BOOLEAN
  OBVIOUS
<1>2. from \subseteq BOOLEAN
  OBVIOUS
<1>3. Observations = {seen(b, needs) : b \in from}
  BY DEF Observations
<1>4. \A b \in BOOLEAN, n \in BOOLEAN : seen(b, n) \in Replies
  BY DEF TypeOK, Replies, AKSClusters
<1> HIDE DEF needs, from, seen
<1> QED BY <1>1, <1>2, <1>3, <1>4

LEMMA PutClusterType ==
  ASSUME TypeOK PROVE PutCluster \in AKSClusters /\ DeletedCluster \in AKSClusters
<1>1. /\ aks.state \in ProvisioningStates \cup {"Absent"} /\ aks.gen \in Nat
      /\ aks.spec \in Specs /\ obj.spec \in Specs /\ aks \in AKSClusters
  BY DEF TypeOK, AKSClusters, CRs
<1>2. [state |-> "Creating", gen |-> aks.gen + 1, spec |-> obj.spec] \in AKSClusters
  BY <1>1 DEF AKSClusters, ProvisioningStates
<1>3. [aks EXCEPT !.state = "Updating", !.spec = obj.spec] \in AKSClusters
  BY <1>1 DEF AKSClusters, ProvisioningStates
<1>4. [aks EXCEPT !.state = "Deleting"] \in AKSClusters
  BY <1>1 DEF AKSClusters, ProvisioningStates
<1> QED BY <1>1, <1>2, <1>3, <1>4 DEF PutCluster, DeletedCluster

LEMMA BudgetType ==
  ASSUME TypeOK, budget' = budget \/ (budget > 0 /\ budget' = budget - 1)
  PROVE  budget' \in 0 .. MaxDisruptions
BY DisruptionsAssumption DEF TypeOK

(* What one write of the CR does.                                             *)
LEMMA WriteEffect ==
  ASSUME NEW c, NEW o, NEW next, NEW onConflict, NEW onError,
         Write(c, o, next, onConflict, onError)
  PROVE  /\ UNCHANGED <<cache, queued, secret, aks, reply, inHand>>
         /\ pc' \in {next, onConflict, onError}
         /\ budget' = budget \/ (budget > 0 /\ budget' = budget - 1)
         /\ \/ IsCurrent /\ cr' = Stored(c) /\ obj' = cr' /\ fresh' = {"obj"}
            \/ IsCurrent /\ cr' = Stored(c) /\ obj' = o /\ fresh' = {}
            \/ cr' = cr /\ fresh' = fresh /\ obj' = o
BY DEF Write

LEMMA WriteType ==
  ASSUME TypeOK, NEW c \in CRs, NEW o \in CRs,
         NEW next \in Pcs, NEW onConflict \in Pcs, NEW onError \in Pcs,
         Write(c, o, next, onConflict, onError)
  PROVE  TypeOK'
<1>1. /\ UNCHANGED <<cache, queued, secret, aks, reply, inHand>>
      /\ pc' \in Pcs /\ budget' \in 0 .. MaxDisruptions
  BY WriteEffect, BudgetType
<1>2. Stored(c) \in CRs /\ cr \in CRs /\ fresh \subseteq {"cache", "obj"}
  BY StoredType DEF TypeOK
<1>3. cr' \in CRs /\ obj' \in CRs /\ fresh' \subseteq {"cache", "obj"}
  <2>1. \/ cr' = Stored(c) /\ obj' = cr' /\ fresh' = {"obj"}
        \/ cr' = Stored(c) /\ obj' = o /\ fresh' = {}
        \/ cr' = cr /\ fresh' = fresh /\ obj' = o
    BY WriteEffect
  <2> QED BY <1>2, <2>1
<1> QED BY <1>1, <1>3 DEF TypeOK

LEMMA UpdateMetaType ==
  ASSUME TypeOK, NEW o \in CRs, NEW next \in Pcs, NEW onError \in Pcs,
         UpdateMeta(o, next, onError)
  PROVE  TypeOK'
<1>1. [cr EXCEPT !.finalizer = o.finalizer, !.annID = o.annID, !.annUID = o.annUID] \in CRs
  BY DEF TypeOK, CRs
<1> QED BY <1>1, WriteType DEF UpdateMeta

LEMMA UpdateStatusType ==
  ASSUME TypeOK, NEW o \in CRs,
         NEW next \in Pcs, NEW onConflict \in Pcs, NEW onError \in Pcs,
         UpdateStatus(o, next, onConflict, onError)
  PROVE  TypeOK'
<1>1. [cr EXCEPT !.phase = o.phase] \in CRs
  BY DEF TypeOK, CRs
<1> QED BY <1>1, WriteType DEF UpdateStatus

LEMMA WriteStateType ==
  ASSUME TypeOK, NEW s \in Secrets, NEW next \in Pcs, NEW onError \in Pcs,
         WriteState(s, next, onError)
  PROVE  TypeOK'
<1>1. secret' \in Secrets
  BY CurrentStateType DEF WriteState, TypeOK
<1>2. budget' \in 0 .. MaxDisruptions
  BY BudgetType DEF WriteState
<1> QED BY <1>1, <1>2 DEF WriteState, TypeOK

LEMMA AfterObservingPc == \A r : AfterObserving(r) \in ProvisionPcs \cup {"requeue"}
BY DEF AfterObserving, ProvisionPcs

LEMMA AfterPcs ==
  AfterEnsureState \in Pcs /\ AfterUID \in Pcs /\ \A r : AfterObserving(r) \in Pcs
BY DEF AfterEnsureState, AfterUID, AfterObserving, Pcs, ProvisionPcs

LEMMA ReconcileClusterType == ASSUME TypeOK, ReconcileCluster PROVE TypeOK'
<1> USE DEF Pcs, ProvisionPcs, DeletePcs
<1>1. CASE GetCluster
  <2>1. pc' \in Pcs /\ reply' \in Replies
    BY <1>1, AfterPcs, ObservationsType DEF GetCluster, TypeOK
  <2>2. budget' \in 0 .. MaxDisruptions
    BY <1>1, BudgetType DEF GetCluster
  <2> QED BY <1>1, <2>1, <2>2 DEF GetCluster, TypeOK
<1>2. ASSUME NEW call \in {"createCluster", "updateCluster"},
             NEW poll \in {"pollCreate", "pollUpdate"}, BeginPut(call, poll)
      PROVE  TypeOK'
  <2>1. pc' \in Pcs /\ aks' \in AKSClusters
    BY <1>2, AfterPcs, PutClusterType DEF BeginPut, FailedWith, TypeOK
  <2>2. budget' \in 0 .. MaxDisruptions
    BY <1>2, BudgetType DEF BeginPut
  <2> QED BY <1>2, <2>1, <2>2 DEF BeginPut, TypeOK
<1>3. ASSUME NEW poll \in {"pollCreate", "pollUpdate"}, PollPut(poll) PROVE TypeOK'
  <2>1. pc' \in Pcs /\ reply' \in Replies
    BY <1>3, AfterPcs, ObservationsType DEF PollPut, FailedWith, TypeOK
  <2>2. budget' \in 0 .. MaxDisruptions
    BY <1>3, BudgetType DEF PollPut
  <2> QED BY <1>3, <2>1, <2>2 DEF PollPut, TypeOK
<1>4. CASE AgentPools
  <2>1. pc' \in Pcs
    BY <1>4, AfterPcs DEF AgentPools
  <2>2. budget' \in 0 .. MaxDisruptions
    BY <1>4, BudgetType DEF AgentPools
  <2> QED BY <1>4, <2>1, <2>2 DEF AgentPools, TypeOK
<1> QED BY <1>1, <1>2, <1>3, <1>4
        DEF ReconcileCluster, CreateCluster, UpdateCluster, PollCreate, PollUpdate

LEMMA WithStatusType == ASSUME TypeOK PROVE WithStatus(obj) \in CRs
<1>1. obj \in CRs /\ reply.state \in ProvisioningStates \cup {""}
  BY DEF TypeOK, Replies
<1>2. PhaseFromAKS(reply.state) \in Phases
  BY <1>1, PhaseType
<1> QED BY <1>1, <1>2 DEF WithStatus, CRs

LEMMA RecordFactsType == ASSUME TypeOK, RecordFacts PROVE TypeOK'
<1> USE DEF Pcs, ProvisionPcs
<1> DEFINE S == CurrentState
<1>1. /\ S \in Secrets /\ obj \in CRs /\ cache \in CRs
      /\ reply.gen \in Nat /\ inHand \in Nat
      /\ reply.state \in ProvisioningStates \cup {""}
  BY CurrentStateType DEF TypeOK, Replies
<1>2. /\ [S EXCEPT !.provisioned = FALSE, !.provState = "Failed"] \in Secrets
      /\ [S EXCEPT !.provisioned = TRUE] \in Secrets
      /\ [S EXCEPT !.fqdn = reply.gen] \in Secrets
      /\ [S EXCEPT !.kubeconfig = inHand] \in Secrets
      /\ [S EXCEPT !.apiReady = TRUE] \in Secrets
      /\ [S EXCEPT !.apiReady = TRUE, !.access = TRUE] \in Secrets
      /\ [S EXCEPT !.uid = inHand] \in Secrets
  <2> HIDE DEF S
  <2> QED BY <1>1 DEF Secrets, ProvisioningStates
<1>3. \A n \in Nat : [obj EXCEPT !.annUID = n] \in CRs
  BY <1>1 DEF CRs
<1>4. /\ [obj EXCEPT !.phase = "Failed"] \in CRs
      /\ [obj EXCEPT !.annID = TRUE] \in CRs
  BY <1>1 DEF CRs, Phases
<1>5. WithStatus(obj) \in CRs
  BY WithStatusType
<1> HIDE DEF S
<1>6. CASE SetClusterFailed
  BY <1>2, <1>6, WriteStateType DEF SetClusterFailed, S
<1>7. CASE FailStatus
  BY <1>4, <1>7, UpdateStatusType DEF FailStatus
<1>8. CASE SetClusterProvisioned
  BY <1>2, <1>8, WriteStateType DEF SetClusterProvisioned, S
<1>9. CASE SetClusterFQDN
  BY <1>2, <1>9, WriteStateType DEF SetClusterFQDN, S
<1>10. CASE SetAKSProvisionState
  <2>1. [S EXCEPT !.provState = reply.state] \in Secrets
    BY <1>1 DEF Secrets
  <2> QED BY <1>10, <2>1, WriteStateType DEF SetAKSProvisionState, S
<1>11. CASE FetchKubeconfig
  <2>1. pc' \in Pcs /\ secret' \in Secrets /\ inHand' \in Nat
    BY <1>1, <1>11 DEF FetchKubeconfig, TypeOK, AKSClusters, S
  <2>2. budget' \in 0 .. MaxDisruptions
    BY <1>11, BudgetType DEF FetchKubeconfig
  <2> QED BY <1>11, <2>1, <2>2 DEF FetchKubeconfig, TypeOK
<1>12. CASE SetKubeconfig
  BY <1>2, <1>12, WriteStateType DEF SetKubeconfig, S
<1>13. CASE SetKubernetesAPIReady
  BY <1>2, <1>13, WriteStateType DEF SetKubernetesAPIReady, S
<1>14. CASE SetClusterReady
  BY <1>2, <1>14, WriteStateType DEF SetClusterReady, S
<1>15. CASE FetchKubeSystemUID
  <2>1. secret.uid \in Nat
    BY DEF TypeOK, Secrets
  <2>2. pc' \in Pcs /\ secret' \in Secrets /\ inHand' \in Nat /\ obj' \in CRs
    BY <1>1, <1>3, <1>15, <2>1, AfterPcs DEF FetchKubeSystemUID, AdoptUID, TypeOK, AKSClusters, S
  <2>3. budget' \in 0 .. MaxDisruptions
    BY <1>15, BudgetType DEF FetchKubeSystemUID
  <2> QED BY <1>15, <2>2, <2>3 DEF FetchKubeSystemUID, TypeOK
<1>16. CASE SetKubeSystemUID
  <2>1. pc' \in Pcs /\ secret' \in Secrets /\ obj' \in CRs
    BY <1>1, <1>2, <1>3, <1>16, AfterPcs DEF SetKubeSystemUID, TypeOK, S
  <2>2. budget' \in 0 .. MaxDisruptions
    BY <1>16, BudgetType DEF SetKubeSystemUID
  <2> QED BY <1>16, <2>1, <2>2 DEF SetKubeSystemUID, TypeOK
<1>17. CASE AnnotateUID
  BY <1>1, <1>17, AfterPcs, UpdateMetaType DEF AnnotateUID
<1>18. CASE AnnotateID
  <2>1. CASE obj.annID
    BY <1>18, <2>1 DEF AnnotateID, TypeOK, world
  <2>2. CASE ~obj.annID
    BY <1>4, <1>18, <2>2, UpdateMetaType DEF AnnotateID
  <2> QED BY <2>1, <2>2
<1>19. CASE WriteStatus
  BY <1>5, <1>19, UpdateStatusType DEF WriteStatus
<1>20. CASE Refetch
  BY <1>20 DEF Refetch, TypeOK
<1>21. CASE RewriteStatus
  BY <1>5, <1>21, UpdateStatusType DEF RewriteStatus
<1> QED BY <1>6, <1>7, <1>8, <1>9, <1>10, <1>11, <1>12, <1>13, <1>14, <1>15,
           <1>16, <1>17, <1>18, <1>19, <1>20, <1>21 DEF RecordFacts

LEMMA HandleDeletionType == ASSUME TypeOK, HandleDeletion PROVE TypeOK'
<1> USE DEF Pcs, DeletePcs
<1>1. CASE MarkDeleting
  <2>1. [obj EXCEPT !.phase = "Deleting"] \in CRs
    BY DEF TypeOK, CRs, Phases
  <2> QED BY <1>1, <2>1, UpdateStatusType DEF MarkDeleting
<1>2. CASE DeleteCluster
  <2>0. pc' \in Pcs
    BY <1>2 DEF DeleteCluster, AfterFailedDelete
  <2>1. aks' \in AKSClusters
    <3>1. aks \in AKSClusters /\ DeletedCluster \in AKSClusters
      BY PutClusterType DEF TypeOK
    <3> QED BY <1>2, <3>1 DEF DeleteCluster
  <2>2. budget' \in 0 .. MaxDisruptions
    BY <1>2, BudgetType DEF DeleteCluster
  <2> QED BY <1>2, <2>0, <2>1, <2>2 DEF DeleteCluster, TypeOK
<1>3. CASE PollDelete
  <2>1. pc' \in Pcs
    BY <1>3 DEF PollDelete, AfterFailedDelete
  <2>2. budget' \in 0 .. MaxDisruptions
    BY <1>3, BudgetType DEF PollDelete
  <2> QED BY <1>3, <2>1, <2>2 DEF PollDelete, TypeOK
<1>4. CASE DeleteState
  <2>1. pc' \in Pcs /\ secret' \in Secrets
    BY <1>4, NoSecretType DEF DeleteState, TypeOK
  <2>2. budget' \in 0 .. MaxDisruptions
    BY <1>4, BudgetType DEF DeleteState
  <2> QED BY <1>4, <2>1, <2>2 DEF DeleteState, TypeOK
<1>5. CASE RemoveFinalizer
  <2>1. [obj EXCEPT !.finalizer = FALSE] \in CRs
    BY DEF TypeOK, CRs
  <2> QED BY <1>5, <2>1, UpdateMetaType DEF RemoveFinalizer
<1> QED BY <1>1, <1>2, <1>3, <1>4, <1>5 DEF HandleDeletion

LEMMA ReconcileType == ASSUME TypeOK, Reconcile PROVE TypeOK'
<1> USE DEF Pcs, ProvisionPcs, DeletePcs
<1>1. CASE Fetch
  BY <1>1 DEF Fetch, TypeOK
<1>2. CASE EnsureState
  BY <1>2, AfterPcs, CurrentStateType, WriteStateType DEF EnsureState
<1>3. CASE AddFinalizer
  <2>1. [obj EXCEPT !.finalizer = TRUE] \in CRs
    BY DEF TypeOK, CRs
  <2> QED BY <1>3, <2>1, UpdateMetaType DEF AddFinalizer
<1>4. CASE InitStatus
  <2>1. [obj EXCEPT !.phase = "Creating"] \in CRs
    BY DEF TypeOK, CRs, Phases
  <2> QED BY <1>4, <2>1, UpdateStatusType DEF InitStatus
<1>5. CASE Return
  BY <1>5, NoCRType, NoReplyType DEF Return, TypeOK
<1> QED BY <1>1, <1>2, <1>3, <1>4, <1>5, ReconcileClusterType, RecordFactsType,
           HandleDeletionType DEF Reconcile

LEMMA EnvironmentType == ASSUME TypeOK, Environment PROVE TypeOK'
<1>1. cr \in CRs /\ aks \in AKSClusters
  BY DEF TypeOK
<1>2. CASE CacheSync
  BY <1>2 DEF CacheSync, TypeOK, locals
<1>3. CASE Crash
  <2>1. budget' \in 0 .. MaxDisruptions
    BY <1>3, BudgetType DEF Crash
  <2>2. cr.exists \in BOOLEAN /\ cr \in CRs /\ secret \in Secrets
    BY DEF TypeOK, CRs
  <2>3. obj' \in CRs /\ reply' \in Replies /\ inHand' \in Nat /\ pc' \in Pcs
    BY <1>3, NoCRType, NoReplyType DEF Crash, Pcs
  <2>4. cache' \in CRs /\ fresh' \subseteq {"cache", "obj"} /\ queued' \in BOOLEAN
    BY <1>3, <2>2 DEF Crash
  <2>5. cr' \in CRs /\ secret' \in Secrets /\ aks' \in AKSClusters
    BY <1>1, <1>3, <2>2 DEF Crash
  <2> QED BY <2>1, <2>3, <2>4, <2>5 DEF TypeOK
<1>4. CASE AKSProgress
  <2>1. aks' \in AKSClusters
    BY <1>1, <1>4 DEF AKSProgress, AKSClusters, ProvisioningStates
  <2>2. budget' \in 0 .. MaxDisruptions
    BY <1>4, BudgetType DEF AKSProgress
  <2> QED BY <1>4, <2>1, <2>2 DEF AKSProgress, TypeOK, locals
<1>5. CASE CollectSecret
  BY <1>5, NoSecretType DEF CollectSecret, TypeOK, locals
<1>6. CASE EndForegroundDeletion
  <2>1. cr' \in CRs
    <3>1. [cr EXCEPT !.held = FALSE] \in CRs
      BY <1>1 DEF CRs
    <3> QED BY <1>6, <3>1, StoredType DEF EndForegroundDeletion
  <2> QED BY <1>6, <2>1 DEF EndForegroundDeletion, TypeOK, locals
<1>7. CASE UserEdit
  <2>1. \A s \in Specs : [cr EXCEPT !.spec = s] \in CRs
    BY <1>1 DEF CRs
  <2>2. budget' \in 0 .. MaxDisruptions
    BY <1>7, BudgetType DEF UserEdit
  <2> QED BY <1>7, <2>1, <2>2 DEF UserEdit, TypeOK, locals
<1>8. CASE UserDelete
  <2>1. \A b \in BOOLEAN : [cr EXCEPT !.deleting = TRUE, !.held = b] \in CRs
    BY <1>1 DEF CRs
  <2>2. cr' \in CRs
    BY <1>8, <2>1, StoredType DEF UserDelete
  <2>3. budget' \in 0 .. MaxDisruptions
    BY <1>8, BudgetType DEF UserDelete
  <2> QED BY <1>8, <2>2, <2>3 DEF UserDelete, TypeOK, locals
<1>9. CASE UserRecreate
  <2>1. cr.uid + 1 \in Nat
    BY <1>1 DEF CRs
  <2>2. \A s \in Specs : NewCR(cr.uid + 1, s) \in CRs
    BY <2>1, NoCRType DEF NewCR, CRs
  <2>3. budget' \in 0 .. MaxDisruptions
    BY <1>9, BudgetType DEF UserRecreate
  <2> QED BY <1>9, <2>2, <2>3 DEF UserRecreate, TypeOK, locals
<1>10. CASE PortalChange
  <2>1. aks' \in AKSClusters
    BY <1>1, <1>10 DEF PortalChange, AKSClusters, ProvisioningStates
  <2>2. budget' \in 0 .. MaxDisruptions
    BY <1>10, BudgetType DEF PortalChange
  <2> QED BY <1>10, <2>1, <2>2 DEF PortalChange, TypeOK, locals
<1>11. CASE SecretDeleted
  <2>1. budget' \in 0 .. MaxDisruptions
    BY <1>11, BudgetType DEF SecretDeleted
  <2> QED BY <1>11, <2>1, NoSecretType DEF SecretDeleted, TypeOK, locals
<1> QED BY <1>2, <1>3, <1>4, <1>5, <1>6, <1>7, <1>8, <1>9, <1>10, <1>11 DEF Environment

LEMMA InitType == Init => TypeOK
<1> SUFFICES ASSUME Init PROVE TypeOK
  OBVIOUS
<1>1. \A s \in Specs : NewCR(1, s) \in CRs
  BY NoCRType DEF NewCR, CRs
<1>2. [state |-> "Absent", gen |-> 0, spec |-> AnySpec] \in AKSClusters
  BY AnySpecType DEF AKSClusters
<1>3. NoReply \in Replies
  BY DEF NoReply, Replies
<1>4. budget \in 0 .. MaxDisruptions
  BY DisruptionsAssumption DEF Init
<1> QED BY <1>1, <1>2, <1>3, <1>4, NoCRType, NoSecretType DEF Init, TypeOK, Pcs

(* Every variable always holds a value the program could hold.                *)
THEOREM TypeCorrect == Spec => []TypeOK
<1>1. TypeOK /\ [Next]_vars => TypeOK'
  <2>1. TypeOK /\ UNCHANGED vars => TypeOK'
    BY DEF TypeOK, vars, world, locals
  <2> QED BY <2>1, ReconcileType, EnvironmentType DEF Next
<1> QED BY <1>1, InitType, PTL DEF Spec

-----------------------------------------------------------------------------
(* No orphan.  The theorems below hold for an Azure whose error texts say     *)
(* "not found" of nothing but the cluster or its resource group.              *)

OnlyAbsenceReadsAsAbsence == "ServicePrincipalNotFound" \notin AzureErrors

LEMMA DeletedMeansAbsent ==
  ASSUME OnlyAbsenceReadsAsAbsence, NEW e \in Reportable, SaysDeleted(e)
  PROVE  aks.state = "Absent"
<1>1. e \in ErrorKind /\ e # "ServicePrincipalNotFound"
  BY DisruptionsAssumption DEF Reportable, OnlyAbsenceReadsAsAbsence
<1>2. ErrorKind = {"ResourceNotFound", "ResourceGroupNotFound", "ServicePrincipalNotFound",
                   "OperationNotAllowed", "AuthorizationFailed", "Timeout"}
  BY DEF ErrorKind, ErrorText
<1>3. /\ ErrorText["OperationNotAllowed"] = {"409", "OperationNotAllowed"}
      /\ ErrorText["AuthorizationFailed"] = {}
      /\ ErrorText["Timeout"] = {}
  BY DEF ErrorText
<1>4. e \in AbsenceErrors
  <2>1. ErrorText[e] \cap {"ResourceGroupNotFound", "ResourceNotFound", "not found", "404"} # {}
    BY DEF SaysDeleted, Says
  <2>2. CASE e = "OperationNotAllowed"
    BY <2>1, <2>2, <1>3
  <2>3. CASE e \in {"AuthorizationFailed", "Timeout"}
    BY <2>1, <2>3, <1>3
  <2> QED BY <1>1, <1>2, <2>2, <2>3 DEF AbsenceErrors
<1> QED BY <1>4 DEF Reportable

LEMMA RefusalIsNotDeleted == ~SaysDeleted("OperationNotAllowed")
<1>1. ErrorText["OperationNotAllowed"] = {"409", "OperationNotAllowed"}
  BY DEF ErrorText
<1> QED BY <1>1 DEF SaysDeleted, Says

(* What most steps leave of the CR: all that GuardInv looks at, unless they   *)
(* let a CR go that is not guarded.                                           *)
KeepsCR ==
  /\ cr'.uid = cr.uid
  /\ \/ cr'.exists = cr.exists /\ cr'.deleting = cr.deleting /\ cr'.finalizer = cr.finalizer
     \/ ~Guarded(cr) /\ ~cr'.exists

(* A copy is current after a step only if it was and the CR did not change.   *)
KeepsFreshness == "cache" \in fresh' => "cache" \in fresh /\ cr' = cr

LEMMA ProvisionStep ==
  ASSUME GuardInv, KeepsCR, KeepsFreshness, cache' = cache,
         pc \in ProvisionPcs, pc' \in ProvisionPcs \cup {"requeue"},
         obj'.uid = obj.uid, obj'.finalizer = obj.finalizer
  PROVE  GuardInv'
BY DEF GuardInv, KeepsCR, KeepsFreshness, Guarded, LiveCopy, ProvisionPcs, DeletePcs

LEMMA DeletionStep ==
  ASSUME GuardInv, KeepsCR, KeepsFreshness, cache' = cache,
         pc \in DeletePcs, pc' \in DeletePcs \cup {"requeue", "finished"},
         Guarded(cr) => obj'.uid = obj.uid,
         aks'.state # "Absent" => aks.state # "Absent",
         pc' \in {"deleteState", "removeFinalizer"} => aks'.state = "Absent"
  PROVE  GuardInv'
BY DEF GuardInv, KeepsCR, KeepsFreshness, Guarded, LiveCopy, ProvisionPcs, DeletePcs

(* The writes of the CR that leave its finalizer as it is.                    *)
LEMMA StatusEffect ==
  ASSUME TypeOK, NEW o \in CRs, NEW next, NEW onConflict, NEW onError,
         o.uid = obj.uid, o.finalizer = obj.finalizer,
         UpdateStatus(o, next, onConflict, onError)
  PROVE  /\ cache' = cache /\ aks' = aks /\ KeepsCR /\ KeepsFreshness
         /\ pc' \in {next, onConflict, onError}
         /\ \/ obj'.uid = obj.uid /\ obj'.finalizer = obj.finalizer
            \/ obj'.uid = cr.uid /\ (Guarded(cr) => obj'.finalizer)
<1> DEFINE c == [cr EXCEPT !.phase = o.phase]
<1>1. /\ c.uid = cr.uid /\ c.exists = cr.exists /\ c.deleting = cr.deleting
      /\ c.finalizer = cr.finalizer
  BY DEF TypeOK, CRs
<1>2. \/ Stored(c) = c
      \/ ~cr.finalizer /\ Stored(c).uid = cr.uid /\ ~Stored(c).exists
  BY <1>1 DEF Stored, NoCR
<1> HIDE DEF c
<1>3. Write(c, o, next, onConflict, onError)
  BY DEF UpdateStatus, c
<1>4. /\ cache' = cache /\ aks' = aks /\ pc' \in {next, onConflict, onError}
      /\ \/ cr' = Stored(c) /\ obj' = cr' /\ fresh' = {"obj"}
         \/ cr' = Stored(c) /\ obj' = o /\ fresh' = {}
         \/ cr' = cr /\ fresh' = fresh /\ obj' = o
  BY <1>3, WriteEffect
<1> QED BY <1>1, <1>2, <1>4 DEF KeepsCR, KeepsFreshness, Guarded

LEMMA MetaEffect ==
  ASSUME TypeOK, NEW o \in CRs, NEW next, NEW onError, Guarded(cr),
         o.uid = obj.uid, o.finalizer = obj.finalizer, obj.finalizer, obj.uid = cr.uid,
         UpdateMeta(o, next, onError)
  PROVE  /\ cache' = cache /\ aks' = aks /\ KeepsCR /\ KeepsFreshness
         /\ pc' \in {next, onError}
         /\ obj'.uid = obj.uid /\ obj'.finalizer = obj.finalizer
<1> DEFINE c == [cr EXCEPT !.finalizer = o.finalizer, !.annID = o.annID, !.annUID = o.annUID]
<1>1. /\ c.uid = cr.uid /\ c.exists = cr.exists /\ c.deleting = cr.deleting
      /\ c.finalizer /\ cr.finalizer /\ c.finalizer = cr.finalizer
  BY DEF TypeOK, CRs, Guarded
<1>2. Stored(c) = c
  BY <1>1 DEF Stored
<1> HIDE DEF c
<1>3. Write(c, o, next, onError, onError)
  BY DEF UpdateMeta, c
<1>4. /\ cache' = cache /\ aks' = aks /\ pc' \in {next, onError}
      /\ \/ cr' = Stored(c) /\ obj' = cr' /\ fresh' = {"obj"}
         \/ cr' = Stored(c) /\ obj' = o /\ fresh' = {}
         \/ cr' = cr /\ fresh' = fresh /\ obj' = o
  BY <1>3, WriteEffect
<1>5. cr'.finalizer = obj.finalizer
  BY <1>1, <1>2, <1>4 DEF TypeOK, CRs
<1> QED BY <1>1, <1>2, <1>4, <1>5 DEF KeepsCR, KeepsFreshness, Guarded

(* A step that leaves the CR and its copies alone.                            *)
LEMMA SameCR == UNCHANGED cr => KeepsCR
BY DEF KeepsCR

LEMMA GuardReconcileCluster ==
  ASSUME TypeOK, GuardInv, ReconcileCluster PROVE GuardInv'
<1> USE DEF ProvisionPcs
<1>1. UNCHANGED <<cr, cache, fresh, obj>>
  BY DEF ReconcileCluster, GetCluster, CreateCluster, PollCreate, UpdateCluster,
         PollUpdate, AgentPools, BeginPut, PollPut
<1>2. pc \in ProvisionPcs
  BY DEF ReconcileCluster, GetCluster, CreateCluster, PollCreate, UpdateCluster,
         PollUpdate, AgentPools, BeginPut, PollPut
<1>3. pc' \in ProvisionPcs \cup {"requeue"}
  <2>1. CASE GetCluster
    BY <2>1, AfterObservingPc DEF GetCluster
  <2>2. ASSUME NEW call, NEW poll \in ProvisionPcs, BeginPut(call, poll)
        PROVE  pc' \in ProvisionPcs \cup {"requeue"}
    BY <2>2, AfterObservingPc DEF BeginPut, FailedWith
  <2>3. ASSUME NEW poll, PollPut(poll) PROVE pc' \in ProvisionPcs \cup {"requeue"}
    BY <2>3, AfterObservingPc DEF PollPut, FailedWith
  <2>4. CASE AgentPools
    BY <2>4, AfterObservingPc DEF AgentPools
  <2> QED BY <2>1, <2>2, <2>3, <2>4
          DEF ReconcileCluster, CreateCluster, PollCreate, UpdateCluster, PollUpdate
<1> QED BY <1>1, <1>2, <1>3, ProvisionStep, SameCR DEF KeepsFreshness

LEMMA GuardRecordFacts == ASSUME TypeOK, GuardInv, RecordFacts PROVE GuardInv'
<1>0. /\ obj \in CRs /\ AfterUID \in ProvisionPcs \cup {"requeue"}
      /\ pc \in ProvisionPcs =>
           Guarded(cr) /\ Guarded(cache) /\ obj.finalizer /\ obj.uid = cr.uid
      /\ Guarded(cr) => cache.uid = cr.uid
  BY DEF TypeOK, GuardInv, AfterUID, ProvisionPcs
<1>1. ASSUME NEW s, NEW from \in ProvisionPcs, pc = from,
             NEW next \in ProvisionPcs, NEW onError \in ProvisionPcs,
             WriteState(s, next, onError)
      PROVE  GuardInv'
  BY <1>1, ProvisionStep, SameCR DEF WriteState, KeepsFreshness
<1>2. ASSUME NEW o \in CRs, o.uid = obj.uid, o.finalizer = obj.finalizer,
             pc \in ProvisionPcs, NEW onConflict \in ProvisionPcs \cup {"requeue"},
             UpdateStatus(o, "requeue", onConflict, "requeue")
      PROVE  GuardInv'
  <2>1. /\ cache' = cache /\ KeepsCR /\ KeepsFreshness
        /\ pc' \in ProvisionPcs \cup {"requeue"}
        /\ \/ obj'.uid = obj.uid /\ obj'.finalizer = obj.finalizer
           \/ obj'.uid = cr.uid /\ (Guarded(cr) => obj'.finalizer)
    BY <1>2, StatusEffect
  <2>2. obj' \in CRs
    BY <1>2, UpdateStatusType DEF TypeOK, Pcs
  <2>3. obj'.uid = obj.uid /\ obj'.finalizer = obj.finalizer
    BY <1>0, <1>2, <2>1, <2>2 DEF CRs
  <2> QED BY <1>2, <2>1, <2>3, ProvisionStep
<1>3. ASSUME NEW o \in CRs, o.uid = obj.uid, o.finalizer = obj.finalizer,
             pc \in ProvisionPcs, NEW next \in ProvisionPcs \cup {"requeue"},
             UpdateMeta(o, next, next)
      PROVE  GuardInv'
  BY <1>0, <1>3, MetaEffect, ProvisionStep
<1>4. CASE SetClusterFailed
  BY <1>1, <1>4 DEF SetClusterFailed, ProvisionPcs
<1>5. CASE FailStatus
  <2>1. [obj EXCEPT !.phase = "Failed"] \in CRs
    BY <1>0 DEF CRs, Phases
  <2>2. /\ [obj EXCEPT !.phase = "Failed"].uid = obj.uid
        /\ [obj EXCEPT !.phase = "Failed"].finalizer = obj.finalizer
    BY <1>0 DEF CRs
  <2> QED BY <1>2, <1>5, <2>1, <2>2 DEF FailStatus, ProvisionPcs
<1>6. CASE SetClusterProvisioned
  BY <1>1, <1>6 DEF SetClusterProvisioned, ProvisionPcs
<1>7. CASE SetClusterFQDN
  BY <1>1, <1>7 DEF SetClusterFQDN, ProvisionPcs
<1>8. CASE SetAKSProvisionState
  BY <1>1, <1>8 DEF SetAKSProvisionState, ProvisionPcs
<1>9. CASE FetchKubeconfig
  BY <1>9, ProvisionStep, SameCR DEF FetchKubeconfig, KeepsFreshness, ProvisionPcs
<1>10. CASE SetKubeconfig
  BY <1>1, <1>10 DEF SetKubeconfig, ProvisionPcs
<1>11. CASE SetKubernetesAPIReady
  BY <1>1, <1>11 DEF SetKubernetesAPIReady, ProvisionPcs
<1>12. CASE SetClusterReady
  BY <1>1, <1>12 DEF SetClusterReady, ProvisionPcs
<1>13. CASE FetchKubeSystemUID
  <2>1. obj'.uid = obj.uid /\ obj'.finalizer = obj.finalizer
    BY <1>0, <1>13 DEF FetchKubeSystemUID, AdoptUID, CRs
  <2>2. pc \in ProvisionPcs /\ pc' \in ProvisionPcs \cup {"requeue"}
    BY <1>0, <1>13 DEF FetchKubeSystemUID, AdoptUID, ProvisionPcs
  <2> QED BY <1>13, <2>1, <2>2, ProvisionStep, SameCR DEF FetchKubeSystemUID, KeepsFreshness
<1>14. CASE SetKubeSystemUID
  <2>1. obj'.uid = obj.uid /\ obj'.finalizer = obj.finalizer
    BY <1>0, <1>14 DEF SetKubeSystemUID, CRs
  <2>2. pc \in ProvisionPcs /\ pc' \in ProvisionPcs \cup {"requeue"}
    BY <1>0, <1>14 DEF SetKubeSystemUID, ProvisionPcs
  <2> QED BY <1>14, <2>1, <2>2, ProvisionStep, SameCR DEF SetKubeSystemUID, KeepsFreshness
<1>15. CASE AnnotateUID
  <2>1. pc \in ProvisionPcs
    BY <1>15 DEF AnnotateUID, ProvisionPcs
  <2> QED BY <1>0, <1>3, <1>15, <2>1 DEF AnnotateUID
<1>16. CASE AnnotateID
  <2>1. CASE obj.annID
    BY <1>16, <2>1, ProvisionStep, SameCR DEF AnnotateID, KeepsFreshness, ProvisionPcs, world
  <2>2. CASE ~obj.annID
    <3>1. [obj EXCEPT !.annID = TRUE] \in CRs
      BY <1>0 DEF CRs
    <3>2. /\ [obj EXCEPT !.annID = TRUE].uid = obj.uid
          /\ [obj EXCEPT !.annID = TRUE].finalizer = obj.finalizer
      BY <1>0 DEF CRs
    <3> QED BY <1>3, <1>16, <2>2, <3>1, <3>2 DEF AnnotateID, ProvisionPcs
  <2> QED BY <2>1, <2>2
<1>17. WithStatus(obj) \in CRs /\ WithStatus(obj).uid = obj.uid
         /\ WithStatus(obj).finalizer = obj.finalizer
  <2>1. /\ WithStatus(obj).uid = obj.uid /\ WithStatus(obj).finalizer = obj.finalizer
    BY <1>0 DEF WithStatus, CRs
  <2> QED BY <2>1, WithStatusType
<1>18. CASE WriteStatus
  BY <1>2, <1>17, <1>18 DEF WriteStatus, ProvisionPcs
<1>19. CASE RewriteStatus
  BY <1>2, <1>17, <1>19 DEF RewriteStatus, ProvisionPcs
<1>20. CASE Refetch
  <2>1. cache.finalizer = obj.finalizer
    BY <1>0, <1>20 DEF Refetch, TypeOK, CRs, Guarded, ProvisionPcs
  <2> QED BY <1>0, <1>20, <2>1, ProvisionStep, SameCR
          DEF Refetch, KeepsFreshness, ProvisionPcs
<1> QED BY <1>4, <1>5, <1>6, <1>7, <1>8, <1>9, <1>10, <1>11, <1>12, <1>13, <1>14,
           <1>15, <1>16, <1>18, <1>19, <1>20 DEF RecordFacts

LEMMA GuardHandleDeletion ==
  ASSUME TypeOK, GuardInv, OnlyAbsenceReadsAsAbsence, HandleDeletion PROVE GuardInv'
<1>0. obj \in CRs /\ cr \in CRs
  BY DEF TypeOK
<1>1. CASE MarkDeleting
  <2> DEFINE o == [obj EXCEPT !.phase = "Deleting"]
  <2>1. o \in CRs /\ o.uid = obj.uid /\ o.finalizer = obj.finalizer
    BY <1>0 DEF CRs, Phases
  <2> HIDE DEF o
  <2>2. UpdateStatus(o, "deleteCluster", "deleteCluster", "deleteCluster")
    BY <1>1 DEF MarkDeleting, o
  <2>3. /\ cache' = cache /\ aks' = aks /\ KeepsCR /\ KeepsFreshness
        /\ pc' = "deleteCluster" /\ (obj'.uid = obj.uid \/ obj'.uid = cr.uid)
    BY <2>1, <2>2, StatusEffect
  <2>4. pc \in DeletePcs /\ (Guarded(cr) => obj.uid = cr.uid)
    BY <1>1 DEF MarkDeleting, GuardInv, DeletePcs
  <2> QED BY <2>3, <2>4, DeletionStep DEF DeletePcs
<1>2. CASE DeleteCluster
  <2>1. UNCHANGED <<cr, cache, fresh, obj>> /\ pc \in DeletePcs
    BY <1>2 DEF DeleteCluster, DeletePcs
  <2>2. pc' \in {"pollDelete", "deleteState", "requeue"}
    BY <1>2 DEF DeleteCluster, AfterFailedDelete
  <2>3. aks.state = "Absent" => aks' = aks
    BY <1>2 DEF DeleteCluster, DeletedCluster
  <2>4. pc' = "deleteState" => aks.state = "Absent"
    BY <1>2, DeletedMeansAbsent, RefusalIsNotDeleted DEF DeleteCluster, AfterFailedDelete
  <2> QED BY <2>1, <2>2, <2>3, <2>4, DeletionStep, SameCR DEF KeepsFreshness, DeletePcs
<1>3. CASE PollDelete
  <2>1. UNCHANGED <<cr, cache, fresh, obj, aks>> /\ pc \in DeletePcs
    BY <1>3 DEF PollDelete, DeletePcs
  <2>2. pc' \in {"deleteState", "requeue"}
    BY <1>3 DEF PollDelete, AfterFailedDelete
  <2>3. pc' = "deleteState" => aks.state = "Absent"
    BY <1>3, DeletedMeansAbsent DEF PollDelete, AfterFailedDelete
  <2> QED BY <2>1, <2>2, <2>3, DeletionStep, SameCR DEF KeepsFreshness, DeletePcs
<1>4. CASE DeleteState
  <2>1. UNCHANGED <<cr, cache, fresh, obj, aks>> /\ pc \in DeletePcs
        /\ pc' \in {"removeFinalizer", "finished"} /\ aks.state = "Absent"
    BY <1>4 DEF DeleteState, DeletePcs, GuardInv
  <2> QED BY <2>1, DeletionStep, SameCR DEF KeepsFreshness, DeletePcs
<1>5. CASE RemoveFinalizer
  <2> DEFINE o == [obj EXCEPT !.finalizer = FALSE]
             c == [cr EXCEPT !.finalizer = o.finalizer, !.annID = o.annID, !.annUID = o.annUID]
  <2>1. o.finalizer = FALSE
    BY <1>0 DEF CRs
  <2>2. ~c.finalizer /\ c.exists = cr.exists /\ c.uid = cr.uid
    BY <1>0, <2>1 DEF CRs
  <2>3. ~Stored(c).finalizer
    BY <2>2 DEF Stored, NoCR
  <2>4. Write(c, o, "finished", "requeue", "requeue")
    BY <1>5 DEF RemoveFinalizer, UpdateMeta
  <2> HIDE DEF o, c
  <2>5. /\ cache' = cache /\ aks' = aks /\ pc' \in {"finished", "requeue"}
        /\ \/ cr' = Stored(c) /\ fresh' \subseteq {"obj"}
           \/ cr' = cr /\ fresh' = fresh
    BY <2>4, WriteEffect
  <2>6. pc = "removeFinalizer" /\ aks.state = "Absent" /\ ~LiveCopy(cache)
    BY <1>5 DEF RemoveFinalizer, GuardInv, DeletePcs
  <2>7. CASE cr' = cr /\ fresh' = fresh
    BY <2>5, <2>6, <2>7 DEF GuardInv, ProvisionPcs, DeletePcs, Guarded, LiveCopy
  <2>8. CASE cr' = Stored(c) /\ fresh' \subseteq {"obj"}
    BY <2>3, <2>5, <2>6, <2>8 DEF GuardInv, ProvisionPcs, DeletePcs, Guarded, LiveCopy
  <2> QED BY <2>5, <2>7, <2>8
<1> QED BY <1>1, <1>2, <1>3, <1>4, <1>5 DEF HandleDeletion

LEMMA GuardReconcile ==
  ASSUME TypeOK, GuardInv, OnlyAbsenceReadsAsAbsence, Reconcile PROVE GuardInv'
<1>0. obj \in CRs /\ cr \in CRs /\ cache \in CRs
  BY DEF TypeOK
<1>1. CASE Fetch
  <2>1. CASE ~cache.exists
    BY <1>1, <2>1 DEF Fetch, GuardInv, Guarded, LiveCopy
  <2>2. CASE cache.exists
    <3>1. /\ UNCHANGED <<cr, cache, aks>> /\ obj' = cache
          /\ pc' = (IF cache.deleting THEN "markDeleting" ELSE "ensureState")
          /\ fresh' = IF "cache" \in fresh THEN {"cache", "obj"} ELSE {}
      BY <1>1, <2>2 DEF Fetch
    <3>2. cache.finalizer \in BOOLEAN /\ cache.deleting \in BOOLEAN
      BY <1>0 DEF CRs
    <3> QED BY <2>2, <3>1, <3>2 DEF GuardInv, Guarded, LiveCopy, ProvisionPcs, DeletePcs
  <2> QED BY <2>1, <2>2
<1>2. CASE EnsureState
  <2>1. /\ UNCHANGED <<cr, cache, fresh, aks, obj>> /\ pc = "ensureState"
        /\ pc' = AfterEnsureState
    BY <1>2 DEF EnsureState, WriteState
  <2>2. /\ pc' \in {"addFinalizer"} \cup ProvisionPcs
        /\ pc' \in ProvisionPcs => obj.finalizer
    BY <2>1 DEF AfterEnsureState, ProvisionPcs
  <2> QED BY <2>1, <2>2 DEF GuardInv, Guarded, LiveCopy, ProvisionPcs, DeletePcs
<1>3. CASE AddFinalizer
  <2> DEFINE o == [obj EXCEPT !.finalizer = TRUE]
             c == [cr EXCEPT !.finalizer = o.finalizer, !.annID = o.annID, !.annUID = o.annUID]
  <2>1. c.finalizer /\ c.exists = cr.exists /\ c.uid = cr.uid /\ c.deleting = cr.deleting
    BY <1>0 DEF CRs
  <2>2. Stored(c) = c
    BY <2>1 DEF Stored
  <2>3. Write(c, o, "requeue", "requeue", "requeue")
    BY <1>3 DEF AddFinalizer, UpdateMeta
  <2> HIDE DEF o, c
  <2>4. /\ cache' = cache /\ aks' = aks /\ pc' = "requeue"
        /\ \/ IsCurrent /\ cr' = c /\ fresh' \subseteq {"obj"}
           \/ cr' = cr /\ fresh' = fresh
    BY <2>2, <2>3, WriteEffect
  <2>5. CASE cr' = cr /\ fresh' = fresh
    BY <1>3, <2>4, <2>5 DEF AddFinalizer, GuardInv, ProvisionPcs, DeletePcs, Guarded, LiveCopy
  <2>6. CASE IsCurrent /\ cr' = c /\ fresh' \subseteq {"obj"}
    <3>1. obj = cr /\ cache = cr /\ cr.exists /\ ~cr.deleting
      BY <1>3, <2>6 DEF AddFinalizer, IsCurrent, GuardInv
    <3>2. Guarded(c) /\ ~cache.deleting /\ cache.uid = c.uid
      BY <2>1, <3>1 DEF Guarded
    <3> QED BY <2>4, <2>6, <3>1, <3>2 DEF GuardInv, ProvisionPcs, DeletePcs, Guarded, LiveCopy
  <2> QED BY <2>4, <2>5, <2>6
<1>4. CASE InitStatus
  <2> DEFINE o == [obj EXCEPT !.phase = "Creating"]
  <2>1. o \in CRs /\ o.uid = obj.uid /\ o.finalizer = obj.finalizer
    BY <1>0 DEF CRs, Phases
  <2> HIDE DEF o
  <2>2. UpdateStatus(o, "getCluster", "getCluster", "getCluster")
    BY <1>4 DEF InitStatus, o
  <2>3. /\ cache' = cache /\ aks' = aks /\ KeepsCR /\ KeepsFreshness /\ pc' = "getCluster"
        /\ \/ obj'.uid = obj.uid /\ obj'.finalizer = obj.finalizer
           \/ obj'.uid = cr.uid /\ (Guarded(cr) => obj'.finalizer)
    BY <2>1, <2>2, StatusEffect
  <2>4. pc \in ProvisionPcs /\ Guarded(cr) /\ obj.finalizer /\ obj.uid = cr.uid
    BY <1>4 DEF InitStatus, GuardInv, ProvisionPcs
  <2>5. obj' \in CRs
    BY <2>1, <2>2, UpdateStatusType DEF TypeOK, Pcs, ProvisionPcs
  <2>6. obj'.uid = obj.uid /\ obj'.finalizer = obj.finalizer
    BY <1>0, <2>3, <2>4, <2>5 DEF CRs
  <2> QED BY <2>3, <2>4, <2>6, ProvisionStep DEF ProvisionPcs
<1>5. CASE Return
  BY <1>5 DEF Return, GuardInv, Guarded, LiveCopy, ProvisionPcs, DeletePcs
<1> QED BY <1>1, <1>2, <1>3, <1>4, <1>5, GuardReconcileCluster, GuardRecordFacts,
           GuardHandleDeletion DEF Reconcile

LEMMA GuardEnvironment == ASSUME TypeOK, GuardInv, Environment PROVE GuardInv'
<1> USE DEF GuardInv, Guarded, LiveCopy, locals
<1>0. cr \in CRs
  BY DEF TypeOK
<1>1. CASE CacheSync
  BY <1>1 DEF CacheSync
<1>2. CASE Crash
  BY <1>2 DEF Crash, ProvisionPcs, DeletePcs
<1>3. CASE AKSProgress
  <2>1. aks.state # "Absent" /\ UNCHANGED <<cr, cache, fresh, pc, obj>>
    BY <1>3 DEF AKSProgress, InProgress
  <2>2. ~(pc \in {"deleteState", "removeFinalizer"})
    BY <2>1
  <2> QED BY <2>1, <2>2
<1>4. CASE CollectSecret
  BY <1>4 DEF CollectSecret
<1>5. ASSUME NEW c \in CRs, c.exists = cr.exists, c.uid = cr.uid, c.finalizer = cr.finalizer,
             cr.deleting => c.deleting, cr' = Stored(c), fresh' = {},
             UNCHANGED <<cache, aks, locals>>
      PROVE  GuardInv'
  <2>1. CASE Stored(c) = c
    BY <1>5, <2>1
  <2>2. CASE Stored(c) # c
    <3>1. ~c.finalizer /\ ~Stored(c).exists
      BY <2>2 DEF Stored, NoCR
    <3> QED BY <1>5, <3>1
  <2> QED BY <2>1, <2>2
<1>6. CASE EndForegroundDeletion
  <2> DEFINE c == [cr EXCEPT !.held = FALSE]
  <2>1. /\ c \in CRs /\ c.exists = cr.exists /\ c.uid = cr.uid
        /\ c.finalizer = cr.finalizer /\ c.deleting = cr.deleting
    BY <1>0 DEF CRs
  <2>2. cr' = Stored(c) /\ fresh' = {} /\ UNCHANGED <<cache, aks, locals>>
    BY <1>6 DEF EndForegroundDeletion
  <2> HIDE DEF c
  <2> QED BY <1>5, <2>1, <2>2
<1>7. CASE UserEdit
  <2>1. PICK s \in Specs : cr' = [cr EXCEPT !.spec = s]
    BY <1>7 DEF UserEdit
  <2>2. /\ cr'.exists = cr.exists /\ cr'.uid = cr.uid
        /\ cr'.finalizer = cr.finalizer /\ cr'.deleting = cr.deleting
    BY <1>0, <2>1 DEF CRs
  <2>3. fresh' = {} /\ UNCHANGED <<cache, aks, locals>>
    BY <1>7 DEF UserEdit
  <2> QED BY <2>2, <2>3
<1>8. CASE UserDelete
  <2>1. PICK b \in BOOLEAN : cr' = Stored([cr EXCEPT !.deleting = TRUE, !.held = b])
    BY <1>8 DEF UserDelete
  <2> DEFINE c == [cr EXCEPT !.deleting = TRUE, !.held = b]
  <2>2. /\ c \in CRs /\ c.exists = cr.exists /\ c.uid = cr.uid
        /\ c.finalizer = cr.finalizer /\ c.deleting
    BY <1>0 DEF CRs
  <2>3. cr' = Stored(c) /\ fresh' = {} /\ UNCHANGED <<cache, aks, locals>>
    BY <1>8, <2>1 DEF UserDelete
  <2> HIDE DEF c
  <2> QED BY <1>5, <2>2, <2>3
<1>9. CASE UserRecreate
  <2>1. ~cr'.finalizer /\ ~cr.exists /\ fresh' = {} /\ UNCHANGED <<cache, aks, locals>>
    BY <1>9 DEF UserRecreate, NewCR, NoCR
  <2> QED BY <2>1
<1>10. CASE PortalChange
  <2>1. aks.state # "Absent" /\ UNCHANGED <<cr, cache, fresh, pc, obj>>
    BY <1>10 DEF PortalChange
  <2> QED BY <2>1
<1>11. CASE SecretDeleted
  BY <1>11 DEF SecretDeleted
<1> QED BY <1>1, <1>2, <1>3, <1>4, <1>6, <1>7, <1>8, <1>9, <1>10, <1>11 DEF Environment

(* The inductive invariant.                                                   *)
THEOREM GuardInvariant ==
  ASSUME OnlyAbsenceReadsAsAbsence PROVE Spec => [](TypeOK /\ GuardInv)
<1>1. Init => TypeOK /\ GuardInv
  <2>1. ASSUME Init PROVE GuardInv
    <3>1. PICK s \in Specs : cr = NewCR(1, s)
      BY <2>1 DEF Init
    <3>2. ~cr.finalizer
      BY <3>1 DEF NewCR, NoCR
    <3>3. ~cache.exists /\ fresh = {} /\ pc = "idle" /\ aks.state = "Absent"
      BY <2>1 DEF Init, NoCR
    <3> QED BY <3>2, <3>3 DEF GuardInv, Guarded, LiveCopy, ProvisionPcs, DeletePcs
  <2> QED BY <2>1, InitType
<1>2. TypeOK /\ GuardInv /\ [Next]_vars => (TypeOK /\ GuardInv)'
  <2>1. TypeOK /\ GuardInv /\ UNCHANGED vars => (TypeOK /\ GuardInv)'
    BY DEF TypeOK, GuardInv, Guarded, LiveCopy, vars, world, locals
  <2> QED BY <2>1, ReconcileType, EnvironmentType, GuardReconcile, GuardEnvironment DEF Next
<1> QED BY <1>1, <1>2, PTL DEF Spec

(* No AKS cluster outlives the finalizer of its CR.                           *)
THEOREM NoOrphanTheorem ==
  ASSUME OnlyAbsenceReadsAsAbsence PROVE Spec => []NoOrphan
<1>1. GuardInv => NoOrphan
  BY DEF GuardInv, NoOrphan, Guarded
<1> QED BY <1>1, GuardInvariant, PTL

(* A reconciliation acts for the CR it read.                                  *)
THEOREM PassActsForItsCRTheorem ==
  ASSUME OnlyAbsenceReadsAsAbsence PROVE Spec => []PassActsForItsCR
<1>1. GuardInv => PassActsForItsCR
  BY DEF GuardInv, PassActsForItsCR, Guarded
<1> QED BY <1>1, GuardInvariant, PTL

-----------------------------------------------------------------------------
(* The operator implements ClusterLifecycle                                   *)

Provider == IF aks.state = "Absent" THEN "absent" ELSE "present"

(* A step that leaves alone all that ClusterLifecycle sees.                   *)
Stutters == Declaration' = Declaration /\ Provider' = Provider

(* A step that ClusterLifecycle allows.                                       *)
Implements == Lifecycle!Next \/ Stutters

(* A write that keeps the finalizer and the deletion mark changes no          *)
(* declaration, even when it makes the API server remove the CR.              *)
LEMMA SameDeclaration ==
  ASSUME NEW c, c.exists = cr.exists, c.finalizer = cr.finalizer, c.deleting = cr.deleting,
         cr' = Stored(c)
  PROVE  Declaration' = Declaration
<1>1. CASE c.deleting /\ ~c.finalizer /\ ~c.held
  <2>1. ~cr'.exists /\ cr.deleting /\ ~cr.finalizer
    BY <1>1 DEF Stored, NoCR
  <2> QED BY <2>1 DEF Declaration
<1>2. CASE ~(c.deleting /\ ~c.finalizer /\ ~c.held)
  <2>1. cr'.exists = cr.exists /\ cr'.finalizer = cr.finalizer /\ cr'.deleting = cr.deleting
    BY <1>2 DEF Stored
  <2> QED BY <2>1 DEF Declaration
<1> QED BY <1>1, <1>2

LEMMA UnchangedStutters == UNCHANGED <<cr, aks>> => Stutters
BY DEF Stutters, Declaration, Provider

LEMMA StatusStutters ==
  ASSUME TypeOK, NEW o, NEW next, NEW onConflict, NEW onError,
         UpdateStatus(o, next, onConflict, onError)
  PROVE  Stutters
<1> DEFINE c == [cr EXCEPT !.phase = o.phase]
<1>1. c.exists = cr.exists /\ c.finalizer = cr.finalizer /\ c.deleting = cr.deleting
  BY DEF TypeOK, CRs
<1>2. Write(c, o, next, onConflict, onError)
  BY DEF UpdateStatus
<1> HIDE DEF c
<1>3. aks' = aks /\ (cr' = Stored(c) \/ cr' = cr)
  BY <1>2, WriteEffect
<1> QED BY <1>1, <1>3, SameDeclaration DEF Stutters, Declaration, Provider

LEMMA MetaStutters ==
  ASSUME TypeOK, NEW o, o.finalizer = cr.finalizer, NEW next, NEW onError,
         UpdateMeta(o, next, onError)
  PROVE  Stutters
<1> DEFINE c == [cr EXCEPT !.finalizer = o.finalizer, !.annID = o.annID, !.annUID = o.annUID]
<1>1. c.exists = cr.exists /\ c.finalizer = cr.finalizer /\ c.deleting = cr.deleting
  BY DEF TypeOK, CRs
<1>2. Write(c, o, next, onError, onError)
  BY DEF UpdateMeta
<1> HIDE DEF c
<1>3. aks' = aks /\ (cr' = Stored(c) \/ cr' = cr)
  BY <1>2, WriteEffect
<1> QED BY <1>1, <1>3, SameDeclaration DEF Stutters, Declaration, Provider

(* A PUT only ever provisions for a CR that carries the finalizer.            *)
LEMMA ReconcileClusterImplements ==
  ASSUME TypeOK, GuardInv, ReconcileCluster PROVE Implements
<1>1. ASSUME NEW call \in {"createCluster", "updateCluster"}, NEW poll, BeginPut(call, poll)
      PROVE  Implements
  <2>1. cr' = cr /\ (aks' = aks \/ aks' = PutCluster)
    BY <1>1 DEF BeginPut
  <2>2. Guarded(cr)
    BY <1>1 DEF BeginPut, GuardInv, ProvisionPcs
  <2>3. CASE aks' = aks
    BY <2>1, <2>3, UnchangedStutters DEF Implements
  <2>4. CASE aks' = PutCluster
    <3>1. PutCluster.state \in {"Creating", "Updating"}
      BY DEF PutCluster, TypeOK, AKSClusters
    <3>2. Provider' = "present" /\ Declaration' = Declaration
      BY <2>1, <2>4, <3>1 DEF Provider, Declaration
    <3>3. Declaration \in {"guarded", "leaving"}
      BY <2>2 DEF Declaration, Guarded
    <3> QED BY <3>2, <3>3
            DEF Implements, Stutters, Provider, Lifecycle!Next, Lifecycle!Provision
  <2> QED BY <2>1, <2>3, <2>4
<1>2. CASE GetCluster
  BY <1>2, UnchangedStutters DEF GetCluster, Implements
<1>3. CASE PollCreate \/ PollUpdate
  BY <1>3, UnchangedStutters DEF PollCreate, PollUpdate, PollPut, Implements
<1>4. CASE AgentPools
  BY <1>4, UnchangedStutters DEF AgentPools, Implements
<1>5. CASE CreateCluster \/ UpdateCluster
  BY <1>1, <1>5 DEF CreateCluster, UpdateCluster
<1> QED BY <1>2, <1>3, <1>4, <1>5 DEF ReconcileCluster

LEMMA RecordFactsStutters == ASSUME TypeOK, GuardInv, RecordFacts PROVE Stutters
<1>1. pc \in ProvisionPcs => Guarded(cr) /\ obj.finalizer /\ obj \in CRs /\ cr \in CRs
  BY DEF GuardInv, TypeOK
<1>2. ASSUME NEW s, NEW next, NEW onError, WriteState(s, next, onError) PROVE Stutters
  BY <1>2, UnchangedStutters DEF WriteState
<1>3. CASE FailStatus \/ WriteStatus \/ RewriteStatus
  BY <1>3, StatusStutters DEF FailStatus, WriteStatus, RewriteStatus
<1>4. CASE AnnotateUID
  <2>1. obj.finalizer = cr.finalizer
    BY <1>1, <1>4 DEF AnnotateUID, ProvisionPcs, Guarded, CRs
  <2> QED BY <1>4, <2>1, MetaStutters DEF AnnotateUID
<1>5. CASE AnnotateID
  <2>1. CASE obj.annID
    BY <1>5, <2>1, UnchangedStutters DEF AnnotateID, world
  <2>2. CASE ~obj.annID
    <3> DEFINE o == [obj EXCEPT !.annID = TRUE]
    <3>1. o.finalizer = cr.finalizer
      BY <1>1, <1>5 DEF AnnotateID, ProvisionPcs, Guarded, CRs
    <3>2. UpdateMeta(o, "writeStatus", "writeStatus")
      BY <1>5, <2>2 DEF AnnotateID
    <3> HIDE DEF o
    <3> QED BY <3>1, <3>2, MetaStutters
  <2> QED BY <2>1, <2>2
<1>6. CASE FetchKubeconfig \/ FetchKubeSystemUID \/ SetKubeSystemUID \/ Refetch
  BY <1>6, UnchangedStutters DEF FetchKubeconfig, FetchKubeSystemUID, SetKubeSystemUID, Refetch
<1>7. CASE SetClusterFailed \/ SetClusterProvisioned \/ SetClusterFQDN \/ SetAKSProvisionState
  BY <1>2, <1>7 DEF SetClusterFailed, SetClusterProvisioned, SetClusterFQDN, SetAKSProvisionState
<1>8. CASE SetKubeconfig \/ SetKubernetesAPIReady \/ SetClusterReady
  BY <1>2, <1>8 DEF SetKubeconfig, SetKubernetesAPIReady, SetClusterReady
<1> QED BY <1>3, <1>4, <1>5, <1>6, <1>7, <1>8 DEF RecordFacts

(* The finalizer comes off only when the cluster is gone.                     *)
LEMMA HandleDeletionImplements ==
  ASSUME TypeOK, GuardInv, HandleDeletion PROVE Implements
<1>0. cr \in CRs /\ obj \in CRs
  BY DEF TypeOK
<1>1. CASE MarkDeleting
  BY <1>1, StatusStutters DEF MarkDeleting, Implements
<1>2. CASE DeleteCluster
  <2>1. cr' = cr /\ (aks' = aks \/ aks' = DeletedCluster)
    BY <1>2 DEF DeleteCluster
  <2>2. DeletedCluster.state = "Absent" <=> aks.state = "Absent"
    BY DEF DeletedCluster, TypeOK, AKSClusters
  <2> QED BY <2>1, <2>2 DEF Implements, Stutters, Declaration, Provider
<1>3. CASE PollDelete \/ DeleteState
  BY <1>3, UnchangedStutters DEF PollDelete, DeleteState, Implements
<1>4. CASE RemoveFinalizer
  <2> DEFINE o == [obj EXCEPT !.finalizer = FALSE]
             c == [cr EXCEPT !.finalizer = o.finalizer, !.annID = o.annID, !.annUID = o.annUID]
  <2>1. o.finalizer = FALSE
    BY <1>0 DEF CRs
  <2>2. ~c.finalizer /\ c.exists = cr.exists /\ c.deleting = cr.deleting
    BY <1>0, <2>1 DEF CRs
  <2>3. Write(c, o, "finished", "requeue", "requeue")
    BY <1>4 DEF RemoveFinalizer, UpdateMeta
  <2>4. aks.state = "Absent" /\ ~LiveCopy(cr)
    BY <1>4 DEF RemoveFinalizer, GuardInv, DeletePcs, LiveCopy, Guarded
  <2> HIDE DEF o, c
  <2>5. aks' = aks /\ (cr' = cr \/ cr' = Stored(c))
    BY <2>3, WriteEffect
  <2>6. CASE cr' = cr
    BY <2>5, <2>6, UnchangedStutters DEF Implements
  <2>7. CASE cr' = Stored(c) /\ Guarded(cr)
    <3>1. Declaration = "leaving" /\ Provider = "absent"
      BY <1>0, <2>4, <2>7 DEF Declaration, Provider, LiveCopy, Guarded, CRs
    <3>2. ~cr'.exists \/ (cr'.deleting /\ ~cr'.finalizer)
      BY <2>2, <2>4, <2>7 DEF Stored, NoCR, LiveCopy, Guarded
    <3>3. Declaration' = "none"
      BY <3>2 DEF Declaration
    <3> QED BY <2>5, <3>1, <3>3 DEF Implements, Provider, Lifecycle!Next, Lifecycle!Release
  <2>8. CASE cr' = Stored(c) /\ ~Guarded(cr)
    <3>1. c.finalizer = cr.finalizer \/ ~cr.exists
      BY <1>0, <2>2, <2>1, <2>8 DEF Guarded, CRs, c
    <3>2. Declaration' = Declaration
      <4>1. CASE cr.exists
        BY <2>2, <2>8, <3>1, <4>1, SameDeclaration
      <4>2. CASE ~cr.exists
        BY <2>2, <2>8, <4>2 DEF Declaration, Stored, NoCR
      <4> QED BY <4>1, <4>2
    <3> QED BY <2>5, <3>2 DEF Implements, Stutters, Provider
  <2> QED BY <2>5, <2>6, <2>7, <2>8
<1> QED BY <1>1, <1>2, <1>3, <1>4 DEF HandleDeletion

LEMMA ReconcileImplements ==
  ASSUME TypeOK, GuardInv, Reconcile PROVE Implements
<1>0. cr \in CRs /\ obj \in CRs
  BY DEF TypeOK
<1>1. CASE Fetch \/ EnsureState \/ Return
  BY <1>1, UnchangedStutters DEF Fetch, EnsureState, WriteState, Return, Implements
<1>2. CASE AddFinalizer
  <2> DEFINE o == [obj EXCEPT !.finalizer = TRUE]
             c == [cr EXCEPT !.finalizer = o.finalizer, !.annID = o.annID, !.annUID = o.annUID]
  <2>1. c.finalizer /\ c.exists = cr.exists /\ c.deleting = cr.deleting
    BY <1>0 DEF CRs
  <2>2. Write(c, o, "requeue", "requeue", "requeue")
    BY <1>2 DEF AddFinalizer, UpdateMeta
  <2> HIDE DEF o, c
  <2>3. aks' = aks /\ (cr' = cr \/ (IsCurrent /\ cr' = c))
    BY <2>1, <2>2, WriteEffect DEF Stored
  <2>4. CASE cr' = cr
    BY <2>3, <2>4, UnchangedStutters DEF Implements
  <2>5. CASE IsCurrent /\ cr' = c
    <3>1. cr.exists /\ ~cr.deleting
      BY <1>2, <2>5 DEF AddFinalizer, GuardInv, IsCurrent
    <3>2. Declaration \in {"declared", "guarded"} /\ Declaration' = "guarded"
      BY <2>1, <2>5, <3>1 DEF Declaration
    <3> QED BY <2>3, <3>2
            DEF Implements, Stutters, Provider, Lifecycle!Next, Lifecycle!Guard
  <2> QED BY <2>3, <2>4, <2>5
<1>3. CASE InitStatus
  BY <1>3, StatusStutters DEF InitStatus, Implements
<1>4. CASE RecordFacts
  BY <1>4, RecordFactsStutters DEF Implements
<1> QED BY <1>1, <1>2, <1>3, <1>4, ReconcileClusterImplements, HandleDeletionImplements
        DEF Reconcile

LEMMA EnvironmentImplements == ASSUME TypeOK, Environment PROVE Implements
<1>0. cr \in CRs
  BY DEF TypeOK
<1>1. CASE CacheSync \/ Crash \/ CollectSecret \/ SecretDeleted
  BY <1>1, UnchangedStutters DEF CacheSync, Crash, CollectSecret, SecretDeleted, Implements
<1>2. CASE AKSProgress
  <2>1. cr' = cr /\ aks.state # "Absent"
    BY <1>2 DEF AKSProgress, InProgress
  <2> QED BY <2>1 DEF Implements, Stutters, Declaration, Provider,
                      Lifecycle!Next, Lifecycle!Destroy
<1>3. CASE EndForegroundDeletion
  <2> DEFINE c == [cr EXCEPT !.held = FALSE]
  <2>1. c.exists = cr.exists /\ c.finalizer = cr.finalizer /\ c.deleting = cr.deleting
    BY <1>0 DEF CRs
  <2>2. cr' = Stored(c) /\ aks' = aks
    BY <1>3 DEF EndForegroundDeletion
  <2> HIDE DEF c
  <2> QED BY <2>1, <2>2, SameDeclaration DEF Implements, Stutters, Provider
<1>4. CASE UserEdit
  <2>1. PICK s \in Specs : cr' = [cr EXCEPT !.spec = s]
    BY <1>4 DEF UserEdit
  <2>2. cr'.exists = cr.exists /\ cr'.finalizer = cr.finalizer /\ cr'.deleting = cr.deleting
    BY <1>0, <2>1 DEF CRs
  <2>3. aks' = aks
    BY <1>4 DEF UserEdit
  <2> QED BY <2>2, <2>3 DEF Implements, Stutters, Declaration, Provider
<1>5. CASE UserDelete
  <2>1. PICK b \in BOOLEAN : cr' = Stored([cr EXCEPT !.deleting = TRUE, !.held = b])
    BY <1>5 DEF UserDelete
  <2> DEFINE c == [cr EXCEPT !.deleting = TRUE, !.held = b]
  <2>2. c.exists = cr.exists /\ c.finalizer = cr.finalizer /\ c.deleting
    BY <1>0 DEF CRs
  <2>3. cr' = Stored(c) /\ aks' = aks /\ cr.exists /\ ~cr.deleting
    BY <1>5, <2>1 DEF UserDelete
  <2> HIDE DEF c
  <2>4. CASE cr.finalizer
    <3>1. Stored(c) = c
      BY <2>2, <2>4 DEF Stored
    <3>2. Declaration = "guarded" /\ Declaration' = "leaving"
      BY <2>2, <2>3, <2>4, <3>1 DEF Declaration
    <3> QED BY <2>3, <3>2 DEF Implements, Provider, Lifecycle!Next, Lifecycle!Leave
  <2>5. CASE ~cr.finalizer
    <3>1. ~Stored(c).exists \/ (Stored(c).deleting /\ ~Stored(c).finalizer)
      BY <2>2, <2>5 DEF Stored, NoCR
    <3>2. Declaration = "declared" /\ Declaration' = "none"
      BY <2>3, <2>5, <3>1 DEF Declaration
    <3> QED BY <2>3, <3>2 DEF Implements, Provider, Lifecycle!Next, Lifecycle!Withdraw
  <2> QED BY <2>4, <2>5
<1>6. CASE UserRecreate
  <2>1. ~cr.exists /\ aks' = aks
    BY <1>6 DEF UserRecreate
  <2>2. PICK s \in Specs : cr' = NewCR(cr.uid + 1, s)
    BY <1>6 DEF UserRecreate
  <2>3. cr'.exists /\ ~cr'.deleting /\ ~cr'.finalizer
    BY <2>2 DEF NewCR, NoCR
  <2>4. Declaration = "none" /\ Declaration' = "declared"
    BY <2>1, <2>3 DEF Declaration
  <2> QED BY <2>1, <2>4 DEF Implements, Provider, Lifecycle!Next, Lifecycle!Declare
<1>7. CASE PortalChange
  <2>1. cr' = cr /\ aks.state # "Absent"
    BY <1>7 DEF PortalChange
  <2>2. aks'.state \in {"Updating", "Deleting"}
    BY <1>7 DEF PortalChange, TypeOK, AKSClusters
  <2> QED BY <2>1, <2>2 DEF Implements, Stutters, Declaration, Provider
<1> QED BY <1>1, <1>2, <1>3, <1>4, <1>5, <1>6, <1>7 DEF Environment

(* The operator keeps the promise of ClusterLifecycle.                        *)
THEOREM LifecycleRefinement ==
  ASSUME OnlyAbsenceReadsAsAbsence PROVE Spec => KeepsLifecycle
<1>1. Init => Lifecycle!Init
  <2>1. ASSUME Init PROVE Lifecycle!Init
    <3>1. PICK s \in Specs : cr = NewCR(1, s)
      BY <2>1 DEF Init
    <3>2. cr.exists /\ ~cr.deleting /\ ~cr.finalizer
      BY <3>1 DEF NewCR, NoCR
    <3> QED BY <2>1, <3>2 DEF Init, Lifecycle!Init, Declaration
  <2> QED BY <2>1
<1>2. TypeOK /\ GuardInv /\ [Next]_vars => [Lifecycle!Next]_<<Declaration, Provider>>
  <2>1. TypeOK /\ GuardInv /\ UNCHANGED vars => Stutters
    BY UnchangedStutters DEF vars, world
  <2>2. TypeOK /\ GuardInv /\ Next => Implements
    BY ReconcileImplements, EnvironmentImplements DEF Next
  <2> QED BY <2>1, <2>2 DEF Implements, Stutters
<1> QED BY <1>1, <1>2, GuardInvariant, PTL DEF Spec, KeepsLifecycle, Lifecycle!Spec, Provider

=============================================================================
