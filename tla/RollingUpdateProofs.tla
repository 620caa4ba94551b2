------------------------- MODULE RollingUpdateProofs -------------------------
(* Theorems about RollingUpdate for any settings, any specs, any disruptions  *)
(* and any number of them.  What is proved about one operator in              *)
(* KubernetesClusterControllerProofs and KubernetesClusterRecordProofs is     *)
(* used for each of the two.                                                  *)
EXTENDS RollingUpdate, TLAPS

OldP == INSTANCE KubernetesClusterRecordProofs WITH
  Disruptions <- OfOperators, cache <- cache1, fresh <- fresh1, queued <- queued1,
  pc <- pc1, obj <- obj1, reply <- reply1, inHand <- inHand1

NewP == INSTANCE KubernetesClusterRecordProofs WITH
  Disruptions <- OfOperators, cache <- cache2, fresh <- fresh2, queued <- queued2,
  pc <- pc2, obj <- obj2, reply <- reply2, inHand <- inHand2

USE DEF Calm, At, Goto

-----------------------------------------------------------------------------
(* The operators of the model and those of the proofs are the same text.      *)

LEMMA OldReconcile == Old!Reconcile => OldP!Reconcile
BY DEF Old!Reconcile, OldP!Reconcile, Old!Fetch, OldP!Fetch,
       Old!EnsureState, OldP!EnsureState, Old!AddFinalizer, OldP!AddFinalizer,
       Old!InitStatus, OldP!InitStatus, Old!Return, OldP!Return,
       Old!ReconcileCluster, OldP!ReconcileCluster,
       Old!RecordFacts, OldP!RecordFacts, Old!HandleDeletion, OldP!HandleDeletion,
       Old!GetCluster, OldP!GetCluster, Old!CreateCluster, OldP!CreateCluster,
       Old!PollCreate, OldP!PollCreate, Old!UpdateCluster, OldP!UpdateCluster,
       Old!PollUpdate, OldP!PollUpdate, Old!AgentPools, OldP!AgentPools,
       Old!SetClusterFailed, OldP!SetClusterFailed,
       Old!FailStatus, OldP!FailStatus,
       Old!SetClusterProvisioned, OldP!SetClusterProvisioned,
       Old!SetClusterFQDN, OldP!SetClusterFQDN,
       Old!SetAKSProvisionState, OldP!SetAKSProvisionState,
       Old!FetchKubeconfig, OldP!FetchKubeconfig,
       Old!SetKubeconfig, OldP!SetKubeconfig,
       Old!SetKubernetesAPIReady, OldP!SetKubernetesAPIReady,
       Old!SetClusterReady, OldP!SetClusterReady,
       Old!FetchKubeSystemUID, OldP!FetchKubeSystemUID,
       Old!AdoptUID, OldP!AdoptUID,
       Old!SetKubeSystemUID, OldP!SetKubeSystemUID,
       Old!AnnotateUID, OldP!AnnotateUID, Old!AnnotateID, OldP!AnnotateID,
       Old!WriteStatus, OldP!WriteStatus, Old!Refetch, OldP!Refetch,
       Old!RewriteStatus, OldP!RewriteStatus, Old!MarkDeleting, OldP!MarkDeleting,
       Old!DeleteCluster, OldP!DeleteCluster, Old!PollDelete, OldP!PollDelete,
       Old!DeleteState, OldP!DeleteState,
       Old!RemoveFinalizer, OldP!RemoveFinalizer, Old!At, OldP!At,
       Old!Goto, OldP!Goto, Old!Calm, OldP!Calm, Old!Disturbed, OldP!Disturbed,
       Old!Write, OldP!Write, Old!UpdateMeta, OldP!UpdateMeta,
       Old!UpdateStatus, OldP!UpdateStatus, Old!WriteState, OldP!WriteState,
       Old!Stored, OldP!Stored, Old!IsCurrent, OldP!IsCurrent,
       Old!AfterEnsureState, OldP!AfterEnsureState,
       Old!Observations, OldP!Observations, Old!PhaseFromAKS, OldP!PhaseFromAKS,
       Old!AfterObserving, OldP!AfterObserving, Old!FailedWith, OldP!FailedWith,
       Old!NeedsUpdate, OldP!NeedsUpdate, Old!DesiredCount, OldP!DesiredCount,
       Old!Complement, OldP!Complement, Old!PutCluster, OldP!PutCluster,
       Old!TakesPut, OldP!TakesPut, Old!BeginPut, OldP!BeginPut,
       Old!PollPut, OldP!PollPut, Old!CurrentState, OldP!CurrentState,
       Old!NoSecret, OldP!NoSecret, Old!NoCR, OldP!NoCR, Old!NoReply, OldP!NoReply,
       Old!AnySpec, OldP!AnySpec, Old!Reportable, OldP!Reportable,
       Old!AbsenceErrors, OldP!AbsenceErrors, Old!Says, OldP!Says,
       Old!SaysCreate, OldP!SaysCreate, Old!SaysConflict, OldP!SaysConflict,
       Old!SaysDeleted, OldP!SaysDeleted, Old!ErrorText, OldP!ErrorText,
       Old!ErrorKind, OldP!ErrorKind, Old!InProgress, OldP!InProgress,
       Old!AfterUID, OldP!AfterUID, Old!WithStatus, OldP!WithStatus,
       Old!AfterFailedDelete, OldP!AfterFailedDelete,
       Old!DeletedCluster, OldP!DeletedCluster, Old!world, OldP!world,
       Old!GuestAnswers, OldP!GuestAnswers

LEMMA OldInv ==
  /\ (Old!GuardInv <=> OldP!GuardInv) /\ (Old!GuardInv' <=> OldP!GuardInv')
  /\ (Old!TypeOK <=> OldP!TypeOK) /\ (Old!TypeOK' <=> OldP!TypeOK')
BY DEF Old!GuardInv, OldP!GuardInv, Old!Guarded, OldP!Guarded,
       Old!LiveCopy, OldP!LiveCopy, Old!ProvisionPcs, OldP!ProvisionPcs,
       Old!DeletePcs, OldP!DeletePcs, Old!TypeOK, OldP!TypeOK, Old!CRs, OldP!CRs,
       Old!Phases, OldP!Phases, Old!Secrets, OldP!Secrets,
       Old!ProvisioningStates, OldP!ProvisioningStates,
       Old!AKSClusters, OldP!AKSClusters, Old!Replies, OldP!Replies,
       Old!Pcs, OldP!Pcs

LEMMA NewReconcile == New!Reconcile => NewP!Reconcile
BY DEF New!Reconcile, NewP!Reconcile, New!Fetch, NewP!Fetch,
       New!EnsureState, NewP!EnsureState, New!AddFinalizer, NewP!AddFinalizer,
       New!InitStatus, NewP!InitStatus, New!Return, NewP!Return,
       New!ReconcileCluster, NewP!ReconcileCluster,
       New!RecordFacts, NewP!RecordFacts, New!HandleDeletion, NewP!HandleDeletion,
       New!GetCluster, NewP!GetCluster, New!CreateCluster, NewP!CreateCluster,
       New!PollCreate, NewP!PollCreate, New!UpdateCluster, NewP!UpdateCluster,
       New!PollUpdate, NewP!PollUpdate, New!AgentPools, NewP!AgentPools,
       New!SetClusterFailed, NewP!SetClusterFailed,
       New!FailStatus, NewP!FailStatus,
       New!SetClusterProvisioned, NewP!SetClusterProvisioned,
       New!SetClusterFQDN, NewP!SetClusterFQDN,
       New!SetAKSProvisionState, NewP!SetAKSProvisionState,
       New!FetchKubeconfig, NewP!FetchKubeconfig,
       New!SetKubeconfig, NewP!SetKubeconfig,
       New!SetKubernetesAPIReady, NewP!SetKubernetesAPIReady,
       New!SetClusterReady, NewP!SetClusterReady,
       New!FetchKubeSystemUID, NewP!FetchKubeSystemUID,
       New!AdoptUID, NewP!AdoptUID,
       New!SetKubeSystemUID, NewP!SetKubeSystemUID,
       New!AnnotateUID, NewP!AnnotateUID, New!AnnotateID, NewP!AnnotateID,
       New!WriteStatus, NewP!WriteStatus, New!Refetch, NewP!Refetch,
       New!RewriteStatus, NewP!RewriteStatus, New!MarkDeleting, NewP!MarkDeleting,
       New!DeleteCluster, NewP!DeleteCluster, New!PollDelete, NewP!PollDelete,
       New!DeleteState, NewP!DeleteState,
       New!RemoveFinalizer, NewP!RemoveFinalizer, New!At, NewP!At,
       New!Goto, NewP!Goto, New!Calm, NewP!Calm, New!Disturbed, NewP!Disturbed,
       New!Write, NewP!Write, New!UpdateMeta, NewP!UpdateMeta,
       New!UpdateStatus, NewP!UpdateStatus, New!WriteState, NewP!WriteState,
       New!Stored, NewP!Stored, New!IsCurrent, NewP!IsCurrent,
       New!AfterEnsureState, NewP!AfterEnsureState,
       New!Observations, NewP!Observations, New!PhaseFromAKS, NewP!PhaseFromAKS,
       New!AfterObserving, NewP!AfterObserving, New!FailedWith, NewP!FailedWith,
       New!NeedsUpdate, NewP!NeedsUpdate, New!DesiredCount, NewP!DesiredCount,
       New!Complement, NewP!Complement, New!PutCluster, NewP!PutCluster,
       New!TakesPut, NewP!TakesPut, New!BeginPut, NewP!BeginPut,
       New!PollPut, NewP!PollPut, New!CurrentState, NewP!CurrentState,
       New!NoSecret, NewP!NoSecret, New!NoCR, NewP!NoCR, New!NoReply, NewP!NoReply,
       New!AnySpec, NewP!AnySpec, New!Reportable, NewP!Reportable,
       New!AbsenceErrors, NewP!AbsenceErrors, New!Says, NewP!Says,
       New!SaysCreate, NewP!SaysCreate, New!SaysConflict, NewP!SaysConflict,
       New!SaysDeleted, NewP!SaysDeleted, New!ErrorText, NewP!ErrorText,
       New!ErrorKind, NewP!ErrorKind, New!InProgress, NewP!InProgress,
       New!AfterUID, NewP!AfterUID, New!WithStatus, NewP!WithStatus,
       New!AfterFailedDelete, NewP!AfterFailedDelete,
       New!DeletedCluster, NewP!DeletedCluster, New!world, NewP!world,
       New!GuestAnswers, NewP!GuestAnswers

LEMMA NewInv ==
  /\ (New!GuardInv <=> NewP!GuardInv) /\ (New!GuardInv' <=> NewP!GuardInv')
  /\ (New!TypeOK <=> NewP!TypeOK) /\ (New!TypeOK' <=> NewP!TypeOK')
BY DEF New!GuardInv, NewP!GuardInv, New!Guarded, NewP!Guarded,
       New!LiveCopy, NewP!LiveCopy, New!ProvisionPcs, NewP!ProvisionPcs,
       New!DeletePcs, NewP!DeletePcs, New!TypeOK, NewP!TypeOK, New!CRs, NewP!CRs,
       New!Phases, NewP!Phases, New!Secrets, NewP!Secrets,
       New!ProvisioningStates, NewP!ProvisioningStates,
       New!AKSClusters, NewP!AKSClusters, New!Replies, NewP!Replies,
       New!Pcs, NewP!Pcs

-----------------------------------------------------------------------------
(* What is known of each operator.                                            *)

(* Azure says "not found" of nothing but the cluster and its resource group.  *)
Truthful == "ServicePrincipalNotFound" \notin AzureErrors

LEMMA OfOperatorsAssumption ==
  /\ Specs \subseteq [version : Nat, replicas : Nat \ {0}] /\ Specs # {}
  /\ AzureErrors \subseteq OldP!ErrorKind /\ OfOperators \subseteq OldP!Disruption
  /\ AzureErrors \subseteq NewP!ErrorKind /\ OfOperators \subseteq NewP!Disruption
  /\ MaxDisruptions \in Nat
BY SharedAssumption, RolloutAssumption
   DEF Old!ErrorKind, OldP!ErrorKind, NewP!ErrorKind, Old!ErrorText, OldP!ErrorText,
       NewP!ErrorText, Old!Disruption, OldP!Disruption, NewP!Disruption

LEMMA OldReconciled ==
  ASSUME Old!TypeOK, Old!Reconcile
  PROVE  Old!TypeOK' /\ (Truthful /\ Old!GuardInv => Old!GuardInv')
<1>1. OldP!TypeOK'
  BY OldInv, OldReconcile, OfOperatorsAssumption, OldP!ReconcileType
     DEF OldP!ReconcileType, OldP!Disruption, OldP!ErrorKind
<1>2. Truthful /\ OldP!GuardInv => OldP!GuardInv'
  BY OldInv, OldReconcile, OfOperatorsAssumption, OldP!GuardReconcile
     DEF OldP!GuardReconcile, OldP!OnlyAbsenceReadsAsAbsence, Truthful,
         OldP!Disruption, OldP!ErrorKind
<1> QED BY <1>1, <1>2, OldInv

LEMMA NewReconciled ==
  ASSUME New!TypeOK, New!Reconcile
  PROVE  New!TypeOK' /\ (Truthful /\ New!GuardInv => New!GuardInv')
<1>1. NewP!TypeOK'
  BY NewInv, NewReconcile, OfOperatorsAssumption, NewP!ReconcileType
     DEF NewP!ReconcileType, NewP!Disruption, NewP!ErrorKind
<1>2. Truthful /\ NewP!GuardInv => NewP!GuardInv'
  BY NewInv, NewReconcile, OfOperatorsAssumption, NewP!GuardReconcile
     DEF NewP!GuardReconcile, NewP!OnlyAbsenceReadsAsAbsence, Truthful,
         NewP!Disruption, NewP!ErrorKind
<1> QED BY <1>1, <1>2, NewInv

-----------------------------------------------------------------------------
(* What the environment of both does is a step of the environment of each.    *)

Seen1 == Old!CacheSync \/ World \/ ChangesCR
Seen2 == \/ New!CacheSync
         \/ World /\ UNCHANGED <<fresh2, pass2>>
         \/ ChangesCR /\ fresh2' = {} /\ UNCHANGED pass2

LEMMA OldEnvironment == Seen1 => OldP!Environment
BY DEF Seen1, World, ChangesCR, OldP!Environment,
       Old!CacheSync, OldP!CacheSync, Old!AKSProgress, OldP!AKSProgress,
       Old!CollectSecret, OldP!CollectSecret, Old!EndForegroundDeletion,
       OldP!EndForegroundDeletion, Old!UserEdit, OldP!UserEdit, Old!UserDelete,
       OldP!UserDelete, Old!UserRecreate, OldP!UserRecreate, Old!PortalChange,
       OldP!PortalChange, Old!SecretDeleted, OldP!SecretDeleted, Old!Calm,
       OldP!Calm, Old!Disturbed, OldP!Disturbed, Old!InProgress,
       OldP!InProgress, Old!Stored, OldP!Stored, Old!NoCR, OldP!NoCR,
       Old!AnySpec, OldP!AnySpec, Old!NewCR, OldP!NewCR, Old!NoSecret,
       OldP!NoSecret, Old!OwnsSecret, OldP!OwnsSecret, Old!locals, OldP!locals

LEMMA NewEnvironment == Seen2 => NewP!Environment
BY DEF Seen2, World, ChangesCR, pass2, NewP!Environment, New!CacheSync, New!locals,
       Old!CacheSync, NewP!CacheSync, Old!AKSProgress, NewP!AKSProgress,
       Old!CollectSecret, NewP!CollectSecret, Old!EndForegroundDeletion,
       NewP!EndForegroundDeletion, Old!UserEdit, NewP!UserEdit, Old!UserDelete,
       NewP!UserDelete, Old!UserRecreate, NewP!UserRecreate, Old!PortalChange,
       NewP!PortalChange, Old!SecretDeleted, NewP!SecretDeleted,
       Old!Calm, NewP!Calm, Old!Disturbed, NewP!Disturbed, Old!InProgress,
       NewP!InProgress, Old!Stored, NewP!Stored, Old!NoCR, NewP!NoCR,
       Old!AnySpec, NewP!AnySpec, Old!NewCR, NewP!NewCR, Old!NoSecret,
       NewP!NoSecret, Old!OwnsSecret, NewP!OwnsSecret, Old!locals, NewP!locals

LEMMA OldObserved ==
  ASSUME Old!TypeOK, Seen1 PROVE Old!TypeOK' /\ (Old!GuardInv => Old!GuardInv')
<1>1. OldP!TypeOK'
  BY OldInv, OldEnvironment, OfOperatorsAssumption, OldP!EnvironmentType
     DEF OldP!EnvironmentType, OldP!Disruption, OldP!ErrorKind
<1>2. OldP!GuardInv => OldP!GuardInv'
  BY OldInv, OldEnvironment, OfOperatorsAssumption, OldP!GuardEnvironment
     DEF OldP!GuardEnvironment, OldP!Disruption, OldP!ErrorKind
<1> QED BY <1>1, <1>2, OldInv

LEMMA NewObserved ==
  ASSUME New!TypeOK, Seen2 PROVE New!TypeOK' /\ (New!GuardInv => New!GuardInv')
<1>1. NewP!TypeOK'
  BY NewInv, NewEnvironment, OfOperatorsAssumption, NewP!EnvironmentType
     DEF NewP!EnvironmentType, NewP!Disruption, NewP!ErrorKind
<1>2. NewP!GuardInv => NewP!GuardInv'
  BY NewInv, NewEnvironment, OfOperatorsAssumption, NewP!GuardEnvironment
     DEF NewP!GuardEnvironment, NewP!Disruption, NewP!ErrorKind
<1> QED BY <1>1, <1>2, NewInv

-----------------------------------------------------------------------------
(* Type correctness                                                           *)

SharedType ==
  cr \in Old!CRs /\ secret \in Old!Secrets /\ aks \in Old!AKSClusters
    /\ budget \in 0 .. MaxDisruptions

LocalType(cache, fresh, queued, pc, obj, reply, inHand) ==
  /\ cache \in Old!CRs /\ obj \in Old!CRs /\ reply \in Old!Replies
  /\ fresh \subseteq {"cache", "obj"} /\ queued \in BOOLEAN
  /\ pc \in Old!Pcs /\ inHand \in Nat

Type1 == LocalType(cache1, fresh1, queued1, pc1, obj1, reply1, inHand1)
Type2 == LocalType(cache2, fresh2, queued2, pc2, obj2, reply2, inHand2)

LEMMA TypeParts ==
  /\ (Old!TypeOK <=> SharedType /\ Type1) /\ (Old!TypeOK' <=> SharedType' /\ Type1')
  /\ (New!TypeOK <=> SharedType /\ Type2) /\ (New!TypeOK' <=> SharedType' /\ Type2')
BY DEF SharedType, LocalType, Type1, Type2,
       Old!TypeOK, Old!CRs, Old!Phases, Old!Secrets, Old!ProvisioningStates,
       Old!AKSClusters, Old!Replies, Old!Pcs, Old!ProvisionPcs, Old!DeletePcs,
       New!TypeOK, New!CRs, New!Phases, New!Secrets, New!ProvisioningStates,
       New!AKSClusters, New!Replies, New!Pcs, New!ProvisionPcs, New!DeletePcs

LEMMA NothingType ==
  Old!NoCR \in Old!CRs /\ Old!NoReply \in Old!Replies /\ "idle" \in Old!Pcs
<1>1. Old!AnySpec \in Specs
  BY SharedAssumption DEF Old!AnySpec
<1>2. Old!NoCR \in Old!CRs
  BY <1>1 DEF Old!NoCR, Old!CRs, Old!Phases
<1>3. Old!NoReply \in Old!Replies
  BY DEF Old!NoReply, Old!Replies
<1> QED BY <1>2, <1>3 DEF Old!Pcs

LEMMA RolloutStepType ==
  ASSUME RolloutTypeOK, RolloutNext PROVE RolloutTypeOK'
<1>1. budget' \in 0 .. MaxDisruptions
  <2>1. budget' = budget \/ (budget > 0 /\ budget' = budget - 1)
    BY DEF RolloutNext, PodSteps, Startup, CheckAzureEnvironment, ValidateAzureConnectivity,
           Lead, Restart, Crash, Update, Retire, LeaseExpires, Disturbed
  <2> QED BY <2>1, RolloutAssumption DEF RolloutTypeOK
<1>2. stage' \in [Pods -> {"none", "checking", "validating", "started", "running", "exited"}]
  BY DEF RolloutNext, PodSteps, Startup, CheckAzureEnvironment, ValidateAzureConnectivity,
         Lead, Restart, Crash, Update, Retire, LeaseExpires, RolloutTypeOK
<1>3. settings' \in [Pods -> SUBSET Setting]
  BY RolloutAssumption
     DEF RolloutNext, PodSteps, Startup, CheckAzureEnvironment, ValidateAzureConnectivity,
         Lead, Restart, Crash, Update, Retire, LeaseExpires, RolloutTypeOK
<1>4. lease' \in Pods \cup {NoPod}
  BY DEF RolloutNext, PodSteps, Startup, CheckAzureEnvironment, ValidateAzureConnectivity,
         Lead, Restart, Crash, Update, Retire, LeaseExpires, RolloutTypeOK
<1> QED BY <1>1, <1>2, <1>3, <1>4 DEF RolloutTypeOK

LEMMA FollowsOldType ==
  ASSUME SharedType, Type1,
         Follows("old", cache1, fresh1, queued1, pc1, obj1, reply1, inHand1)
  PROVE  Type1'
<1>1. CASE Running("old") = Running("old")'
  BY <1>1 DEF Follows, LocalType, Type1
<1>2. CASE Running("old") # Running("old")'
  <2>1. /\ cache1' = IF Running("old")' THEN cr ELSE Old!NoCR
        /\ fresh1' = IF Running("old")' THEN {"cache"} ELSE {}
        /\ queued1' = (Running("old")' /\ cr.exists)
        /\ pc1' = "idle" /\ obj1' = Old!NoCR /\ reply1' = Old!NoReply /\ inHand1' = 0
    BY <1>2 DEF Follows
  <2>2. cache1' \in Old!CRs /\ fresh1' \subseteq {"cache", "obj"} /\ queued1' \in BOOLEAN
    BY <2>1, NothingType DEF SharedType
  <2> QED BY <2>1, <2>2, NothingType DEF LocalType, Type1
<1> QED BY <1>1, <1>2

LEMMA FollowsNewType ==
  ASSUME SharedType, Type2,
         Follows("new", cache2, fresh2, queued2, pc2, obj2, reply2, inHand2)
  PROVE  Type2'
<1>1. CASE Running("new") = Running("new")'
  BY <1>1 DEF Follows, LocalType, Type2
<1>2. CASE Running("new") # Running("new")'
  <2>1. /\ cache2' = IF Running("new")' THEN cr ELSE Old!NoCR
        /\ fresh2' = IF Running("new")' THEN {"cache"} ELSE {}
        /\ queued2' = (Running("new")' /\ cr.exists)
        /\ pc2' = "idle" /\ obj2' = Old!NoCR /\ reply2' = Old!NoReply /\ inHand2' = 0
    BY <1>2 DEF Follows
  <2>2. cache2' \in Old!CRs /\ fresh2' \subseteq {"cache", "obj"} /\ queued2' \in BOOLEAN
    BY <2>1, NothingType DEF SharedType
  <2> QED BY <2>1, <2>2, NothingType DEF LocalType, Type2
<1> QED BY <1>1, <1>2

LEMMA InitType == Init => TypeOK
<1> SUFFICES ASSUME Init PROVE TypeOK
  OBVIOUS
<1>1. RolloutTypeOK
  <2>1. PICK s \in Settings : settings = [p \in Pods |-> s]
    BY DEF Init, RolloutInit
  <2>2. settings \in [Pods -> SUBSET Setting]
    BY <2>1, RolloutAssumption
  <2>3. lease \in Pods \cup {NoPod} /\ budget \in 0 .. MaxDisruptions
    BY RolloutAssumption DEF Init, RolloutInit, Pods
  <2>4. stage \in [Pods -> {"none", "checking", "validating", "started", "running", "exited"}]
    BY DEF Init, RolloutInit
  <2> QED BY <2>2, <2>3, <2>4 DEF RolloutTypeOK
<1>2. OldP!TypeOK
  <2>1. Old!Init => OldP!Init
    BY DEF Old!Init, OldP!Init, Old!NewCR, OldP!NewCR, Old!NoCR, OldP!NoCR,
           Old!AnySpec, OldP!AnySpec, Old!NoSecret, OldP!NoSecret,
           Old!NoReply, OldP!NoReply
  <2> QED BY <2>1, OfOperatorsAssumption, OldP!InitType
          DEF Init, OldP!InitType, OldP!Disruption, OldP!ErrorKind
<1>3. SharedType /\ Type1
  BY <1>2, OldInv, TypeParts
<1>4. Type2
  BY NothingType DEF Init, Type2, LocalType
<1> QED BY <1>1, <1>3, <1>4, TypeParts DEF TypeOK

LEMMA NextType == ASSUME TypeOK, Next PROVE TypeOK'
<1>0. RolloutTypeOK /\ SharedType /\ Type1 /\ Type2 /\ Old!TypeOK /\ New!TypeOK
  BY TypeParts DEF TypeOK
<1>1. ASSUME UNCHANGED pods, SharedType' PROVE RolloutTypeOK'
  BY <1>0, <1>1 DEF RolloutTypeOK, SharedType, pods
<1>2. ASSUME UNCHANGED pass1, fresh1' \in {fresh1, {}} PROVE Type1'
  BY <1>0, <1>2 DEF Type1, LocalType, pass1
<1>3. ASSUME UNCHANGED pass2, fresh2' \in {fresh2, {}} PROVE Type2'
  BY <1>0, <1>3 DEF Type2, LocalType, pass2
<1>4. CASE OldReconciles
  <2>1. SharedType' /\ Type1'
    BY <1>0, <1>4, OldReconciled, TypeParts DEF OldReconciles
  <2>2. UNCHANGED <<pods, pass2>> /\ fresh2' \in {fresh2, {}}
    BY <1>4 DEF OldReconciles
  <2> QED BY <2>1, <2>2, <1>1, <1>3, TypeParts DEF TypeOK
<1>5. CASE NewReconciles
  <2>1. SharedType' /\ Type2'
    BY <1>0, <1>5, NewReconciled, TypeParts DEF NewReconciles
  <2>2. UNCHANGED <<pods, pass1>> /\ fresh1' \in {fresh1, {}}
    BY <1>5 DEF NewReconciles
  <2> QED BY <2>1, <2>2, <1>1, <1>2, TypeParts DEF TypeOK
<1>6. CASE OldSyncs
  <2>1. SharedType' /\ Type1'
    BY <1>0, <1>6, OldObserved, TypeParts DEF OldSyncs, Seen1
  <2>2. UNCHANGED <<pods, pass2>> /\ fresh2' \in {fresh2, {}}
    BY <1>6 DEF OldSyncs
  <2> QED BY <2>1, <2>2, <1>1, <1>3, TypeParts DEF TypeOK
<1>7. CASE NewSyncs
  <2>1. SharedType' /\ Type2'
    BY <1>0, <1>7, NewObserved, TypeParts DEF NewSyncs, Seen2
  <2>2. UNCHANGED <<pods, pass1>> /\ fresh1' \in {fresh1, {}}
    BY <1>7 DEF NewSyncs
  <2> QED BY <2>1, <2>2, <1>1, <1>2, TypeParts DEF TypeOK
<1>8. CASE Deployed(RolloutNext)
  <2>1. RolloutTypeOK'
    BY <1>0, <1>8, RolloutStepType DEF Deployed
  <2>2. SharedType'
    BY <1>0, <1>8, <2>1 DEF Deployed, shared, SharedType, RolloutTypeOK
  <2>3. Type1'
    BY <1>0, <1>8, FollowsOldType DEF Deployed
  <2>4. Type2'
    BY <1>0, <1>8, FollowsNewType DEF Deployed
  <2> QED BY <2>1, <2>2, <2>3, <2>4, TypeParts DEF TypeOK
<1>9. CASE Outside
  <2>1. SharedType' /\ Type1'
    BY <1>0, <1>9, OldObserved, TypeParts DEF Outside, Seen1
  <2>2. UNCHANGED <<pods, pass2>> /\ fresh2' \in {fresh2, {}}
    BY <1>9 DEF Outside
  <2> QED BY <2>1, <2>2, <1>1, <1>3, TypeParts DEF TypeOK
<1> QED BY <1>4, <1>5, <1>6, <1>7, <1>8, <1>9 DEF Next, Reconciles, Syncs

(* Every variable always holds a value the program could hold, leader         *)
(* election or not.                                                           *)
THEOREM TypeCorrect == Spec => []TypeOK
<1>1. TypeOK /\ [Next]_vars => TypeOK'
  <2>1. TypeOK /\ UNCHANGED vars => TypeOK'
    BY TypeParts
       DEF TypeOK, vars, rolloutVars, pods, shared, pass1, pass2, RolloutTypeOK,
           SharedType, LocalType, Type1, Type2
  <2> QED BY <2>1, NextType
<1> QED BY <1>1, InitType, PTL DEF Spec

-----------------------------------------------------------------------------
(* The handover                                                               *)

Exclusive == \A p \in Pods : Running(p) => lease = p
OldSafe == IF Running("old") THEN Old!GuardInv ELSE pc1 = "idle"
NewSafe == IF Running("new") THEN New!GuardInv ELSE pc2 = "idle"
Handover == Exclusive /\ Old!NoOrphan /\ OldSafe /\ NewSafe

LEMMA HandoverIs == ASSUME LeaderElect PROVE HandoverInv <=> Handover
BY DEF HandoverInv, Handover, Exclusive, OldSafe, NewSafe

LEMMA GuardsAgainstOrphans ==
  /\ Old!GuardInv => Old!NoOrphan
  /\ Old!GuardInv' => Old!NoOrphan'
  /\ New!GuardInv' => Old!NoOrphan'
BY DEF Old!GuardInv, New!GuardInv, Old!NoOrphan, Old!Guarded, New!Guarded

(* A process that starts to reconcile has read what is stored.                *)
LEMMA FreshStartOld ==
  ASSUME Old!NoOrphan, UNCHANGED shared, cache1' = cr, fresh1' = {"cache"}, pc1' = "idle"
  PROVE  Old!GuardInv'
BY DEF Old!GuardInv, Old!NoOrphan, Old!Guarded, Old!LiveCopy, shared,
       Old!ProvisionPcs, Old!DeletePcs

LEMMA FreshStartNew ==
  ASSUME Old!NoOrphan, UNCHANGED shared, cache2' = cr, fresh2' = {"cache"}, pc2' = "idle"
  PROVE  New!GuardInv'
BY DEF New!GuardInv, Old!NoOrphan, New!Guarded, New!LiveCopy, shared,
       New!ProvisionPcs, New!DeletePcs

LEMMA OneLeads ==
  ASSUME LeaderElect, RolloutTypeOK, Exclusive, RolloutNext PROVE Exclusive'
<1>1. \/ lease' = lease /\ \A p \in Pods : Running(p)' => Running(p)
      \/ \E p \in Pods : lease = NoPod /\ lease' = p
                           /\ \A q \in Pods \ {p} : Running(q)' => Running(q)
      \/ ~Running(lease) /\ UNCHANGED stage
  BY DEF RolloutNext, PodSteps, Startup, CheckAzureEnvironment, ValidateAzureConnectivity,
         Lead, Restart, Crash, Update, Retire, LeaseExpires, Running, RolloutTypeOK, Pods
<1> QED BY <1>1, RolloutAssumption DEF Exclusive, Running, Pods

(* While nobody reconciles, no cluster appears and no finalizer goes.         *)
LEMMA Unattended ==
  ASSUME SharedType, Old!NoOrphan, World \/ ChangesCR PROVE Old!NoOrphan'
<1>1. CASE World
  <2>1. cr' = cr /\ (aks.state = "Absent" => aks' = aks)
    BY <1>1 DEF World, Old!AKSProgress, Old!CollectSecret, Old!PortalChange,
                Old!SecretDeleted, Old!InProgress
  <2> QED BY <2>1 DEF Old!NoOrphan
<1>2. CASE ChangesCR
  <2>1. aks' = aks
    BY <1>2 DEF ChangesCR, Old!EndForegroundDeletion, Old!UserEdit, Old!UserDelete,
                Old!UserRecreate
  <2>2. cr.exists /\ cr.finalizer => cr'.exists /\ cr'.finalizer
    BY <1>2 DEF ChangesCR, Old!EndForegroundDeletion, Old!UserEdit, Old!UserDelete,
                Old!UserRecreate, Old!Stored, SharedType, Old!CRs
  <2> QED BY <2>1, <2>2 DEF Old!NoOrphan
<1> QED BY <1>1, <1>2

LEMMA HandoverStep ==
  ASSUME LeaderElect, Truthful, TypeOK, Handover, Next PROVE Handover'
<1>1. RolloutTypeOK /\ SharedType /\ Old!TypeOK /\ New!TypeOK
  BY TypeParts DEF TypeOK
<1>2. ~(Running("old") /\ Running("new"))
  BY DEF Handover, Exclusive, Pods
<1>3. Running("old") => Old!GuardInv /\ pc2 = "idle"
  BY <1>2 DEF Handover, OldSafe, NewSafe
<1>4. Running("new") => New!GuardInv /\ pc1 = "idle"
  BY <1>2 DEF Handover, OldSafe, NewSafe
<1>5. ASSUME UNCHANGED pods
      PROVE  Exclusive' /\ Running("old")' = Running("old") /\ Running("new")' = Running("new")
  BY <1>5 DEF Handover, Exclusive, pods, Running
<1>6. ASSUME Running("old"), UNCHANGED pods, pc2' = pc2, Old!GuardInv' PROVE Handover'
  BY <1>2, <1>3, <1>5, <1>6, GuardsAgainstOrphans DEF Handover, OldSafe, NewSafe
<1>7. ASSUME Running("new"), UNCHANGED pods, pc1' = pc1, New!GuardInv' PROVE Handover'
  BY <1>2, <1>4, <1>5, <1>7, GuardsAgainstOrphans DEF Handover, OldSafe, NewSafe
<1>8. CASE OldReconciles
  BY <1>1, <1>3, <1>6, <1>8, OldReconciled DEF OldReconciles, pass2
<1>9. CASE NewReconciles
  BY <1>1, <1>4, <1>7, <1>9, NewReconciled DEF NewReconciles, pass1
<1>10. CASE OldSyncs
  BY <1>1, <1>3, <1>6, <1>10, OldObserved DEF OldSyncs, Seen1, pass2
<1>11. CASE NewSyncs
  BY <1>1, <1>4, <1>7, <1>11, NewObserved DEF NewSyncs, Seen2, pass1
<1>12. CASE Deployed(RolloutNext)
  <2>1. Exclusive'
    BY <1>1, <1>12, OneLeads DEF Deployed, Handover
  <2>2. Old!NoOrphan'
    BY <1>12 DEF Deployed, shared, Handover, Old!NoOrphan
  <2>3. OldSafe'
    <3>1. CASE Running("old") = Running("old")'
      BY <1>12, <3>1
         DEF Deployed, Follows, shared, Handover, OldSafe, Old!GuardInv, Old!Guarded,
             Old!LiveCopy
    <3>2. CASE Running("old") # Running("old")'
      BY <1>12, <3>2, FreshStartOld DEF Deployed, Follows, Handover, OldSafe
    <3> QED BY <3>1, <3>2
  <2>4. NewSafe'
    <3>1. CASE Running("new") = Running("new")'
      BY <1>12, <3>1
         DEF Deployed, Follows, shared, Handover, NewSafe, New!GuardInv, New!Guarded,
             New!LiveCopy
    <3>2. CASE Running("new") # Running("new")'
      BY <1>12, <3>2, FreshStartNew DEF Deployed, Follows, Handover, NewSafe
    <3> QED BY <3>1, <3>2
  <2> QED BY <2>1, <2>2, <2>3, <2>4 DEF Handover
<1>13. CASE Outside
  <2>1. UNCHANGED <<pods, pass2, pc1>>
    BY <1>13 DEF Outside, World, ChangesCR, Old!locals, Old!AKSProgress, Old!CollectSecret,
         Old!PortalChange, Old!SecretDeleted, Old!EndForegroundDeletion, Old!UserEdit,
         Old!UserDelete, Old!UserRecreate
  <2>2. CASE Running("old")
    BY <1>1, <1>3, <1>6, <1>13, <2>1, <2>2, OldObserved DEF Outside, Seen1, pass2
  <2>3. CASE Running("new")
    BY <1>1, <1>4, <1>7, <1>13, <2>1, <2>3, NewObserved DEF Outside, Seen2
  <2>4. CASE ~Running("old") /\ ~Running("new")
    <3>1. Old!NoOrphan'
      BY <1>1, <1>13, Unattended DEF Outside, Handover
    <3> QED BY <1>5, <2>1, <2>4, <3>1 DEF Handover, OldSafe, NewSafe, pass2
  <2> QED BY <2>2, <2>3, <2>4
<1> QED BY <1>8, <1>9, <1>10, <1>11, <1>12, <1>13 DEF Next, Reconciles, Syncs

LEMMA HandoverStutter == ASSUME Handover, UNCHANGED vars PROVE Handover'
BY DEF Handover, Exclusive, OldSafe, NewSafe, vars, rolloutVars, pods, shared, pass1, pass2,
       Running, Old!NoOrphan, Old!GuardInv, Old!Guarded, Old!LiveCopy,
       New!GuardInv, New!Guarded, New!LiveCopy

LEMMA HandoverInit == ASSUME Init PROVE LeaderElect => Handover
<1>1. Old!NoOrphan /\ pc1 = "idle" /\ pc2 = "idle"
  BY DEF Init, Old!Init, Old!NoOrphan
<1>2. Running("old") /\ ~Running("new") /\ (LeaderElect => lease = "old")
  BY DEF Init, RolloutInit, Running, At, Pods
<1>3. Old!GuardInv
  BY DEF Init, Old!Init, Old!GuardInv, Old!Guarded, Old!LiveCopy, Old!NewCR, Old!NoCR,
         Old!ProvisionPcs, Old!DeletePcs
<1> QED BY <1>1, <1>2, <1>3 DEF Handover, Exclusive, OldSafe, NewSafe, Pods

(* With leader election, whoever runs holds the lease, starts from what is    *)
(* stored, and its predecessor has left it no pass to finish: the inductive   *)
(* invariant of an update or a crash of the operator.                         *)
THEOREM HandoverInvariant == ASSUME Truthful PROVE Spec => []HandoverInv
<1>1. Init => HandoverInv
  BY HandoverInit, HandoverIs DEF HandoverInv
<1>2. TypeOK /\ HandoverInv /\ [Next]_vars => HandoverInv'
  <2> SUFFICES ASSUME TypeOK, HandoverInv, [Next]_vars PROVE HandoverInv'
    OBVIOUS
  <2>1. CASE LeaderElect
    <3>1. Handover'
      BY <2>1, HandoverIs, HandoverStep, HandoverStutter
    <3> QED BY <3>1 DEF HandoverInv, Handover, Exclusive, OldSafe, NewSafe
  <2>2. CASE ~LeaderElect
    BY <2>2 DEF HandoverInv
  <2> QED BY <2>1, <2>2
<1> QED BY <1>1, <1>2, TypeCorrect, PTL DEF Spec

(* With leader election, an update or a crash of the operator at any moment   *)
(* leaves no cluster without the finalizer that guards it, and each pass acts *)
(* for the CR it read.                                                        *)
THEOREM ElectedOperatorsActAsOne == ASSUME Truthful PROVE Spec => []ElectedActAsOne
<1>1. HandoverInv => ElectedActAsOne
  <2>1. Old!GuardInv => Old!PassActsForItsCR
    BY DEF Old!GuardInv, Old!PassActsForItsCR, Old!Guarded
  <2>2. New!GuardInv => New!PassActsForItsCR
    BY DEF New!GuardInv, New!PassActsForItsCR, New!Guarded
  <2>3. pc1 = "idle" => Old!PassActsForItsCR
    BY DEF Old!PassActsForItsCR, Old!ProvisionPcs, Old!DeletePcs
  <2>4. pc2 = "idle" => New!PassActsForItsCR
    BY DEF New!PassActsForItsCR, New!ProvisionPcs, New!DeletePcs
  <2> QED BY <2>1, <2>2, <2>3, <2>4 DEF HandoverInv, ElectedActAsOne
<1> QED BY <1>1, HandoverInvariant, PTL

-----------------------------------------------------------------------------
(* The two operators implement ClusterLifecycle                               *)

Provider == IF aks.state = "Absent" THEN "absent" ELSE "present"

(* A step that leaves alone all that ClusterLifecycle sees, and one that it   *)
(* allows.                                                                    *)
Stutters == Old!Declaration' = Old!Declaration /\ Provider' = Provider
Implements == Lifecycle!Next \/ Stutters

LEMMA OldImplementsIs == OldP!Implements => Implements
BY DEF OldP!Implements, OldP!Stutters, OldP!Provider, Implements, Stutters, Provider,
       Old!Declaration, OldP!Declaration, Lifecycle!Next, OldP!Lifecycle!Next,
       Lifecycle!Declare, OldP!Lifecycle!Declare, Lifecycle!Withdraw, OldP!Lifecycle!Withdraw,
       Lifecycle!Guard, OldP!Lifecycle!Guard, Lifecycle!Leave, OldP!Lifecycle!Leave,
       Lifecycle!Provision, OldP!Lifecycle!Provision, Lifecycle!Destroy, OldP!Lifecycle!Destroy,
       Lifecycle!Release, OldP!Lifecycle!Release

LEMMA NewImplementsIs == NewP!Implements => Implements
BY DEF NewP!Implements, NewP!Stutters, NewP!Provider, Implements, Stutters, Provider,
       Old!Declaration, NewP!Declaration, Lifecycle!Next, NewP!Lifecycle!Next,
       Lifecycle!Declare, NewP!Lifecycle!Declare, Lifecycle!Withdraw, NewP!Lifecycle!Withdraw,
       Lifecycle!Guard, NewP!Lifecycle!Guard, Lifecycle!Leave, NewP!Lifecycle!Leave,
       Lifecycle!Provision, NewP!Lifecycle!Provision, Lifecycle!Destroy, NewP!Lifecycle!Destroy,
       Lifecycle!Release, NewP!Lifecycle!Release

LEMMA OldReconcileImplements ==
  ASSUME Truthful, Old!TypeOK, Old!GuardInv, Old!Reconcile PROVE Implements
<1>1. OldP!Implements
  BY OldInv, OldReconcile, OfOperatorsAssumption, OldP!ReconcileImplements
     DEF OldP!ReconcileImplements, OldP!OnlyAbsenceReadsAsAbsence, Truthful,
         OldP!Disruption, OldP!ErrorKind
<1> QED BY <1>1, OldImplementsIs

LEMMA NewReconcileImplements ==
  ASSUME Truthful, New!TypeOK, New!GuardInv, New!Reconcile PROVE Implements
<1>1. NewP!Implements
  BY NewInv, NewReconcile, OfOperatorsAssumption, NewP!ReconcileImplements
     DEF NewP!ReconcileImplements, NewP!OnlyAbsenceReadsAsAbsence, Truthful,
         NewP!Disruption, NewP!ErrorKind
<1> QED BY <1>1, NewImplementsIs

LEMMA OutsideImplements == ASSUME Old!TypeOK, Seen1 PROVE Implements
<1>1. OldP!Implements
  BY OldInv, OldEnvironment, OfOperatorsAssumption, OldP!EnvironmentImplements
     DEF OldP!EnvironmentImplements, OldP!Disruption, OldP!ErrorKind
<1> QED BY <1>1, OldImplementsIs

LEMMA SharedStutters == UNCHANGED <<cr, aks>> => Stutters
BY DEF Stutters, Provider, Old!Declaration

LEMMA StepImplements ==
  ASSUME LeaderElect, Truthful, TypeOK, Handover, Next PROVE Implements
<1>1. Old!TypeOK /\ New!TypeOK
  BY DEF TypeOK
<1>2. CASE OldReconciles
  BY <1>1, <1>2, OldReconcileImplements DEF OldReconciles, Handover, OldSafe
<1>3. CASE NewReconciles
  BY <1>1, <1>3, NewReconcileImplements DEF NewReconciles, Handover, NewSafe
<1>4. CASE Syncs
  BY <1>4, SharedStutters DEF Syncs, OldSyncs, NewSyncs, Old!CacheSync, New!CacheSync, Implements
<1>5. CASE Deployed(RolloutNext)
  BY <1>5, SharedStutters DEF Deployed, shared, Implements
<1>6. CASE Outside
  BY <1>1, <1>6, OutsideImplements DEF Outside, Seen1
<1> QED BY <1>2, <1>3, <1>4, <1>5, <1>6 DEF Next, Reconciles

(* With leader election, updates, crashes and handovers are invisible to the  *)
(* user: CR and cluster go through the lifecycle that one operator promises,  *)
(* whichever of the two does a step.                                          *)
THEOREM LifecycleRefinement ==
  ASSUME LeaderElect, Truthful PROVE Spec => KeepsLifecycle
<1>1. Init => Lifecycle!Init
  <2> SUFFICES ASSUME Init PROVE Lifecycle!Init
    OBVIOUS
  <2>1. PICK s \in Specs : cr = Old!NewCR(1, s)
    BY DEF Init, Old!Init
  <2>2. cr.exists /\ ~cr.deleting /\ ~cr.finalizer
    BY <2>1 DEF Old!NewCR, Old!NoCR
  <2> QED BY <2>2 DEF Init, Old!Init, Lifecycle!Init, Old!Declaration
<1>2. TypeOK /\ HandoverInv /\ [Next]_vars => [Lifecycle!Next]_<<Old!Declaration, Provider>>
  <2>1. UNCHANGED vars => Stutters
    BY SharedStutters DEF vars, shared
  <2>2. TypeOK /\ HandoverInv /\ Next => Implements
    BY StepImplements, HandoverIs
  <2> QED BY <2>1, <2>2 DEF Implements, Stutters
<1> QED BY <1>1, <1>2, TypeCorrect, HandoverInvariant, PTL
        DEF Spec, KeepsLifecycle, Lifecycle!Spec, Provider

-----------------------------------------------------------------------------
(* No CR is forgotten by those who run                                        *)

(* Of the operators that run.  Nothing is asked of their election: what one   *)
(* of them writes leaves a watch event due at the other.                      *)
Sched1 == Running("old") => OldP!ScheduleInv
Sched2 == Running("new") => NewP!ScheduleInv

LEMMA OldScheduled ==
  ASSUME Old!TypeOK, OldP!ScheduleInv, Old!Reconcile \/ Seen1 PROVE OldP!ScheduleInv'
<1>1. CASE Old!Reconcile
  BY <1>1, OldInv, OldReconcile, OfOperatorsAssumption, OldP!ScheduleReconcile
     DEF OldP!ScheduleReconcile, OldP!Disruption, OldP!ErrorKind
<1>2. CASE Seen1
  BY <1>2, OldInv, OldEnvironment, OfOperatorsAssumption, OldP!ScheduleEnvironment
     DEF OldP!ScheduleEnvironment, OldP!Disruption, OldP!ErrorKind
<1> QED BY <1>1, <1>2

LEMMA NewScheduled ==
  ASSUME New!TypeOK, NewP!ScheduleInv, New!Reconcile \/ Seen2 PROVE NewP!ScheduleInv'
<1>1. CASE New!Reconcile
  BY <1>1, NewInv, NewReconcile, OfOperatorsAssumption, NewP!ScheduleReconcile
     DEF NewP!ScheduleReconcile, NewP!Disruption, NewP!ErrorKind
<1>2. CASE Seen2
  BY <1>2, NewInv, NewEnvironment, OfOperatorsAssumption, NewP!ScheduleEnvironment
     DEF NewP!ScheduleEnvironment, NewP!Disruption, NewP!ErrorKind
<1> QED BY <1>1, <1>2

(* Whatever one operator changes makes the copies of the other old.           *)
LEMMA OldWrote ==
  ASSUME Old!Reconcile, cr' # cr PROVE Wrote(pc1, obj1, fresh1, fresh1')
<1>1. OldP!WritesCR
  BY OldReconcile, OfOperatorsAssumption, OldP!OnlyWritesChangeCR
     DEF OldP!OnlyWritesChangeCR, OldP!Disruption, OldP!ErrorKind
<1> QED BY <1>1 DEF OldP!WritesCR, OldP!IsCurrent, Wrote, WritePcs

LEMMA NewWrote ==
  ASSUME New!Reconcile, cr' # cr PROVE Wrote(pc2, obj2, fresh2, fresh2')
<1>1. NewP!WritesCR
  BY NewReconcile, OfOperatorsAssumption, NewP!OnlyWritesChangeCR
     DEF NewP!OnlyWritesChangeCR, NewP!Disruption, NewP!ErrorKind
<1> QED BY <1>1 DEF NewP!WritesCR, NewP!IsCurrent, Wrote, WritePcs

LEMMA OldOvertaken ==
  ASSUME OldP!ScheduleInv, UNCHANGED pass1, fresh1' = {} \/ (fresh1' = fresh1 /\ cr' = cr)
  PROVE  OldP!ScheduleInv'
BY DEF OldP!ScheduleInv, OldP!Needed, OldP!DeletePcs, pass1

LEMMA NewOvertaken ==
  ASSUME NewP!ScheduleInv, UNCHANGED pass2, fresh2' = {} \/ (fresh2' = fresh2 /\ cr' = cr)
  PROVE  NewP!ScheduleInv'
BY DEF NewP!ScheduleInv, NewP!Needed, NewP!DeletePcs, pass2

LEMMA ScheduledStep == ASSUME TypeOK, Sched1, Sched2, Next PROVE Sched1' /\ Sched2'
<1>1. Old!TypeOK /\ New!TypeOK
  BY DEF TypeOK
<1>2. UNCHANGED pods => Running("old")' = Running("old") /\ Running("new")' = Running("new")
  BY DEF pods, Running
<1>3. CASE OldReconciles
  <2>1. Sched1'
    BY <1>1, <1>2, <1>3, OldScheduled DEF OldReconciles, Sched1
  <2>2. fresh2' = {} \/ (fresh2' = fresh2 /\ cr' = cr)
    BY <1>3, OldWrote DEF OldReconciles
  <2> QED BY <1>2, <1>3, <2>1, <2>2, NewOvertaken DEF OldReconciles, Sched2
<1>4. CASE NewReconciles
  <2>1. Sched2'
    BY <1>1, <1>2, <1>4, NewScheduled DEF NewReconciles, Sched2
  <2>2. fresh1' = {} \/ (fresh1' = fresh1 /\ cr' = cr)
    BY <1>4, NewWrote DEF NewReconciles
  <2> QED BY <1>2, <1>4, <2>1, <2>2, OldOvertaken DEF NewReconciles, Sched1
<1>5. CASE OldSyncs
  <2>1. Sched1'
    BY <1>1, <1>2, <1>5, OldScheduled DEF OldSyncs, Seen1, Sched1
  <2> QED BY <1>2, <1>5, <2>1, NewOvertaken DEF OldSyncs, Old!CacheSync, Sched2
<1>6. CASE NewSyncs
  <2>1. Sched2'
    BY <1>1, <1>2, <1>6, NewScheduled DEF NewSyncs, Seen2, Sched2
  <2> QED BY <1>2, <1>6, <2>1, OldOvertaken DEF NewSyncs, New!CacheSync, Sched1
<1>7. CASE Deployed(RolloutNext)
  <2>1. Sched1'
    <3>1. CASE Running("old") = Running("old")'
      BY <1>7, <3>1, OldOvertaken DEF Deployed, Follows, shared, pass1, Sched1
    <3>2. CASE Running("old") # Running("old")'
      BY <1>7, <3>2 DEF Deployed, Follows, shared, Sched1, OldP!ScheduleInv, OldP!Needed,
                        OldP!DeletePcs
    <3> QED BY <3>1, <3>2
  <2>2. Sched2'
    <3>1. CASE Running("new") = Running("new")'
      BY <1>7, <3>1, NewOvertaken DEF Deployed, Follows, shared, pass2, Sched2
    <3>2. CASE Running("new") # Running("new")'
      BY <1>7, <3>2 DEF Deployed, Follows, shared, Sched2, NewP!ScheduleInv, NewP!Needed,
                        NewP!DeletePcs
    <3> QED BY <3>1, <3>2
  <2> QED BY <2>1, <2>2
<1>8. CASE Outside
  BY <1>1, <1>2, <1>8, OldScheduled, NewScheduled
     DEF Outside, Seen1, Seen2, pass2, Sched1, Sched2
<1> QED BY <1>3, <1>4, <1>5, <1>6, <1>7, <1>8 DEF Next, Reconciles, Syncs

(* Whoever runs, elected or not, knows of a CR that needs the operator: also  *)
(* after a handover, and when two operators write the CR past each other.     *)
THEOREM WorkScheduledTheorem == Spec => []WorkScheduled
<1>1. Init => Sched1 /\ Sched2
  <2>1. Init => ~Running("new")
    BY DEF Init, RolloutInit, Running, At, Pods
  <2>2. Init => OldP!ScheduleInv
    BY DEF Init, Old!Init, OldP!ScheduleInv
  <2> QED BY <2>1, <2>2 DEF Sched1, Sched2
<1>2. TypeOK /\ Sched1 /\ Sched2 /\ [Next]_vars => Sched1' /\ Sched2'
  <2>1. Sched1 /\ Sched2 /\ UNCHANGED vars => Sched1' /\ Sched2'
    BY OldOvertaken, NewOvertaken
       DEF Sched1, Sched2, vars, rolloutVars, pods, shared, Running
  <2> QED BY <2>1, ScheduledStep
<1>3. Sched1 /\ Sched2 => WorkScheduled
  BY DEF Sched1, Sched2, WorkScheduled, Old!WorkScheduled, New!WorkScheduled,
         OldP!ScheduleInv, NewP!ScheduleInv, OldP!Needed, NewP!Needed
<1> QED BY <1>1, <1>2, <1>3, TypeCorrect, PTL DEF Spec

-----------------------------------------------------------------------------
(* What secret and annotation claim is backed, whoever wrote it               *)

Records1 ==
  OldP!FirstInv /\ OldP!AccessInv /\ (OldP!ClusterKept => OldP!AnnotationInv)
Records2 ==
  NewP!FirstInv /\ NewP!AccessInv /\ (NewP!ClusterKept => NewP!AnnotationInv)

(* What a step of one operator leaves the other to rely on: no deletion is    *)
(* undone, and no credential taken from the secret that the other has built   *)
(* on.                                                                        *)
Considerate ==
  OldP!FirstOfItsName' =>
    /\ OldP!FirstOfItsName /\ (OldP!Live' => OldP!Live)
    /\ OldP!Live' =>
         /\ secret.kubeconfig # 0 => secret'.kubeconfig # 0
         /\ OldP!ClusterKept /\ secret.uid # 0 => secret'.uid = secret.uid

LEMMA OldRecords ==
  ASSUME OldP!SecretKept, Old!TypeOK, Records1, Old!Reconcile \/ Seen1
  PROVE  Records1' /\ Considerate
<1>1. OldP!Next /\ OldP!TypeOK
  BY OldInv, OldReconcile, OldEnvironment DEF OldP!Next
<1>2. OldP!FirstInv'
  BY <1>1, OfOperatorsAssumption, OldP!FirstReconcile, OldP!FirstEnvironment
     DEF Records1, OldP!Next, OldP!FirstReconcile, OldP!FirstEnvironment,
         OldP!Disruption, OldP!ErrorKind
<1>3. OldP!AccessInv'
  BY <1>1, OfOperatorsAssumption, OldP!AccessStep
     DEF Records1, OldP!AccessStep, OldP!Disruption, OldP!ErrorKind
<1>4. OldP!ClusterKept => OldP!AnnotationInv'
  BY <1>1, OfOperatorsAssumption, OldP!AnnotationStep
     DEF Records1, OldP!AnnotationStep, OldP!Disruption, OldP!ErrorKind
<1>5. OldP!FirstOfItsName' => OldP!FirstOfItsName /\ (OldP!Live' => OldP!Live)
  BY <1>1, OfOperatorsAssumption, OldP!NameStep
     DEF Records1, OldP!NameStep, OldP!Disruption, OldP!ErrorKind
<1>6. OldP!FirstOfItsName' /\ OldP!Live' =>
        /\ secret.kubeconfig # 0 => secret'.kubeconfig # 0
        /\ OldP!ClusterKept /\ secret.uid # 0 => secret'.uid = secret.uid
  BY <1>1, OfOperatorsAssumption, OldP!CredentialsStay
     DEF Records1, OldP!CredentialsStay, OldP!Disruption, OldP!ErrorKind
<1> QED BY <1>2, <1>3, <1>4, <1>5, <1>6
        DEF Records1, Considerate, OldP!FirstOfItsName, NewP!FirstOfItsName,
            OldP!Live, NewP!Live, OldP!ClusterKept, NewP!ClusterKept

LEMMA OldRelies ==
  ASSUME Records1, Records2', Considerate, UNCHANGED pass1 PROVE Records1'
<1> USE DEF Records1, Records2, Considerate, pass1, OldP!FirstOfItsName, NewP!FirstOfItsName,
            OldP!Live, NewP!Live, OldP!ClusterKept, NewP!ClusterKept
<1>1. OldP!FirstInv'
  BY DEF OldP!FirstInv, NewP!FirstInv, OldP!NoSecret, NewP!NoSecret,
         OldP!DeletePcs, NewP!DeletePcs
<1>2. OldP!AccessInv'
  BY DEF OldP!AccessInv, NewP!AccessInv
<1>3. OldP!ClusterKept => OldP!AnnotationInv'
  BY DEF OldP!AnnotationInv, NewP!AnnotationInv
<1> QED BY <1>1, <1>2, <1>3

LEMMA OldRecordsFollow ==
  ASSUME Old!TypeOK, Records1, UNCHANGED shared,
         \/ UNCHANGED pass1
         \/ /\ cache1' \in {cr, Old!NoCR} /\ pc1' = "idle" /\ obj1' = Old!NoCR
  PROVE  Records1'
<1> USE DEF Records1, OldP!FirstOfItsName, OldP!Live, OldP!ClusterKept, shared, pass1
<1>1. /\ ~Old!NoCR.exists /\ Old!NoCR.annUID = 0
  BY DEF Old!NoCR
<1>2. OldP!FirstInv'
  BY <1>1 DEF OldP!FirstInv, OldP!NoSecret, OldP!DeletePcs
<1>3. OldP!AccessInv'
  BY DEF OldP!AccessInv
<1>4. OldP!ClusterKept => OldP!AnnotationInv'
  BY <1>1 DEF OldP!AnnotationInv
<1> QED BY <1>2, <1>3, <1>4

LEMMA NewRecords ==
  ASSUME NewP!SecretKept, New!TypeOK, Records2, New!Reconcile \/ Seen2
  PROVE  Records2' /\ Considerate
<1>1. NewP!Next /\ NewP!TypeOK
  BY NewInv, NewReconcile, NewEnvironment DEF NewP!Next
<1>2. NewP!FirstInv'
  BY <1>1, OfOperatorsAssumption, NewP!FirstReconcile, NewP!FirstEnvironment
     DEF Records2, NewP!Next, NewP!FirstReconcile, NewP!FirstEnvironment,
         NewP!Disruption, NewP!ErrorKind
<1>3. NewP!AccessInv'
  BY <1>1, OfOperatorsAssumption, NewP!AccessStep
     DEF Records2, NewP!AccessStep, NewP!Disruption, NewP!ErrorKind
<1>4. NewP!ClusterKept => NewP!AnnotationInv'
  BY <1>1, OfOperatorsAssumption, NewP!AnnotationStep
     DEF Records2, NewP!AnnotationStep, NewP!Disruption, NewP!ErrorKind
<1>5. NewP!FirstOfItsName' => NewP!FirstOfItsName /\ (NewP!Live' => NewP!Live)
  BY <1>1, OfOperatorsAssumption, NewP!NameStep
     DEF Records2, NewP!NameStep, NewP!Disruption, NewP!ErrorKind
<1>6. NewP!FirstOfItsName' /\ NewP!Live' =>
        /\ secret.kubeconfig # 0 => secret'.kubeconfig # 0
        /\ NewP!ClusterKept /\ secret.uid # 0 => secret'.uid = secret.uid
  BY <1>1, OfOperatorsAssumption, NewP!CredentialsStay
     DEF Records2, NewP!CredentialsStay, NewP!Disruption, NewP!ErrorKind
<1> QED BY <1>2, <1>3, <1>4, <1>5, <1>6
        DEF Records2, Considerate, OldP!FirstOfItsName, NewP!FirstOfItsName,
            OldP!Live, NewP!Live, OldP!ClusterKept, NewP!ClusterKept

LEMMA NewRelies ==
  ASSUME Records2, Records1', Considerate, UNCHANGED pass2 PROVE Records2'
<1> USE DEF Records1, Records2, Considerate, pass2, OldP!FirstOfItsName, NewP!FirstOfItsName,
            OldP!Live, NewP!Live, OldP!ClusterKept, NewP!ClusterKept
<1>1. NewP!FirstInv'
  BY DEF OldP!FirstInv, NewP!FirstInv, OldP!NoSecret, NewP!NoSecret,
         OldP!DeletePcs, NewP!DeletePcs
<1>2. NewP!AccessInv'
  BY DEF OldP!AccessInv, NewP!AccessInv
<1>3. NewP!ClusterKept => NewP!AnnotationInv'
  BY DEF OldP!AnnotationInv, NewP!AnnotationInv
<1> QED BY <1>1, <1>2, <1>3

LEMMA NewRecordsFollow ==
  ASSUME New!TypeOK, Records2, UNCHANGED shared,
         \/ UNCHANGED pass2
         \/ /\ cache2' \in {cr, Old!NoCR} /\ pc2' = "idle" /\ obj2' = Old!NoCR
  PROVE  Records2'
<1> USE DEF Records2, NewP!FirstOfItsName, NewP!Live, NewP!ClusterKept, shared, pass2
<1>1. /\ ~Old!NoCR.exists /\ Old!NoCR.annUID = 0
  BY DEF Old!NoCR
<1>2. NewP!FirstInv'
  BY <1>1 DEF NewP!FirstInv, NewP!NoSecret, NewP!DeletePcs
<1>3. NewP!AccessInv'
  BY DEF NewP!AccessInv
<1>4. NewP!ClusterKept => NewP!AnnotationInv'
  BY <1>1 DEF NewP!AnnotationInv
<1> QED BY <1>2, <1>3, <1>4

LEMMA RecordsStep ==
  ASSUME OldP!SecretKept, TypeOK, Records1, Records2, Next PROVE Records1' /\ Records2'
<1>1. Old!TypeOK /\ New!TypeOK /\ NewP!SecretKept
  BY DEF TypeOK, OldP!SecretKept, NewP!SecretKept
<1>2. CASE OldReconciles
  BY <1>1, <1>2, OldRecords, NewRelies DEF OldReconciles
<1>3. CASE NewReconciles
  BY <1>1, <1>3, NewRecords, OldRelies DEF NewReconciles
<1>4. CASE OldSyncs
  <2>1. UNCHANGED shared
    BY <1>4 DEF OldSyncs, Old!CacheSync, shared
  <2> QED BY <1>1, <1>4, <2>1, OldRecords, NewRecordsFollow DEF OldSyncs, Seen1
<1>5. CASE NewSyncs
  <2>1. UNCHANGED shared
    BY <1>5 DEF NewSyncs, New!CacheSync, shared
  <2> QED BY <1>1, <1>5, <2>1, NewRecords, OldRecordsFollow DEF NewSyncs, Seen2
<1>6. CASE Deployed(RolloutNext)
  <2>1. Records1'
    BY <1>1, <1>6, OldRecordsFollow DEF Deployed, Follows, pass1
  <2>2. Records2'
    BY <1>1, <1>6, NewRecordsFollow DEF Deployed, Follows, pass2
  <2> QED BY <2>1, <2>2
<1>7. CASE Outside
  BY <1>1, <1>7, OldRecords, NewRecords DEF Outside, Seen1, Seen2
<1> QED BY <1>2, <1>3, <1>4, <1>5, <1>6, <1>7 DEF Next, Reconciles, Syncs

LEMMA RecordsInvariant ==
  ASSUME OldP!SecretKept PROVE Spec => [](Records1 /\ Records2)
<1>1. Init => Records1 /\ Records2
  <2> SUFFICES ASSUME Init PROVE Records1 /\ Records2
    OBVIOUS
  <2>1. PICK s \in Specs : cr = Old!NewCR(1, s)
    BY DEF Init, Old!Init
  <2>2. /\ cr.uid = 1 /\ cr.annUID = 0 /\ ~Old!NoCR.exists /\ Old!NoCR.annUID = 0
        /\ ~Old!NoSecret.exists /\ ~Old!NoSecret.access /\ Old!NoSecret.uid = 0
    BY <2>1 DEF Old!NewCR, Old!NoCR, Old!NoSecret
  <2>3. OldP!NoSecret = Old!NoSecret /\ NewP!NoSecret = Old!NoSecret
    BY DEF OldP!NoSecret, NewP!NoSecret, Old!NoSecret
  <2>4. Records1
    BY <2>2, <2>3 DEF Init, Old!Init, Records1, OldP!FirstInv, OldP!AccessInv,
                      OldP!AnnotationInv, OldP!DeletePcs
  <2>5. Records2
    BY <2>2, <2>3 DEF Init, Old!Init, Records2, NewP!FirstInv, NewP!AccessInv,
                      NewP!AnnotationInv, NewP!DeletePcs
  <2> QED BY <2>4, <2>5
<1>2. TypeOK /\ Records1 /\ Records2 /\ [Next]_vars => Records1' /\ Records2'
  <2>1. TypeOK /\ Records1 /\ Records2 /\ UNCHANGED vars => Records1' /\ Records2'
    BY OldRecordsFollow, NewRecordsFollow DEF TypeOK, vars
  <2> QED BY <2>1, RecordsStep
<1> QED BY <1>1, <1>2, TypeCorrect, PTL DEF Spec

(* The secret never claims access without holding a kubeconfig, and the       *)
(* annotation names no UID but the one in the secret, also while two          *)
(* operators that are not elected store what they found past each other,      *)
(* unless someone deletes the secret or, for the UID, the cluster.            *)
THEOREM RecordsBackedTheorem ==
  ASSUME OldP!SecretKept, OldP!ClusterKept
  PROVE  Spec => [](Old!AccessImpliesKubeconfig /\ Old!AnnotationBacked)
<1>1. Records1 => Old!AccessImpliesKubeconfig /\ Old!AnnotationBacked
  BY DEF Records1, OldP!AccessInv, OldP!AnnotationInv,
         Old!AccessImpliesKubeconfig, Old!AnnotationBacked, Old!Live, OldP!Live,
         Old!FirstOfItsName, OldP!FirstOfItsName
<1> QED BY <1>1, RecordsInvariant, PTL

-----------------------------------------------------------------------------
(* An update leaves a pod that can work                                       *)

(* Startup tells usable settings from others: by asking Azure, unless that is *)
(* switched off for settings that would pass it.                              *)
StartupTells ==
  \A s \in Settings : Accepts(s) /\ "AZURE_VALIDATE_CONNECTIVITY" \notin s => Usable(s)

(* The old pod was set up well and is only given up for a new one that got    *)
(* through its startup, and whose settings are never changed again.           *)
UpdateInv ==
  /\ \A p \in Pods : settings[p] \in Settings
  /\ Usable(settings["old"])
  /\ Ready("new") \/ At("old", "none") => ~At("new", "none") /\ Usable(settings["new"])

LEMMA UpdateStep ==
  ASSUME StartupTells, RolloutTypeOK, UpdateInv, RolloutNext PROVE UpdateInv'
<1>0. /\ stage \in [Pods -> {"none", "checking", "validating", "started", "running", "exited"}]
      /\ settings \in [Pods -> SUBSET Setting] /\ "old" \in Pods /\ "new" \in Pods
  BY DEF RolloutTypeOK, Pods
<1>1. ASSUME NEW p \in Pods, NEW s, Goto(p, s), UNCHANGED settings,
             s # "none", s \in {"started", "running"} => Usable(settings[p])
      PROVE  UpdateInv'
  BY <1>0, <1>1 DEF UpdateInv, Ready, Pods
<1>2. ASSUME NEW p \in Pods, CheckAzureEnvironment(p) PROVE UpdateInv'
  <2>1. CASE ~Accepts(settings[p])
    BY <1>1, <1>2, <2>1 DEF CheckAzureEnvironment
  <2>2. CASE Accepts(settings[p]) /\ "AZURE_VALIDATE_CONNECTIVITY" \in settings[p]
    BY <1>1, <1>2, <2>2 DEF CheckAzureEnvironment
  <2>3. CASE Accepts(settings[p]) /\ "AZURE_VALIDATE_CONNECTIVITY" \notin settings[p]
    BY <1>1, <1>2, <2>3 DEF CheckAzureEnvironment, StartupTells, UpdateInv
  <2> QED BY <2>1, <2>2, <2>3
<1>3. ASSUME NEW p \in Pods, ValidateAzureConnectivity(p) PROVE UpdateInv'
  BY <1>1, <1>3 DEF ValidateAzureConnectivity
<1>4. ASSUME NEW p \in Pods, Lead(p) PROVE UpdateInv'
  <2>1. Usable(settings[p])
    BY <1>4 DEF Lead, UpdateInv, Ready, Pods
  <2> QED BY <1>1, <1>4, <2>1 DEF Lead
<1>5. ASSUME NEW p \in Pods, Restart(p) \/ Crash(p) PROVE UpdateInv'
  BY <1>1, <1>5 DEF Restart, Crash
<1>6. CASE Update
  BY <1>0, <1>6 DEF Update, UpdateInv, Ready, Pods
<1>7. CASE Retire
  BY <1>0, <1>7 DEF Retire, UpdateInv, Ready, Pods
<1>8. CASE LeaseExpires
  BY <1>8 DEF LeaseExpires, UpdateInv, Ready
<1> QED BY <1>2, <1>3, <1>4, <1>5, <1>6, <1>7, <1>8 DEF RolloutNext, PodSteps, Startup

(* Whatever settings an update brings, and whatever crashes or fails while it *)
(* is under way, a pod with usable settings stays deployed: the startup check *)
(* holds up the update that would replace the last of them.                   *)
THEOREM UsablePodTheorem == ASSUME StartupTells PROVE Spec => []UsablePodRemains
<1>1. Init => UpdateInv
  BY DEF Init, RolloutInit, UpdateInv, Ready, Pods
<1>2. TypeOK /\ UpdateInv /\ [Next]_vars => UpdateInv'
  <2>1. UpdateInv /\ UNCHANGED pods => UpdateInv'
    BY DEF UpdateInv, pods, Ready
  <2>2. Next => RolloutNext \/ UNCHANGED pods
    BY DEF Next, Reconciles, OldReconciles, NewReconciles, Syncs, OldSyncs, NewSyncs,
           Deployed, Outside
  <2>3. UNCHANGED vars => UNCHANGED pods
    BY DEF vars, rolloutVars, pods
  <2> QED BY <2>1, <2>2, <2>3, UpdateStep DEF TypeOK
<1>3. UpdateInv => UsablePodRemains
  BY DEF UpdateInv, UsablePodRemains, Pods
<1> QED BY <1>1, <1>2, <1>3, TypeCorrect, PTL DEF Spec
=============================================================================
