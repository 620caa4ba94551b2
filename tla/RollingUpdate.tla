----------------------------- MODULE RollingUpdate -----------------------------
(* Two operators on one CR: the pods of OperatorRollout, in each of which,    *)
(* while it runs, a reconciler of KubernetesClusterController works.  They    *)
(* share the API server and Azure; each has a cache, a workqueue and a pass   *)
(* of its own.                                                                *)
EXTENDS OperatorRollout

CONSTANTS Specs, AzureErrors    \* as in KubernetesClusterController

VARIABLES
  cr, secret, aks,     \* the world both reconcilers see
  cache1, fresh1, queued1, pc1, obj1, reply1, inHand1,    \* the old operator's
  cache2, fresh2, queued2, pc2, obj2, reply2, inHand2     \* the new operator's

(* A failed startup is no disruption of a reconciler.                         *)
OfOperators == Disruptions \ {"startup"}

Old == INSTANCE KubernetesClusterController WITH
  Disruptions <- OfOperators, cache <- cache1, fresh <- fresh1, queued <- queued1,
  pc <- pc1, obj <- obj1, reply <- reply1, inHand <- inHand1

New == INSTANCE KubernetesClusterController WITH
  Disruptions <- OfOperators, cache <- cache2, fresh <- fresh2, queued <- queued2,
  pc <- pc2, obj <- obj2, reply <- reply2, inHand <- inHand2

ASSUME SharedAssumption ==
  /\ Specs \subseteq [version : Nat, replicas : Nat \ {0}] /\ Specs # {}
  /\ AzureErrors \subseteq Old!ErrorKind
  /\ OfOperators \subseteq Old!Disruption

shared == <<cr, secret, aks>>
pass1  == <<cache1, queued1, pc1, obj1, reply1, inHand1>>
pass2  == <<cache2, queued2, pc2, obj2, reply2, inHand2>>
vars   == <<rolloutVars, shared, pass1, fresh1, pass2, fresh2>>

-----------------------------------------------------------------------------
(* The API server has taken a write of an operator whose pass is at p with    *)
(* object o: every one gives the CR a new resourceVersion, and the copies of  *)
(* the other operator are old.  f and g are what "fresh" was and becomes.     *)
WritePcs == {"addFinalizer", "initStatus", "failStatus", "annotateUID", "annotateID",
             "writeStatus", "rewriteStatus", "markDeleting", "removeFinalizer"}

Wrote(p, o, f, g) ==
  /\ p \in WritePcs /\ ~(p = "annotateID" /\ o.annID)
  /\ cr.exists /\ "obj" \in f
  /\ Calm \/ g = {}

OldReconciles ==
  /\ Running("old") /\ Old!Reconcile
  /\ fresh2' = IF Wrote(pc1, obj1, fresh1, fresh1') THEN {} ELSE fresh2
  /\ UNCHANGED <<pods, pass2>>

NewReconciles ==
  /\ Running("new") /\ New!Reconcile
  /\ fresh1' = IF Wrote(pc2, obj2, fresh2, fresh2') THEN {} ELSE fresh1
  /\ UNCHANGED <<pods, pass1>>

OldSyncs == Running("old") /\ Old!CacheSync /\ UNCHANGED <<pods, pass2, fresh2>>
NewSyncs == Running("new") /\ New!CacheSync /\ UNCHANGED <<pods, pass1, fresh1>>

-----------------------------------------------------------------------------
(* Mutation of Follows: only watch events are handled, not the first list.    *)
FollowsUnlisted(p, cache, fresh, queued, pc, obj, reply, inHand) ==
  IF Running(p) = Running(p)'
  THEN UNCHANGED <<cache, fresh, queued, pc, obj, reply, inHand>>
  ELSE /\ cache' = IF Running(p)' THEN cr ELSE Old!NoCR
       /\ fresh' = IF Running(p)' THEN {"cache"} ELSE {}
       /\ queued' = FALSE
       /\ pc' = "idle" /\ obj' = Old!NoCR /\ reply' = Old!NoReply /\ inHand' = 0

(* What comes and goes with a process: the informers list the CRs when the    *)
(* controllers start, and nothing of a pass outlives its process.             *)
Follows(p, cache, fresh, queued, pc, obj, reply, inHand) ==
  IF Running(p) = Running(p)'
  THEN UNCHANGED <<cache, fresh, queued, pc, obj, reply, inHand>>
  ELSE /\ cache' = IF Running(p)' THEN cr ELSE Old!NoCR
       /\ fresh' = IF Running(p)' THEN {"cache"} ELSE {}
       /\ queued' = (Running(p)' /\ cr.exists)
       /\ pc' = "idle" /\ obj' = Old!NoCR /\ reply' = Old!NoReply /\ inHand' = 0

Deployed(step) ==
  /\ step /\ UNCHANGED shared
  /\ Follows("old", cache1, fresh1, queued1, pc1, obj1, reply1, inHand1)
  /\ Follows("new", cache2, fresh2, queued2, pc2, obj2, reply2, inHand2)

-----------------------------------------------------------------------------
(* Azure, the garbage collector and people act on the shared world.           *)
World == Old!AKSProgress \/ Old!CollectSecret \/ Old!PortalChange \/ Old!SecretDeleted
ChangesCR == Old!EndForegroundDeletion \/ Old!UserEdit \/ Old!UserDelete \/ Old!UserRecreate

Outside ==
  /\ \/ World /\ UNCHANGED fresh2
     \/ ChangesCR /\ fresh2' = {}
  /\ UNCHANGED <<pods, pass2>>

Init ==
  /\ RolloutInit /\ Old!Init
  /\ cache2 = Old!NoCR /\ fresh2 = {} /\ queued2 = FALSE
  /\ pc2 = "idle" /\ obj2 = Old!NoCR /\ reply2 = Old!NoReply /\ inHand2 = 0

Reconciles == OldReconciles \/ NewReconciles
Syncs == OldSyncs \/ NewSyncs

Next == Reconciles \/ Syncs \/ Deployed(RolloutNext) \/ Outside

(* The workers of the operator that leads, its watch, the kubelet for each    *)
(* pod, the Deployment and the lease, Azure and the garbage collector go on.  *)
Fairness ==
  /\ WF_vars(Reconciles) /\ WF_vars(Syncs)
  /\ \A p \in Pods : WF_vars(Deployed(PodSteps(p)))
  /\ WF_vars(Deployed(Retire \/ LeaseExpires)) /\ WF_vars(Outside /\ Calm)

Spec == Init /\ [][Next]_vars
FairSpec == Spec /\ Fairness
-----------------------------------------------------------------------------
(* Properties                                                                 *)

(* Every variable holds a value the program could hold.                       *)
TypeOK == RolloutTypeOK /\ Old!TypeOK /\ New!TypeOK

(* With leader election two operators are as good as one, whoever crashes and *)
(* takes over when: no cluster outlives the finalizer of its CR, and each     *)
(* pass acts for the CR it read.                                              *)
ElectedActAsOne ==
  LeaderElect => Old!NoOrphan /\ Old!PassActsForItsCR /\ New!PassActsForItsCR

(* Why ElectedActAsOne holds: whoever runs holds the lease and starts from    *)
(* what is stored, and nothing of a pass survives its process.                *)
HandoverInv ==
  LeaderElect =>
    /\ \A p \in Pods : Running(p) => lease = p
    /\ Old!NoOrphan
    /\ IF Running("old") THEN Old!GuardInv ELSE pc1 = "idle"
    /\ IF Running("new") THEN New!GuardInv ELSE pc2 = "idle"

(* A CR that needs the operator is known to whoever runs: queued, under       *)
(* reconciliation, or on its way by a watch event.  A process that starts     *)
(* lists the CRs; what its predecessor had queued is lost with it.            *)
WorkScheduled ==
  (Running("old") => Old!WorkScheduled) /\ (Running("new") => New!WorkScheduled)

(* Seen by the user, elected operators are one: what they do to CR and        *)
(* cluster together are steps of ClusterLifecycle, in its order.              *)
Lifecycle == INSTANCE ClusterLifecycle WITH
  declaration <- Old!Declaration,
  provider    <- IF aks.state = "Absent" THEN "absent" ELSE "present"

KeepsLifecycle == Lifecycle!Spec

(* An update never takes away the last pod that can work: the old one goes    *)
(* only after the new one has shown that its settings are of use.             *)
UsablePodRemains == \E p \in Pods : stage[p] # "none" /\ Usable(settings[p])

(* A rolling update never leaves the Deployment without an operator that can  *)
(* work: one with unusable settings exits before it is ready, so that the old *)
(* one stays.                                                                 *)
OperatorSurvives == <>[](\E p \in Pods : Running(p) /\ Usable(settings[p]))

(* Whoever leads when the disruptions are over, the CR turns Ready and AKS    *)
(* runs what it asks for: what one operator left half-done the next finishes. *)
Converges == Old!Converges

(* The credentials are stored in the end, whoever fetched them, also when     *)
(* somebody deletes the secret.                                               *)
CredentialsStored == Old!CredentialsStored

(* A deletion ends and leaves no secret, also when the operator that began it *)
(* was updated or crashed.  (A secret of a later CR of the same name aside.)  *)
DeletionEnds == cr.deleting ~> ~cr.exists /\ ~secret.exists

(* A property the code does not have.  "The workqueue serializes by object    *)
(* key, so this only parallelizes across distinct objects, never the same     *)
(* one"; to enable leader election "will ensure there is only one active      *)
(* controller manager".                                                       *)
NeverTheSameOne == pc1 = "idle" \/ pc2 = "idle"
=============================================================================
