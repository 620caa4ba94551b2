---------------------------- MODULE OperatorRollout ----------------------------
(* The pods of the operator's Deployment: what main does before it reconciles *)
(* anything, leader election where it is switched on, and an update of the    *)
(* Deployment, which starts a pod of the new version beside that of the old.  *)
EXTENDS Integers

CONSTANTS
  Settings,        \* the environments a pod may be given, see Setting
  HostIdentity,    \* whether the host has an identity: a managed one, or the CLI's
  LeaderElect,     \* whether --leader-elect is passed
  NoPod,           \* nobody holds the lease
  Disruptions,     \* kinds of disruption that may happen
  MaxDisruptions   \* how many happen in all

Pods == {"old", "new"}

(* The variables of the environment that startup looks at; the last one is    *)
(* in the set unless it is set to false.                                      *)
Setting == {"AZURE_SUBSCRIPTION_ID", "AZURE_TENANT_ID", "AZURE_CLIENT_ID",
            "AZURE_OBJECT_ID", "AZURE_CLIENT_SECRET", "AZURE_FEDERATED_TOKEN_FILE",
            "AZURE_VALIDATE_CONNECTIVITY"}

ASSUME RolloutAssumption ==
  /\ Settings \subseteq SUBSET Setting /\ Settings # {}
  /\ HostIdentity \in BOOLEAN /\ LeaderElect \in BOOLEAN /\ NoPod \notin Pods
  /\ MaxDisruptions \in Nat

VARIABLES
  stage,      \* where the process of each pod is
  settings,   \* the environment variables of each pod
  lease,      \* the pod that holds the lease
  budget      \* disruptions left

pods        == <<stage, settings, lease>>
rolloutVars == <<pods, budget>>

Calm == budget' = budget
Disturbed(k) == k \in Disruptions /\ budget > 0 /\ budget' = budget - 1

At(p, s) == stage[p] = s
Goto(p, s) == stage' = [stage EXCEPT ![p] = s]

(* mgr.Start serves the probes; it reconciles once it leads.                  *)
Ready(p) == stage[p] \in {"started", "running"}
Running(p) == At(p, "running")

-----------------------------------------------------------------------------
(* main                                                                       *)

(* CheckAzureEnvironment, which takes the deprecated name of the client too.  *)
HasClientCredentials(s) ==
  s \cap {"AZURE_CLIENT_ID", "AZURE_OBJECT_ID"} # {} /\ "AZURE_CLIENT_SECRET" \in s
Accepts(s) == /\ "AZURE_SUBSCRIPTION_ID" \in s
              /\ HasClientCredentials(s) => "AZURE_TENANT_ID" \in s

(* What DefaultAzureCredential makes of it: a service principal or a workload *)
(* identity that is named in full, or what the host has.                      *)
Usable(s) ==
  /\ "AZURE_SUBSCRIPTION_ID" \in s
  /\ \/ /\ {"AZURE_TENANT_ID", "AZURE_CLIENT_ID"} \subseteq s
        /\ s \cap {"AZURE_CLIENT_SECRET", "AZURE_FEDERATED_TOKEN_FILE"} # {}
     \/ HostIdentity

CheckAzureEnvironment(p) ==
  /\ At(p, "checking") /\ Calm
  /\ Goto(p, CASE ~Accepts(settings[p]) -> "exited"
               [] "AZURE_VALIDATE_CONNECTIVITY" \in settings[p] -> "validating"
               [] OTHER -> "started")
  /\ UNCHANGED <<settings, lease>>

(* Mutation of ValidateAzureConnectivity: its error is logged only.           *)
ValidateAzureConnectivityLogged(p) ==
  /\ At(p, "validating") /\ Goto(p, "started") /\ (Calm \/ Disturbed("startup"))
  /\ UNCHANGED <<settings, lease>>

(* ListVMSizes answers, or fails, or takes longer than 30 s or than the       *)
(* liveness probe, which nobody serves yet, is patient.                       *)
ValidateAzureConnectivity(p) ==
  /\ At(p, "validating")
  /\ \/ Usable(settings[p]) /\ Calm /\ Goto(p, "started")
     \/ ~Usable(settings[p]) /\ Calm /\ Goto(p, "exited")
     \/ Disturbed("startup") /\ Goto(p, "exited")
  /\ UNCHANGED <<settings, lease>>

(* Mutation of Lead: the lease is not asked for.                              *)
LeadUnasked(p) ==
  /\ At(p, "started") /\ Calm /\ Goto(p, "running") /\ UNCHANGED <<settings, lease>>

(* The manager starts its controllers: once it holds the lease, if elected.   *)
Lead(p) ==
  /\ At(p, "started") /\ Calm /\ Goto(p, "running")
  /\ IF LeaderElect THEN lease = NoPod /\ lease' = p ELSE UNCHANGED lease
  /\ UNCHANGED settings

Startup(p) == CheckAzureEnvironment(p) \/ ValidateAzureConnectivity(p) \/ Lead(p)

-----------------------------------------------------------------------------
(* Kubernetes                                                                 *)

(* The kubelet restarts a container that exited.                              *)
Restart(p) ==
  /\ At(p, "exited") /\ Calm /\ Goto(p, "checking") /\ UNCHANGED <<settings, lease>>

Crash(p) ==
  /\ stage[p] \in {"started", "running"} /\ Disturbed("crash") /\ Goto(p, "exited")
  /\ UNCHANGED <<settings, lease>>

(* Someone updates the Deployment; a rolling update of one replica starts the *)
(* new pod first, and ends the old one when the new one is ready.             *)
Update ==
  /\ At("new", "none") /\ Calm /\ Goto("new", "checking")
  /\ \E s \in Settings : settings' = [settings EXCEPT !["new"] = s]
  /\ UNCHANGED lease

Retire ==
  /\ ~At("old", "none") /\ Ready("new") /\ Calm /\ Goto("old", "none")
  /\ UNCHANGED <<settings, lease>>

(* LeaderElectionReleaseOnCancel is not set: the lease of a process that is   *)
(* no more runs out.                                                          *)
LeaseExpires ==
  /\ lease # NoPod /\ ~Running(lease) /\ lease' = NoPod
  /\ Calm /\ UNCHANGED <<stage, settings>>

RolloutInit ==
  /\ stage = [p \in Pods |-> IF p = "old" THEN "running" ELSE "none"]
  /\ \E s \in Settings : Usable(s) /\ settings = [p \in Pods |-> s]
  /\ lease = IF LeaderElect THEN "old" ELSE NoPod
  /\ budget = MaxDisruptions

PodSteps(p) == Startup(p) \/ Restart(p)
RolloutNext ==
  (\E p \in Pods : PodSteps(p) \/ Crash(p)) \/ Update \/ Retire \/ LeaseExpires
-----------------------------------------------------------------------------
(* Properties                                                                 *)

RolloutTypeOK ==
  /\ stage \in [Pods -> {"none", "checking", "validating", "started", "running", "exited"}]
  /\ settings \in [Pods -> SUBSET Setting]
  /\ lease \in Pods \cup {NoPod}
  /\ budget \in 0 .. MaxDisruptions
=============================================================================
