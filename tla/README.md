# A TLA+ model of aks-operator

aks-operator is a Kubernetes operator: for every `KubernetesCluster` resource
(the CR) it creates an AKS cluster in Azure, keeps it as the CR asks, records what
it learns in a *state secret* and in the CR's status, and deletes it with the CR.
This directory holds TLA+ modules of its logic, the TLC runs that check them, and
proofs that TLAPS checks.

1. [The system](#1-the-system): components, state, operations, hazards
2. [Modules and code](#2-modules-and-code)
3. [What the runs check](#3-what-the-runs-check)
4. [Fairness](#4-fairness)
5. [Proofs](#5-proofs)
6. [Disagreements found](#6-disagreements-found)
7. [Abstractions, and what is not modelled](#7-abstractions-and-what-is-not-modelled)
8. [Plan](#8-plan)

Run a check with `tlc -config Controller_safety.cfg MCController.tla`, a proof with
`tlapm KubernetesClusterControllerProofs.tla`. `PROJECT.json` lists the runs, the
theorems, the lines each definition stands for, one mutation of the code per
checked property (written in the modules as "Mutation of ..."), and the hazards.

## 1. The system

| Component | State it keeps | Operations |
|---|---|---|
| **KubernetesCluster reconciler** (`internal/controller`) | none of its own; the CR's finalizer, annotations and status in the API server, read through the informer cache | `Reconcile` → `reconcileCluster` or `handleDeletion`; the fetches of the kubeconfig and the kube-system UID; status and annotation writes with one retry |
| **AKS cluster manager** (`aks_cluster_manager.go`) | none; the managed cluster in Azure | `ReconcileCluster`: get, create or update by a PUT, agent pools; `DeleteCluster`; tells Azure's errors apart by their text |
| **Azure clients** (`pkg/clients/azure`) | none | begin a long-running operation and poll it to its end; list, get |
| **Cluster state service** (`clusterstate`) | the state secret of each cluster; a creation lock per secret | `GetOrCreateState`, `UpdateState(Multiple)`, the `Set*` calls, `DeleteState`; three rounds on a conflict |
| **Agent pool manager** (`agent_pool_manager.go`) | none; the agent pools in Azure | `ReconcileAgentPools`: list, create, update, delete |
| **VM sizing** (`machineclass_mapper.go`, `vm_size_manager.go`) | two TTL caches all workers share: MachineClasses (5 min), VM sizes per location (30 min) | map a class to a size; validate a size |
| **Startup** (`cmd/main.go`, `initializationservice`) | none of its own; the lease of the leader, if elections are on | checks the credentials, tries Azure, wires the manager, waits for the lease, starts the controllers; no leader election by default |

*Interaction.* The workqueue hands one CR to one worker at a time. A pass of the
reconciler is a sequence of calls: to the API server (the CR, its status, the
secret), to Azure (through the cluster manager, which calls the agent pool manager
after an update), and to the guest cluster. Reads of CRs, secrets and
MachineClasses come from informer caches, which lag; writes go to the server and
fail on an old resourceVersion. Passes of *different* CRs share the two sizing
caches, and two operators that overlap in a rolling update share the secrets.

*What is hard.* A user, Azure, the garbage collector or a crash can come between
any two of those calls. The pass goes on with an object it read before. Many errors
are logged and dropped on purpose, so that what was not written must be written by
a later pass, if one still tries. An error's text decides whether a cluster counts
as absent. Azure's operations outlive the pass that began them. An out-of-date
MachineClass or list of sizes silently becomes another VM size.

*What makes each component correct.*

- Reconciler and cluster manager: no AKS cluster without a CR that still guards it
  by the finalizer; a pass acts for the CR it read, never for a namesake created
  since; no CR is forgotten; deletions end; the CR becomes Ready and Azure runs what
  it asks for; what status and secret claim is backed.
- State service: no lost update, no forced write of stale data, no untrue report, no
  lock left behind, no call that never returns.
- Sizing: a size is explained by a class and a list that were recently the true
  ones, or by a listing that failed; stale entries do not survive.
- Agent pools: Azure ends up with the pools of the CR, although errors of single
  pools are swallowed.
- Startup: an update to a configuration that does not work never costs the operator
  that does; with leader election, the old and the new one together are as good as
  one, and the second finishes what the first left half-done.

`PROJECT.json` "hazards" lists every point that is hard to test, at its line, with
the properties that watch it.

## 2. Modules and code

```
ClusterLifecycle <---implements--- KubernetesClusterController   <- MCController
                                      ^- instantiated twice by
OperatorRollout  <----extends----- RollingUpdate                 <- MCRollingUpdate
StateRegister    <---implements--- ClusterState                  <- MCClusterState
                                   VMSizing <---extends--- AgentPools
                                      ^- MCVMSizing           ^- MCAgentPools
```

Theorems, in modules of their own:

```
KubernetesClusterControllerProofs <--- KubernetesClusterRecordProofs
VMSizingProofs <--- AgentPoolsProofs        ^- instantiated twice by
ClusterStateProofs                        RollingUpdateProofs
```

**KubernetesClusterController** — one CR name, its state secret, its AKS cluster and
the reconciler's worker. `cr` is the object in the API server, `cache` the
informer's copy, `obj` the `*KubernetesCluster` the pass carries and changes locally;
`fresh` tells which copies have the server's resourceVersion, and so which write the
server accepts. `pc` names the next call of the pass; every API call is one action:

| Actions | Code |
|---|---|
| `Fetch`, `EnsureState`, `AddFinalizer`, `InitStatus`, `Return` | `Reconcile`; all return paths and their `RequeueAfter` |
| `GetCluster`, `CreateCluster`, `PollCreate`, `UpdateCluster`, `PollUpdate`, `AgentPools` | `AKSClusterManagerImpl.ReconcileCluster`, `pollWithLogging` |
| `SetClusterFailed`, `FailStatus` | error path of `reconcileCluster` |
| `SetClusterProvisioned` ... `SetClusterReady`, `FetchKubeconfig`, `SetKubeconfig`, `FetchKubeSystemUID`, `SetKubeSystemUID`, `AnnotateUID` | the facts recorded after a success |
| `AnnotateID`, `WriteStatus`, `Refetch`, `RewriteStatus` | `updateClusterStatus` with its one retry |
| `MarkDeleting`, `DeleteCluster`, `PollDelete`, `DeleteState`, `RemoveFinalizer` | `handleDeletion` |

`ErrorText` gives each Azure error the substrings the code searches for, so that
`SaysDeleted`, `SaysCreate` and `SaysConflict` decide exactly as
`strings.Contains` does. A failed API call may or may not have been served; a poll
that fails leaves Azure's operation running. The environment is the informer
(`CacheSync`), restarts, Azure's progress, the garbage collector (which also performs
foreground deletion), users, and changes made in the portal.

**ClusterLifecycle** — what the operator promises: a cluster exists only under a
declaration it guards, and a declaration is released only when the cluster is gone.

**ClusterState** — the state service split into its requests: the cached read, the
lock, the re-check, the create, the reads of `getStateWithRetry`, the three rounds of
an update, the deletion. `history` is every version the server stored, so a
resourceVersion is a position in it and a cache is a position too, which may lag by
any number of versions. Several workers per operator and several operators.

**StateRegister** — what the service promises: calls that take effect at one instant.
It is also why the controller module may take a call as one step that fails before
or after its effect: a call of the service that succeeds wrote to the current
secret, however its reads lagged, and one that met only old copies failed.

**VMSizing** — the two caches as several workers use them, one action per access:
`GetClass`/`ListClasses`/`StoreClasses`/`GetClassAgain` are `GetMachineClass` and
`ListMachineClasses`; `GetSizes`/`ListSizes`/`StoreSizes` are `ListVMSizes` and
`ValidateVMSize`; `Mapped` is the choice by score, `Tables` the static tables. Time
passes in ticks. `classesHeld` and `offeredHeld` are history variables: how long ago
each set of classes, each offer, was last the true one.

**AgentPools** — extends VMSizing by the pools of one cluster: the profiles of the
PUT (`Resolve`, `BuildProfile`, `PutProfiles`) and `ReconcileAgentPools`
(`ListAgentPools`, `Validate`, `CreateOrUpdate`, `DeleteAgentPool`), while other
workers fill the caches. A pool has a size, a count and the range of its autoscaler,
which picks another count at any time (`Scaled`), and so may a person. The labels of
a node pool may hint at several purposes; since the code takes the first it meets in
a Go map, `Resolve` takes any.

**OperatorRollout** — the pods of a Deployment with one replica during an update, and
`main` in each: `CheckAzureEnvironment`, `ValidateAzureConnectivity`, `Lead`. The
settings are the environment variables startup looks at; `Accepts` is what the check
accepts, `Usable` what DefaultAzureCredential can work with: a service principal, a
workload identity, or, if there is one, the identity of the host (`HostIdentity`: a
managed identity, a login of the CLI). The kubelet restarts what exited, the Deployment
ends the old pod when the new one is ready, a lease runs out.

**RollingUpdate** — composes both: in each pod, while it runs, works a reconciler of
KubernetesClusterController (`Old!`, `New!`), with a cache, a queue and a pass of its
own, on one API server, one secret and one AKS cluster. `Wrote` says when a write of
one makes the copies of the other old; `Follows` gives what comes and goes with a
process: informers list afresh, nothing of a pass survives.

## 3. What the runs check

All controller runs bound disturbances by one budget, `MaxDisruptions`, that every
failed call, crash, edit, deletion, portal change and lost secret draws from; uids,
generations and all other counters are bounded through it. Two or three disruptions
suffice for the interesting cases, since each property breaks under a mutation of the
code with at most that many: e.g. a half-served write and a crash, a foreground
deletion and a re-creation, a failed poll and a second delete. `MCSpecs` are two
desired states that differ in version and replicas, so that an edit is seen by
either comparison; `OneSpec` is used where edits do not matter.

| Run | Shows |
|---|---|
| `controller_safety` | `NoOrphan`, `PassActsForItsCR`, `GuardInv` (their inductive strengthening), `WorkScheduled` and `KeepsLifecycle` under two disruptions of all eight kinds and all true error texts. |
| `controller_liveness` | `AccessImpliesKubeconfig`, `AnnotationBacked`: what the secret and the annotation claim is backed. `DeletionCompletes`, `StateCollected`: every deletion ends and no secret outlives its CR. `Converges`, `CredentialsStored`: after the disruptions the CR is Ready, AKS runs its spec, and the credentials are stored. Two disruptions of six kinds, about 596,000 states. |
| `controller_settles` | `ReadyAfterRecord`, `SecretConverges`: with users only, who edit and delete, Ready never comes before the record, and the secret agrees with Azure in the end. That Ready does not come first across crashes either is proved (section 5). |
| `state_register` | `ServiceTypeOK` (no more than three rounds), `LockInv`, `CopyInv`, `KeepsRegister`, `CallsReturn`: three workers in two operators, two calls, one fault, caches arbitrarily behind. Two calls are the least that can lose an update; two workers in one process compete for the lock, the third shares nothing with them. |
| `vm_sizing` | `SizeExplained`, `SizesCatchUp`: two workers, lifetimes of one tick and calls of at most one tick. The windows `ClassTTL + 2 * MaxCall` and `SizeTTL - 1 + 2 * MaxCall` are tight in this instance (one tick less is violated); an entry ages by the listing that filled the cache, its lifetime, and the call that used it. |
| `agent_pools` | `PoolsConverge`: one disruption of six kinds at any point of a pass, on pools left behind for another topology. Three pools: one by class, one by size, one with autoscaling and two hints; counts of 0 and 1. About 252,000 states. |
| `rolling_update` | `ElectedActAsOne` and `HandoverInv`, its inductive strengthening; `KeepsLifecycle`, `WorkScheduled`: seen from outside the two are one, and none forgets the CR in the handover; `UsablePodRemains`, `OperatorSurvives`, `Converges`, `CredentialsStored`, `DeletionEnds`: an update under leader election to settings that work or do not, with one disruption of five kinds. About 505,000 states. |
| `controller_needless_put`, `controller_orphan`, `controller_access`, `controller_stale_kubeconfig`, `two_operators` | disagreements, section 6. |

Deadlock is only left unchecked where the system may really stop: a CR that is gone
for good, all calls made, all workers at the end of their time.

`rolling_update` has one disruption because the update is itself one: it may come at
any point, and with it a second process, a handover and the end of the first. The two
settings are a service principal, which works, and one given under the deprecated
`AZURE_OBJECT_ID`, which the check accepts and Azure's library ignores; the host has no
identity of its own, or no settings were unusable. `two_operators` runs on a workload
identity. One update and two pods are what a Deployment of one replica has at a time. Without leader election
the two passes interleave freely: that instance is too large to exhaust with any
disruption, so it serves for the violation of `two_operators` only; what holds
there all the same (`WorkScheduled`, `AccessImpliesKubeconfig`, `AnnotationBacked`) is proved.

The MachineClass "web" of `agent_pools`, which the other workers look up, asks for no
cores: the score divides by zero there.

`Live` (exists and is not being deleted) restricts the claims about the secret: a
foreground deletion lets the garbage collector remove the secret while a pass is
under way, and a late `SetClusterReady` then recreates one that claims access without
a kubeconfig. `SecretConverges` excludes crashes and a secret deleted by hand, after
which some fields are never written again (section 6), and failing calls, because a status write that
fails after `SetClusterFailed` leaves a secret that says Failed beside a phase that
already is what Azure's state implies, so that nothing rewrites it.

`PoolsConverge` is claimed only when `Attainable`: Azure cannot change the size of a
pool and refuses the *whole* PUT if one profile asks for that. A pool created at a
fallback size while a listing failed, or whose MachineClass changed since, or whose
labels hint at two purposes with different sizes, blocks every later change of its
cluster's pools until someone deletes it. Without the condition the property is
violated: it claims recovery from what Azure refuses for a time, not from this. That
the counts are the wanted ones in the end means
that the operator and an autoscaler work against each other: each pass sends `Count`
(`agent_pool_manager.go:190`), also when autoscaling is on.

## 4. Fairness

- Controller: weak fairness of the worker (`Reconcile`), the watch (`CacheSync`),
  Azure's operations, and the garbage collector. The worker is a goroutine that never
  blocks for good, since every client call has an end; controller-runtime re-delivers
  watch events and comes back to keys with `RequeueAfter`. No fairness forces a
  disruption, and each liveness property speaks of the time after the last one.
- ClusterState: weak fairness of each caller's next step only. The watch may hang:
  `CallsReturn` needs no event to arrive.
- VMSizing, AgentPools: weak fairness of each worker, and of time.
- RollingUpdate: weak fairness of the running reconciler, of its watch, of the
  kubelet for each pod (startup and restart), of the Deployment and the lease
  together, and of Azure and the garbage collector. None forces the update. `Reconciles` is one
  formula for both operators: under leader election only one of them runs.

## 5. Proofs

TLAPS proves for all values of the constants what TLC checks on small ones.

**KubernetesClusterControllerProofs.** `TypeCorrect`; then, assuming that an error
text reads as an absence only when it is one (`OnlyAbsenceReadsAsAbsence`; section 6
says what happens otherwise): `GuardInvariant`, `NoOrphanTheorem`,
`PassActsForItsCRTheorem`, `LifecycleRefinement`. `NoOrphan` is not inductive. What
makes it so is `GuardInv`: only the worker changes the operator's finalizer; it adds
it on the word of a copy that was current; the copies never go back in time, so one
that carries the finalizer and no deletion timestamp shows that the CR is still
guarded; and past `deleteState` the cluster is absent. There is one lemma per group
of actions; those of writes rest on `StatusEffect` and `MetaEffect`, which say what
a write of the API server can do to the CR at all.

**KubernetesClusterRecordProofs.** Four theorems of the same component, about what a
pass leaves behind.

- `WorkScheduledTheorem`, without any hypothesis. The invariant (`ScheduleInv`) speaks of
  the cache only while it is current, since a watch event is due otherwise: then the
  key is queued or in the hands of a pass that ends with a requeue, or nothing is to be
  done. The one way out without a requeue is `handleDeletion`, and there the object
  at work carries the finalizer or the CR does not need the operator.
- `AccessImpliesKubeconfigTheorem`, if nobody deletes the secret by hand (`SecretKept`;
  otherwise `SetClusterReady` recreates it without the kubeconfig it held).
- `AnnotationBackedTheorem`, if moreover nobody deletes the cluster in the portal
  (`ClusterKept`; otherwise a read of the secret that fails lets the kubeconfig be
  overwritten with that of the new cluster, another UID reaches the secret, and a crash
  leaves the annotation with the old one).
- `ReadyAfterRecordTheorem`, if calls of the API server succeed, the secret is kept and
  the CR is not created anew (`CallsSucceed`, `SecretKept`, `NeverRecreated`): an error of
  a `Set*` call is logged and the status written all the same. Crashes, edits,
  deletions, portal changes and refusals of Azure are allowed.

The last three rest on `FirstInv`: as long as the first CR of its name is not deleted,
every copy is one of it and the secret is its own, so that no deletion runs and the
garbage collector has no business with the secret (`LiveStep`). What follows is an
argument over the calls that store a fact: `AccessInv`, `AnnotationInv` and `RecordInv`
say for each place of the pass what the secret holds by then, and what is in hand.
`AnnotationInv` also follows the UID through every copy of the CR.

**ClusterStateProofs.** `TypeCorrect`, `LockTheorem`, `CopyTheorem` and
`RegisterRefinement`, for any number of callers, operators, keys, calls and faults.
The invariant is the conjunction `ServiceTypeOK /\ LockInv /\ CopyInv`. The heart of the
refinement is `CopyInv`: a copy with the server's current resourceVersion *is* the
current version, so the write the server accepts merges the caller's keys into
current data. `Frame` gives what a step of one caller leaves alone.

**VMSizingProofs.** `SizingTypeCorrect` and `SizeExplainedTheorem`, for any workers,
classes, sizes and lifetimes, given that a call takes no longer than the lifetime of
the class cache (`TimeAssumption`). `SizeExplained` says nothing of a call before it
ends; `SizingInv` follows it there: a valid cache entry was true no longer ago than
its age plus `MaxCall`, for the call that put it there (`CachesSound`), and what a
call has taken from a cache or a listing was true no longer ago than that plus the
ticks it has waited since (`Sound`). `SoundAges` serves every step: nothing a call
holds grows older by more than the call does. The delicate case is `MissingAgain`: a
call that looks a second time and finds no class may find an entry that another
worker has replaced or that has expired, so the invariant remembers why it looks
again: it refilled the cache itself, or it found the class missing before.

**AgentPoolsProofs.** `TypeCorrect` and `SizeExplainedInPools`, for any workers, classes,
sizes and pools. A step of a pass is, for the caches, a step of VMSizing or none, so
`SizingInv` is kept by the lemmas of VMSizingProofs. `TypeOK` is not inductive: a pass
that is neither building profiles nor dealing with pools must have no pool at hand
(`PoolTypes`), or the next loop would start in the middle of one.

**RollingUpdateProofs.** `TypeCorrect`, with leader election or without;
`HandoverInvariant` and `ElectedOperatorsActAsOne`, for any settings, specs, errors and
disruptions, given that no text but an absence reads as one (`Truthful`).
`ElectedActAsOne` is not inductive for two reasons: within one pass it needs
`GuardInv`, and across passes it needs that no two of them overlap. `HandoverInv` says
both: who runs holds the lease, its state satisfies `GuardInv`, and who does not run
has no pass. A step of a running operator preserves its own `GuardInv` by the lemmas of
KubernetesClusterControllerProofs, instantiated for each operator (`OldP`, `NewP`); the
other does not run, since the lease is one. What is new is the handover: `GuardInv`
holds for an operator that starts with a fresh list of the CRs, whatever the last one
left half-done, because all that the invariant says of the world alone is `NoOrphan`.

`LifecycleRefinement` follows: with leader election, each step of either operator is a
step of ClusterLifecycle or a stutter, by the lemma of the controller for whoever runs.

Two theorems of that module ask for no election. `WorkScheduledTheorem`: whatever one
operator writes makes the copies of the other old (`OldWrote`, `NewWrote`), so that a
watch event is due there. `RecordsBackedTheorem` (`SecretKept`, `ClusterKept`):
`AccessImpliesKubeconfig` and `AnnotationBacked` of both operators together; each
operator keeps its own `FirstInv`, `AccessInv` and `AnnotationInv`, and its steps are
`Considerate` of the other: no deletion is undone, no kubeconfig taken out of the secret
again and no UID in it replaced. It is the chart's default deployment, where the run
`two_operators` shows that the passes do overlap.

`UsablePodTheorem`, if startup tells usable settings from others (`StartupTells`: the
connectivity check is on, or the check of the environment rejects what is unusable).
The invariant: the settings of the old pod work, and those of the new one do by the time
it is ready or the old one is gone.

Only model-checked: liveness (`Converges`, `CredentialsStored`, `DeletionCompletes`,
`StateCollected`, `SecretConverges`, `CallsReturn`, `SizesCatchUp`, `PoolsConverge`,
`OperatorSurvives`, `DeletionEnds`). It needs fairness and ENABLED, which are out of the
prover's reach. Every invariant, action property and refinement that the passing runs
check is proved.

## 6. Disagreements found

Each is a run that TLC finds violated, and a finding in `PROJECT.json`.

1. `controller_needless_put`: `int(^int32(0))` is -1, not the largest int32
   (`aks_cluster_manager.go:394`). The desired count of the system pool is therefore
   always -1, an update is always needed, and every pass over a cluster at rest sends
   a PUT, against the comment at `:165`. (It also has a good side: portal changes of
   any kind are undone.)
2. `controller_orphan`: "Service principal ... not found" contains "not found", so an
   authentication error counts as a deleted cluster (`aks_cluster_manager.go:103`); the
   finalizer comes off and the cluster stays.
3. `controller_access`: `cluster_access`, `nodepools_ready` and `ready_at` are written
   only by the pass that stored the kubeconfig. A crash in between leaves them out for
   good; the reconciliation that `docs/troubleshooting.md:237` recommends does not help.
4. `controller_stale_kubeconfig`: a cluster deleted in Azure is recreated
   (`docs/troubleshooting.md:145`), the kubeconfig of the old one stays in the secret.
5. `two_operators`: the chart's `leaderElection.enabled` ("will ensure there is only one
   active controller manager", `values.yaml:47`) only creates the role; no template passes
   `--leader-elect`, which is off by default (`main.go:81`). During every rolling update
   two operators reconcile the same CR at once, against `values.yaml:9` ("never the same
   one").

Seen while modelling, without a run of their own:

- A failed write of the cluster-ID annotation is never repeated when the status write
  after it succeeds (`kubernetescluster_status.go:175`).
- A state secret deleted by hand is recreated without `cluster_provisioned` and its
  kin: they are written on a change of phase only (`kubernetescluster_controller.go:147`
  against `docs/troubleshooting.md:220-226`).
- `DeleteState` takes a cache miss for "Already deleted" (`cluster_state.go:432`), and the
  rounds of an update re-read the same lagging cache ("retry with fresh secret", `:226`).
- The creation lock is keyed by the secret's name without its namespace
  (`cluster_state.go:91`): clusters of the same name share it, which costs time only.
- A CR created anew adopts the secret its predecessor left (`cluster_state.go:97`) and
  loses it when the garbage collector gets to it; the next pass creates another.
- The condition KubeConfigReady says "Kubeconfig is available in cluster state secret"
  (`kubernetescluster_status.go:311`) whenever the phase is Ready, stored or not.
- `CheckPrerequisites` is never called. The check of the environment accepts
  `AZURE_OBJECT_ID` (`initialization_service.go:74`), which DefaultAzureCredential ignores;
  only the connectivity check finds out. `InitializeAzureServices` promises to "fail fast
  if Azure connectivity is not available" (`:99`) and contacts nothing.
- `docs/troubleshooting.md:59` describes a hang without `AZURE_TENANT_ID`; with a client ID
  and a secret set, the check of the environment exits instead.
- The last default of the Kubernetes version is "1.30" (`aks_cluster_manager.go:346`), read
  past viper, whose default is "1.34.1" (`settings.go:18`).

## 7. Abstractions, and what is not modelled

- *Data.* A generation number stands for one incarnation of the AKS cluster: FQDN,
  credential, kube-system UID. A desired state is a version and a replica count; tags,
  DNS prefix and network profile are constant. Of the status the phase is kept, of
  the annotations the two the operator writes; the conditions are a function of the
  phase and are left out. The provider, project and cluster ID of a CR are not edited.
- *Kubernetes.* Every status write stores a new `lastUpdated`, hence a new
  resourceVersion and a watch event. `RequeueAfter` keeps the key without its delay.
  The workqueue runs one pass per CR; `MaxConcurrentReconciles` only adds passes of
  other CRs. Users do not remove the finalizer by hand. A request is not in flight
  across a crash other than as one that was served before it.
- *The state service, as the controller sees it.* A call that succeeds is one step on
  the server's current secret. `StateRegister` justifies that for writes. A read comes
  from the informer and may be behind: what a pass makes of an old copy (it fetches
  again what is stored) is left to the failing calls, which go on likewise.
- *Azure.* `ProvisioningState`, `ID` and `Properties` are always filled in (the code
  dereferences them). A system pool has at least one node. The provider is `aks`; other
  CRs are filtered before the queue.
- *Sizing.* Ticks replace minutes; a lookup takes at most `MaxCall` ticks, no longer than
  a list of classes lives. A listing that fails while a size is validated may leave an
  error that reads "not found", which the code takes for a size that is not offered, or
  another, which it ignores. The two reads `get` and `getAll` of a miss are one step; the
  second read (`again`) covers what may happen in between. `Enabled` has no effect on a
  lookup in the code and none here. A class that requires a GPU matches GPU sizes
  only. Equal scores are settled by the order of the list, a fixed choice; the score
  is scaled to integers. A requirement of zero makes every score +Inf in the code and
  the same in `Score`. A location is fixed.
- *Pools.* Of a pool its size, its count and the range of its autoscaler; taints and
  versions go along unchanged and are left out, labels count as hints only. The pools
  come in a fixed order. A pool that a PUT does not name is left alone by
  Azure, which the code relies on when it deletes pools one by one. A pass always gets
  to the PUT (disagreement 1).
- *Rollout.* A leader that cannot renew its lease exits before the lease ends, as the
  leader election of client-go has it: that a process still works while another one
  leads is left out. A container that exited is restarted, without its back-off. One
  replica, one update at a time. Flags, TLS, metrics and the webhook server are left out.
- *Not modelled.* Go interfaces, chart and manifests (but for what they say of the
  program), the constructors of the Azure client factory, functions nobody calls
  (`ValidateMapping`, `UpdateNodePool`, `GetAccessProfile` and the like). `PROJECT.json`
  gives the reason per component.

## 8. Plan

Done, in this order: controller and lifecycle; their proofs; state service with its
register and proofs; sizing and its proofs; agent pools, with counts and hints; the
rollout, two operators on one CR, and their proofs; then what is recorded, scheduled
and kept in a handover, proved, and the agent pools.

Next:

1. *Proofs*: the safe half of the liveness properties, e.g. that a state secret whose
   CR is gone is always one the garbage collector will take (`StateCollected`).
2. *Controller*: CRs whose provider or cluster ID is edited, and two CRs that name one
   cluster, as actions of users.
