------------------------------ MODULE AgentPools ------------------------------
(* The agent pools of one AKS cluster: what a pass of the reconciler does to  *)
(* them once it got to UpdateCluster (which is on every pass over a cluster   *)
(* at rest, see NoNeedlessPut in KubernetesClusterController), with sizes it  *)
(* looks up among the other workers of the operator.                          *)
EXTENDS VMSizing

CONSTANTS
  Reconciler,      \* the worker that reconciles this cluster
  PoolNames,       \* names of agent pools, System among them
  System,          \* the pool of the control plane section, never deleted
  NoPool,
  NodePools,       \* node pools users may ask for, see NodePool
  Topologies,      \* which together: a node pool, or NoPool, per name
  MaxNodes,        \* the most nodes of a pool
  OtherRequests    \* what the other workers look up

(* A node pool of the CR.  Its hints (taints, labels and its class) suggest   *)
(* one purpose or several; scale holds the counts the autoscaler may choose,  *)
(* and is empty where it is off.                                              *)
NodePool == [class : Classes \cup Sizes, purposes : SUBSET Purposes \ {{}},
             count : 0 .. MaxNodes, scale : SUBSET (0 .. MaxNodes)]

ASSUME PoolsAssumption ==
  /\ Reconciler \in Workers /\ System \in PoolNames
  /\ NodePools \subseteq NodePool /\ MaxNodes \in Nat
  /\ \A n \in NodePools : n.scale = {} \/ n.count \in n.scale
  /\ \A n \in NodePools : \A u \in n.purposes : [class |-> n.class, purpose |-> u] \in Requests
  /\ NoPool \notin NodePools /\ NoPool \notin PoolNames
  /\ NoPool \notin [size : Sizes, count : Nat, scale : SUBSET Nat]
  /\ OtherRequests \subseteq Requests
  /\ Topologies \subseteq [PoolNames -> NodePools \cup {NoPool}]

VARIABLES
  wanted,     \* the node pools of the CR
  pools,      \* the agent pools in Azure, see Pool
  stage,      \* where the pass is
  obj,        \* the node pools as the pass read them
  todo,       \* pools the current loop has still to deal with
  current,    \* the pool it deals with
  profiles,   \* the profiles of the PUT
  existing    \* the names ListAgentPools returned

pass     == <<stage, obj, todo, current, profiles, existing>>
poolVars == <<wanted, pools, pass>>
vars     == <<sizingVars, poolVars>>
(* All of VMSizing but the budget.                                            *)
sizing   == <<Sources, Caches, lookup>>

NoPools == [p \in PoolNames |-> NoPool]
Named(topology) == {p \in PoolNames : topology[p] # NoPool}

EndPass ==
  /\ stage' = "idle" /\ obj' = NoPools /\ todo' = {} /\ current' = NoPool
  /\ profiles' = NoPools /\ existing' = {}

-----------------------------------------------------------------------------
(* The request that a hint of a node pool makes of its class.                 *)
Ask(n, purpose) == [class |-> n.class, purpose |-> purpose]

(* buildAgentPoolProfile and buildAgentPool: the count goes along whether or  *)
(* not the autoscaler is on.                                                  *)
Pool(n, s) == [size |-> s, count |-> n.count, scale |-> n.scale]

(* Azure: the size of a pool cannot be changed, and a new one must be one of  *)
(* those offered.                                                             *)
Takes(p, pool) ==
  IF pools[p] = NoPool THEN pool.size \in offered ELSE pool.size = pools[p].size

-----------------------------------------------------------------------------
(* UpdateCluster                                                              *)

StartPass ==
  /\ stage = "idle" /\ stage' = "profiles" /\ obj' = wanted /\ todo' = Named(wanted)
  /\ UNCHANGED <<sizingVars, wanted, pools, current, profiles, existing>>

(* The size of the next pool, for its profile or for ReconcileAgentPools; the *)
(* pools come in the order of the CR, the labels that hint at a purpose in    *)
(* that of a Go map, which is another one each time.                          *)
Resolve ==
  /\ stage \in {"profiles", "pools"} /\ current = NoPool /\ todo # {}
  /\ current' = CHOOSE p \in todo : TRUE
  /\ \E purpose \in obj[current'].purposes : StartMap(Reconciler, Ask(obj[current'], purpose))
  /\ todo' = todo \ {current'}
  /\ UNCHANGED <<wanted, pools, stage, obj, profiles, existing>>

BuildProfile ==
  /\ stage = "profiles" /\ current # NoPool /\ At(Reconciler, "done")
  /\ profiles' = [profiles EXCEPT ![current] = Pool(obj[current], lookup[Reconciler].size)]
  /\ current' = NoPool /\ Finish(Reconciler)
  /\ UNCHANGED <<wanted, pools, stage, obj, todo, existing>>

(* One PUT for all pools: taken as a whole or not at all.                     *)
Accepted == \A p \in Named(profiles) : Takes(p, profiles[p])
AfterPut == [p \in PoolNames |-> IF profiles[p] = NoPool THEN pools[p] ELSE profiles[p]]

PutProfiles ==
  /\ stage = "profiles" /\ todo = {} /\ current = NoPool
  /\ \/ Accepted /\ Calm /\ pools' = AfterPut /\ stage' = "list"
        /\ profiles' = NoPools /\ UNCHANGED <<obj, todo, current, existing>>
     \/ ~Accepted /\ Calm /\ EndPass /\ UNCHANGED pools
     \/ Disturbed("azure") /\ EndPass
        /\ (UNCHANGED pools \/ (Accepted /\ pools' = AfterPut))
  /\ UNCHANGED <<sizing, wanted>>

-----------------------------------------------------------------------------
(* ReconcileAgentPools: an error of a single pool is logged and forgotten.    *)

(* Mutation of ListAgentPools: the pools of Azure are looped over, not those  *)
(* of the CR.                                                                 *)
ListAgentPoolsOfAzure ==
  /\ stage = "list"
  /\ \/ Calm /\ stage' = "pools" /\ existing' = Named(pools)
        /\ todo' = Named(pools) \ {System} /\ UNCHANGED <<obj, current, profiles>>
     \/ Disturbed("azure") /\ EndPass
  /\ UNCHANGED <<sizing, wanted, pools>>

ListAgentPools ==
  /\ stage = "list"
  /\ \/ Calm /\ stage' = "pools" /\ existing' = Named(pools)
        /\ todo' = Named(obj) \ {System} /\ UNCHANGED <<obj, current, profiles>>
     \/ Disturbed("azure") /\ EndPass
  /\ UNCHANGED <<sizing, wanted, pools>>

(* Only CreateAgentPool asks whether the size is available.                   *)
Validate ==
  /\ stage = "pools" /\ current # NoPool /\ current \notin existing
  /\ StartValidate(Reconciler)
  /\ UNCHANGED poolVars

Invalid ==
  /\ stage = "pools" /\ current # NoPool /\ At(Reconciler, "invalid")
  /\ current' = NoPool /\ Finish(Reconciler)
  /\ UNCHANGED <<wanted, pools, stage, obj, todo, profiles, existing>>

(* UpdateAgentPool and CreateAgentPool: CreateOrUpdate.                       *)
CreateOrUpdate ==
  LET pool == Pool(obj[current], lookup[Reconciler].size)
      put  == [pools EXCEPT ![current] = pool]
  IN
  /\ stage = "pools" /\ current # NoPool
  /\ At(Reconciler, IF current \in existing THEN "done" ELSE "valid")
  /\ \/ Takes(current, pool) /\ Calm /\ pools' = put
     \/ ~Takes(current, pool) /\ Calm /\ UNCHANGED pools
     \/ Disturbed("azure") /\ (UNCHANGED pools \/ (Takes(current, pool) /\ pools' = put))
  /\ current' = NoPool /\ EndCall(Reconciler)
  /\ UNCHANGED <<wanted, stage, obj, todo, profiles, existing>>

(* Mutation of Undesired: the pools that the list did not show.               *)
UndesiredUnlisted == Named(pools) \ (existing \cup {System})
Undesired == existing \ (Named(obj) \cup {System})

StartDeletes ==
  /\ stage = "pools" /\ todo = {} /\ current = NoPool
  /\ stage' = "deletes" /\ todo' = Undesired /\ obj' = NoPools /\ existing' = {}
  /\ UNCHANGED <<sizingVars, wanted, pools, current, profiles>>

DeleteAgentPool ==
  /\ stage = "deletes"
  /\ \E p \in todo :
       /\ todo' = todo \ {p}
       /\ \/ Calm /\ pools' = [pools EXCEPT ![p] = NoPool]
          \/ Disturbed("azure") /\ pools' \in {pools, [pools EXCEPT ![p] = NoPool]}
  /\ UNCHANGED <<sizing, wanted, stage, obj, current, profiles, existing>>

Return ==
  /\ stage = "deletes" /\ todo = {} /\ EndPass
  /\ UNCHANGED <<sizingVars, wanted, pools>>

Pass ==
  \/ StartPass \/ Resolve \/ BuildProfile \/ PutProfiles
  \/ ListAgentPools \/ Validate \/ Invalid \/ CreateOrUpdate
  \/ StartDeletes \/ DeleteAgentPool \/ Return

-----------------------------------------------------------------------------
(* The operator's workers, and the environment.                               *)

(* Another worker resolves a size for its own cluster.                        *)
OtherLookup(w) ==
  w # Reconciler /\ ((\E r \in OtherRequests : StartMap(w, r)) \/ Finish(w))

PoolWork(w) ==
  \/ (LookUp(w) \/ OtherLookup(w)) /\ UNCHANGED poolVars
  \/ w = Reconciler /\ Pass

ListingFails ==
  /\ \E w \in Workers : ListClassesFails(w) \/ ListSizesFails(w)
  /\ UNCHANGED <<wanted, pools, pass>>

Time == Tick /\ UNCHANGED poolVars

Crash == Restart /\ EndPass /\ UNCHANGED <<wanted, pools>>

UserEdit ==
  /\ Disturbed("edit") /\ wanted' \in Topologies \ {wanted}
  /\ UNCHANGED <<sizing, pools, pass>>

PortalDelete ==
  /\ Disturbed("portal")
  /\ \E p \in Named(pools) \ {System} : pools' = [pools EXCEPT ![p] = NoPool]
  /\ UNCHANGED <<sizing, wanted, pass>>

(* Someone, or the autoscaler, gives a pool more nodes or less.               *)
Scaled ==
  /\ Disturbed("scale")
  /\ \E p \in Named(pools) :
       \E n \in IF pools[p].scale = {} THEN 0 .. MaxNodes ELSE pools[p].scale :
         n # pools[p].count /\ pools' = [pools EXCEPT ![p].count = n]
  /\ UNCHANGED <<sizing, wanted, pass>>

Environment ==
  ListingFails \/ Time \/ Crash \/ UserEdit \/ PortalDelete \/ Scaled

(* The cluster was last reconciled some time before the operator started:     *)
(* for another topology maybe, and by other classes and sizes.                *)
Init ==
  /\ SizingInit
  /\ wanted \in Topologies
  /\ \E t \in Topologies, c \in ClassMaps, o \in Offers, hint \in [PoolNames -> Purposes] :
       /\ \A p \in Named(t) : hint[p] \in t[p].purposes
       /\ pools = [p \in PoolNames |-> IF t[p] = NoPool THEN NoPool
                                      ELSE Pool(t[p], SizeBy(Ask(t[p], hint[p]), c, o))]
  /\ stage = "idle" /\ obj = NoPools /\ todo = {} /\ current = NoPool
  /\ profiles = NoPools /\ existing = {}

Next == (\E w \in Workers : PoolWork(w)) \/ Environment

(* The key comes back after every pass, every worker runs on, time passes.    *)
Spec == Init /\ [][Next]_vars
FairSpec == Spec /\ WF_vars(Time) /\ \A w \in Workers : WF_vars(PoolWork(w))
-----------------------------------------------------------------------------
(* Properties                                                                 *)

Pools == [size : Sizes, count : 0 .. MaxNodes, scale : SUBSET (0 .. MaxNodes)]

(* Every variable holds a value the program could hold.                       *)
TypeOK ==
  /\ SizingTypeOK
  /\ wanted \in Topologies /\ obj \in Topologies \cup {NoPools}
  /\ pools \in [PoolNames -> Pools \cup {NoPool}] /\ profiles \in [PoolNames -> Pools \cup {NoPool}]
  /\ stage \in {"idle", "profiles", "list", "pools", "deletes"}
  /\ todo \subseteq PoolNames /\ current \in PoolNames \cup {NoPool} /\ existing \subseteq PoolNames
  /\ stage \in {"profiles", "pools"} => todo \cup ({current} \ {NoPool}) \subseteq Named(obj)

(* Once the disruptions are over, Azure has exactly the pools the CR asks     *)
(* for, with the nodes it asks for, whichever requests failed unnoticed on    *)
(* the way; what the autoscaler did is taken back, too.  That is if it can    *)
(* have them: every size is offered and no pool holds another size than all   *)
(* the hints it was given come to.                                            *)
Attainable ==
  \A p \in Named(wanted) : \A purpose \in wanted[p].purposes :
    LET size == SizeBy(Ask(wanted[p], purpose), classes, offered)
    IN size \in offered /\ (pools[p] = NoPool \/ pools[p].size = size)
AsWanted ==
  /\ Named(pools) = Named(wanted)
  /\ \A p \in Named(wanted) :
       pools[p].count = wanted[p].count /\ pools[p].scale = wanted[p].scale
PoolsConverge == <>[](Attainable => AsWanted)
=============================================================================
