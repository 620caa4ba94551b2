--------------------------- MODULE AgentPoolsProofs ---------------------------
(* Theorems about AgentPools for any pools, topologies, classes and sizes,    *)
(* with any other workers on the shared caches and any disruptions.  What     *)
(* VMSizingProofs shows of each step of a lookup holds of those steps here.   *)
EXTENDS AgentPools, VMSizingProofs

-----------------------------------------------------------------------------
(* The inductive invariant: that of the lookups, and types.  A pass only      *)
(* looks a size up for a pool that is named by the CR as it read it, and none *)
(* is left over from one loop when the next one begins.                       *)

PoolTypes ==
  /\ wanted \in Topologies /\ obj \in Topologies \cup {NoPools}
  /\ pools \in [PoolNames -> Pools \cup {NoPool}]
  /\ profiles \in [PoolNames -> Pools \cup {NoPool}]
  /\ stage \in {"idle", "profiles", "list", "pools", "deletes"}
  /\ todo \subseteq PoolNames /\ current \in PoolNames \cup {NoPool} /\ existing \subseteq PoolNames
  /\ stage \in {"profiles", "pools"} => todo \cup ({current} \ {NoPool}) \subseteq Named(obj)
  /\ stage \notin {"profiles", "pools"} => current = NoPool

PoolsInv == SizingInv /\ PoolTypes

-----------------------------------------------------------------------------
(* Data                                                                       *)

LEMMA SizeByTyped ==
  ASSUME NEW r \in Requests, NEW c, NEW o \in SUBSET Sizes PROVE SizeBy(r, c, o) \in Sizes
BY StaticTyped, MappedTyped DEF SizeBy

(* A pool that a topology names is a node pool, and what it asks for can be   *)
(* looked up.                                                                 *)
LEMMA NodePoolTyped ==
  ASSUME NEW t \in Topologies \cup {NoPools}, NEW p \in Named(t)
  PROVE  /\ p \in PoolNames /\ t[p] \in NodePools
         /\ t[p].count \in 0 .. MaxNodes /\ t[p].scale \in SUBSET (0 .. MaxNodes)
         /\ \A u \in t[p].purposes : Ask(t[p], u) \in Requests
<1>1. p \in PoolNames /\ t[p] # NoPool
  BY DEF Named
<1>2. t \in [PoolNames -> NodePools \cup {NoPool}]
  BY <1>1, PoolsAssumption DEF NoPools
<1>3. t[p] \in NodePools /\ t[p] \in NodePool
  BY <1>1, <1>2, PoolsAssumption
<1> QED BY <1>1, <1>3, PoolsAssumption DEF NodePool, Ask

LEMMA PoolTyped ==
  ASSUME NEW t \in Topologies \cup {NoPools}, NEW p \in Named(t), NEW s \in Sizes
  PROVE  Pool(t[p], s) \in Pools
BY NodePoolTyped DEF Pool, Pools

LEMMA NoPoolApart == ASSUME NEW pool \in Pools PROVE pool # NoPool
<1>1. pool \in [size : Sizes, count : Nat, scale : SUBSET Nat]
  BY PoolsAssumption DEF Pools
<1> QED BY <1>1, PoolsAssumption

LEMMA NoneTyped == NoPools \in [PoolNames -> Pools \cup {NoPool}]
BY DEF NoPools

(* What Azure takes for a pool has a size.                                    *)
LEMMA TakenTyped ==
  ASSUME PoolsInv, NEW t \in Topologies \cup {NoPools}, NEW p \in Named(t), NEW s,
         Takes(p, Pool(t[p], s))
  PROVE  Pool(t[p], s) \in Pools
<1>1. p \in PoolNames
  BY NodePoolTyped
<1>2. Pool(t[p], s).size = s
  BY DEF Pool
<1>3. CASE pools[p] = NoPool
  <2>1. offered \in SUBSET Sizes
    BY InvParts, SizesAssumption DEF PoolsInv, Parts, TypedSources
  <2> QED BY <1>2, <1>3, <2>1, PoolTyped DEF Takes
<1>4. CASE pools[p] # NoPool
  <2>1. pools[p] \in Pools
    BY <1>1, <1>4 DEF PoolsInv, PoolTypes
  <2> QED BY <1>2, <1>4, <2>1, PoolTyped DEF Takes, Pools
<1> QED BY <1>3, <1>4

-----------------------------------------------------------------------------
(* A step that leaves the lookups alone.                                      *)
Spent == budget' = budget \/ (budget > 0 /\ budget' = budget - 1)

LEMMA BudgetSpent == ASSUME SizingInv, Spent PROVE budget' \in 0 .. MaxDisruptions
BY BudgetKept, BudgetAssumption DEF Spent

LEMMA SizingAside ==
  ASSUME SizingInv, UNCHANGED sizing, budget' \in 0 .. MaxDisruptions PROVE SizingInv'
<1>1. TypedSources /\ CachesSound /\ UNCHANGED <<Sources, Caches, lookup>>
  BY InvParts DEF Parts, sizing
<1>2. TypedSources' /\ Recent(classes, 0)' /\ OfferedAt(offered, 0)'
  BY <1>1 DEF TypedSources, CachesSound, Recent, OfferedAt, Sources
<1>3. /\ \A c \in ClassMaps : classesHeld'[c] <= classesHeld[c]
      /\ \A o \in Offers : offeredHeld'[o] <= offeredHeld[o]
  BY <1>1, TimeTyped DEF TypedSources, Sources
<1> QED BY <1>1, <1>2, <1>3, SoundChange

-----------------------------------------------------------------------------
(* The steps of a pass                                                        *)

LEMMA StartPassInv == ASSUME PoolsInv, StartPass PROVE PoolsInv'
<1>1. SizingInv'
  BY SoundStutter DEF PoolsInv, StartPass
<1>2. PoolTypes'
  BY DEF PoolsInv, PoolTypes, StartPass, Named
<1> QED BY <1>1, <1>2 DEF PoolsInv

LEMMA ResolveInv == ASSUME PoolsInv, Resolve PROVE PoolsInv'
<1>1. current' \in todo /\ todo' = todo \ {current'} /\ todo \subseteq Named(obj)
  BY DEF PoolsInv, PoolTypes, Resolve
<1>2. obj \in Topologies \cup {NoPools} /\ current' \in Named(obj)
  BY <1>1 DEF PoolsInv, PoolTypes
<1>3. PICK purpose \in obj[current'].purposes : StartMap(Reconciler, Ask(obj[current'], purpose))
  BY DEF Resolve
<1>4. Ask(obj[current'], purpose) \in Requests
  BY <1>2, <1>3, NodePoolTyped
<1>5. SizingInv'
  BY <1>3, <1>4, PoolsAssumption, SoundStartMap DEF PoolsInv
<1>6. PoolTypes'
  BY <1>1 DEF PoolsInv, PoolTypes, Resolve, Named
<1> QED BY <1>5, <1>6 DEF PoolsInv

LEMMA FinishInv == ASSUME SizingInv, Finish(Reconciler) PROVE SizingInv'
BY SoundFinish, BudgetKept, PoolsAssumption DEF Finish, Calm

LEMMA BuildProfileInv == ASSUME PoolsInv, BuildProfile PROVE PoolsInv'
<1>1. SizingInv'
  BY FinishInv DEF PoolsInv, BuildProfile
<1>2. lookup[Reconciler].size \in Sizes
  BY LookupTyped, PoolsAssumption DEF PoolsInv, BuildProfile, At, Sound
<1>3. obj \in Topologies \cup {NoPools} /\ current \in Named(obj)
  BY DEF PoolsInv, PoolTypes, BuildProfile
<1>4. Pool(obj[current], lookup[Reconciler].size) \in Pools
  BY <1>2, <1>3, PoolTyped
<1>5. profiles' \in [PoolNames -> Pools \cup {NoPool}]
  BY <1>4 DEF PoolsInv, PoolTypes, BuildProfile
<1>6. PoolTypes'
  BY <1>5 DEF PoolsInv, PoolTypes, BuildProfile, Named
<1> QED BY <1>1, <1>6 DEF PoolsInv

(* The end of a pass forgets what it read.                                    *)
LEMMA EndPassInv ==
  ASSUME PoolsInv, EndPass, SizingInv', wanted' = wanted,
         pools' \in [PoolNames -> Pools \cup {NoPool}]
  PROVE  PoolsInv'
<1>1. /\ stage' = "idle" /\ obj' = NoPools /\ todo' = {} /\ current' = NoPool
      /\ profiles' = NoPools /\ existing' = {}
  BY DEF EndPass
<1>2. PoolTypes'
  BY <1>1, NoneTyped DEF PoolsInv, PoolTypes
<1> QED BY <1>2 DEF PoolsInv

LEMMA PutProfilesInv == ASSUME PoolsInv, PutProfiles PROVE PoolsInv'
<1>1. SizingInv'
  BY BudgetSpent, SizingAside DEF PoolsInv, PutProfiles, Spent, Calm, Disturbed
<1>2. AfterPut \in [PoolNames -> Pools \cup {NoPool}]
  BY DEF PoolsInv, PoolTypes, AfterPut
<1>3. pools' \in [PoolNames -> Pools \cup {NoPool}]
  BY <1>2 DEF PoolsInv, PoolTypes, PutProfiles
<1>4. CASE EndPass
  BY <1>1, <1>3, <1>4, EndPassInv DEF PutProfiles
<1>5. CASE stage' = "list" /\ profiles' = NoPools /\ UNCHANGED <<obj, todo, current, existing>>
  <2>1. PoolTypes'
    BY <1>3, <1>5, NoneTyped DEF PoolsInv, PoolTypes, PutProfiles
  <2> QED BY <1>1, <2>1 DEF PoolsInv
<1> QED BY <1>4, <1>5 DEF PutProfiles

LEMMA ListAgentPoolsInv == ASSUME PoolsInv, ListAgentPools PROVE PoolsInv'
<1>1. SizingInv'
  BY BudgetSpent, SizingAside DEF PoolsInv, ListAgentPools, Spent, Calm, Disturbed
<1>2. CASE EndPass
  BY <1>1, <1>2, EndPassInv DEF PoolsInv, PoolTypes, ListAgentPools
<1>3. CASE /\ stage' = "pools" /\ existing' = Named(pools) /\ todo' = Named(obj) \ {System}
           /\ UNCHANGED <<obj, current, profiles>>
  <2>1. PoolTypes'
    BY <1>3 DEF PoolsInv, PoolTypes, ListAgentPools, Named
  <2> QED BY <1>1, <2>1 DEF PoolsInv
<1> QED BY <1>2, <1>3 DEF ListAgentPools

LEMMA ValidateInv == ASSUME PoolsInv, Validate PROVE PoolsInv'
<1>1. SizingInv'
  BY SoundStartValidate, PoolsAssumption DEF PoolsInv, Validate
<1>2. PoolTypes'
  BY DEF PoolsInv, PoolTypes, Validate, poolVars, pass, Named
<1> QED BY <1>1, <1>2 DEF PoolsInv

LEMMA InvalidInv == ASSUME PoolsInv, Invalid PROVE PoolsInv'
<1>1. SizingInv'
  BY FinishInv DEF PoolsInv, Invalid
<1>2. PoolTypes'
  BY DEF PoolsInv, PoolTypes, Invalid, Named
<1> QED BY <1>1, <1>2 DEF PoolsInv

LEMMA CreateOrUpdateInv == ASSUME PoolsInv, CreateOrUpdate PROVE PoolsInv'
<1> DEFINE pool == Pool(obj[current], lookup[Reconciler].size)
           put  == [pools EXCEPT ![current] = pool]
<1>1. SizingInv'
  <2>1. budget' \in 0 .. MaxDisruptions
    BY BudgetSpent DEF PoolsInv, CreateOrUpdate, Spent, Calm, Disturbed
  <2> QED BY <2>1, SoundFinish, PoolsAssumption DEF PoolsInv, CreateOrUpdate
<1>2. obj \in Topologies \cup {NoPools} /\ current \in Named(obj)
  BY DEF PoolsInv, PoolTypes, CreateOrUpdate
<1>3. Takes(current, pool) => pool \in Pools
  BY <1>2, TakenTyped
<1>4. pools' = pools \/ (Takes(current, pool) /\ pools' = put)
  BY DEF CreateOrUpdate
<1> HIDE DEF pool
<1>5. pools' \in [PoolNames -> Pools \cup {NoPool}]
  BY <1>3, <1>4 DEF PoolsInv, PoolTypes
<1>6. PoolTypes'
  BY <1>5 DEF PoolsInv, PoolTypes, CreateOrUpdate, Named
<1> QED BY <1>1, <1>6 DEF PoolsInv

LEMMA StartDeletesInv == ASSUME PoolsInv, StartDeletes PROVE PoolsInv'
<1>1. SizingInv'
  BY SoundStutter DEF PoolsInv, StartDeletes
<1>2. PoolTypes'
  BY DEF PoolsInv, PoolTypes, StartDeletes, Undesired
<1> QED BY <1>1, <1>2 DEF PoolsInv

LEMMA DeleteAgentPoolInv == ASSUME PoolsInv, DeleteAgentPool PROVE PoolsInv'
<1>1. SizingInv'
  BY BudgetSpent, SizingAside DEF PoolsInv, DeleteAgentPool, Spent, Calm, Disturbed
<1>2. pools' \in [PoolNames -> Pools \cup {NoPool}]
  BY DEF PoolsInv, PoolTypes, DeleteAgentPool
<1>3. PoolTypes'
  BY <1>2 DEF PoolsInv, PoolTypes, DeleteAgentPool
<1> QED BY <1>1, <1>3 DEF PoolsInv

LEMMA ReturnInv == ASSUME PoolsInv, Return PROVE PoolsInv'
<1>1. SizingInv'
  BY SoundStutter DEF PoolsInv, Return
<1> QED BY <1>1, EndPassInv DEF PoolsInv, PoolTypes, Return

LEMMA PassInv == ASSUME PoolsInv, Pass PROVE PoolsInv'
BY StartPassInv, ResolveInv, BuildProfileInv, PutProfilesInv, ListAgentPoolsInv, ValidateInv,
   InvalidInv, CreateOrUpdateInv, StartDeletesInv, DeleteAgentPoolInv, ReturnInv DEF Pass

-----------------------------------------------------------------------------
(* The other workers and the environment                                      *)

LEMMA PoolsAside == ASSUME PoolsInv, SizingInv', UNCHANGED poolVars PROVE PoolsInv'
BY DEF PoolsInv, PoolTypes, poolVars, pass, Named

LEMMA LookUpSound == ASSUME SizingInv, NEW w \in Workers, LookUp(w) PROVE SizingInv'
BY SoundGetClass, SoundListClasses, SoundStoreClasses, SoundGetClassAgain,
   SoundGetSizes, SoundListSizes, SoundStoreSizes DEF LookUp

LEMMA OtherLookupSound ==
  ASSUME SizingInv, NEW w \in Workers, OtherLookup(w) PROVE SizingInv'
<1>1. CASE \E r \in OtherRequests : StartMap(w, r)
  BY <1>1, SoundStartMap, PoolsAssumption
<1>2. CASE Finish(w)
  BY <1>2, SoundFinish, BudgetKept DEF Finish, Calm
<1> QED BY <1>1, <1>2 DEF OtherLookup

LEMMA WorkInv == ASSUME PoolsInv, NEW w \in Workers, PoolWork(w) PROVE PoolsInv'
<1>1. CASE (LookUp(w) \/ OtherLookup(w)) /\ UNCHANGED poolVars
  BY <1>1, LookUpSound, OtherLookupSound, PoolsAside DEF PoolsInv
<1>2. CASE w = Reconciler /\ Pass
  BY <1>2, PassInv
<1> QED BY <1>1, <1>2 DEF PoolWork

LEMMA EnvironmentInv == ASSUME PoolsInv, Environment PROVE PoolsInv'
<1>1. CASE ListingFails
  <2>1. SizingInv'
    BY <1>1, SoundListClassesFails, SoundListSizesFails DEF PoolsInv, ListingFails
  <2> QED BY <1>1, <2>1, PoolsAside DEF ListingFails, poolVars
<1>2. CASE Time
  BY <1>2, SoundTick, PoolsAside DEF PoolsInv, Time
<1>3. CASE Crash
  BY <1>3, SoundRestart, EndPassInv DEF PoolsInv, PoolTypes, Crash
<1>4. ASSUME UNCHANGED <<sizing, pass>>, Spent, wanted' \in Topologies,
             pools' \in [PoolNames -> Pools \cup {NoPool}]
      PROVE  PoolsInv'
  <2>1. SizingInv'
    BY <1>4, BudgetSpent, SizingAside DEF PoolsInv
  <2>2. PoolTypes'
    BY <1>4 DEF PoolsInv, PoolTypes, pass, Named
  <2> QED BY <2>1, <2>2 DEF PoolsInv
<1>5. CASE UserEdit
  BY <1>4, <1>5 DEF PoolsInv, PoolTypes, UserEdit, Disturbed, Spent
<1>6. CASE PortalDelete
  <2>1. pools' \in [PoolNames -> Pools \cup {NoPool}]
    BY <1>6 DEF PoolsInv, PoolTypes, PortalDelete
  <2> QED BY <1>4, <1>6, <2>1 DEF PoolsInv, PoolTypes, PortalDelete, Disturbed, Spent
<1>7. CASE Scaled
  <2>1. PICK p \in Named(pools) :
          \E n \in IF pools[p].scale = {} THEN 0 .. MaxNodes ELSE pools[p].scale :
            pools' = [pools EXCEPT ![p].count = n]
    BY <1>7 DEF Scaled
  <2>2. PICK n \in IF pools[p].scale = {} THEN 0 .. MaxNodes ELSE pools[p].scale :
            pools' = [pools EXCEPT ![p].count = n]
    BY <2>1
  <2>3. p \in PoolNames /\ pools[p] \in Pools
    BY <2>1 DEF Named, PoolsInv, PoolTypes
  <2>4. n \in 0 .. MaxNodes
    BY <2>2, <2>3 DEF Pools
  <2>5. PICK pool : pool = [pools[p] EXCEPT !.count = n]
    OBVIOUS
  <2>6. pool \in Pools
    BY <2>3, <2>4, <2>5 DEF Pools
  <2>7. pools' = [pools EXCEPT ![p] = pool]
    BY <2>2, <2>5
  <2>8. pools' \in [PoolNames -> Pools \cup {NoPool}]
    BY <2>6, <2>7 DEF PoolsInv, PoolTypes
  <2> QED BY <1>4, <1>7, <2>8 DEF PoolsInv, PoolTypes, Scaled, Disturbed, Spent
<1> QED BY <1>1, <1>2, <1>3, <1>5, <1>6, <1>7 DEF Environment

-----------------------------------------------------------------------------
(* The theorems                                                               *)

LEMMA PoolsInit == Init => PoolsInv
<1> SUFFICES ASSUME Init PROVE PoolsInv
  OBVIOUS
<1>1. SizingInv
  BY SoundInit DEF Init
<1>2. PICK t \in Topologies, c \in ClassMaps, o \in Offers, hint \in [PoolNames -> Purposes] :
        /\ \A p \in Named(t) : hint[p] \in t[p].purposes
        /\ pools = [p \in PoolNames |-> IF t[p] = NoPool THEN NoPool
                                       ELSE Pool(t[p], SizeBy(Ask(t[p], hint[p]), c, o))]
  BY DEF Init
<1>3. ASSUME NEW p \in PoolNames PROVE pools[p] \in Pools \cup {NoPool}
  <2>1. CASE t[p] = NoPool
    BY <1>2, <2>1
  <2>2. CASE t[p] # NoPool
    <3>1. p \in Named(t)
      BY <2>2 DEF Named
    <3>2. Ask(t[p], hint[p]) \in Requests
      BY <1>2, <3>1, NodePoolTyped
    <3>3. SizeBy(Ask(t[p], hint[p]), c, o) \in Sizes
      BY <3>2, SizesAssumption, SizeByTyped
    <3>4. Pool(t[p], SizeBy(Ask(t[p], hint[p]), c, o)) \in Pools
      BY <3>1, <3>3, PoolTyped
    <3> QED BY <1>2, <2>2, <3>4
  <2> QED BY <2>1, <2>2
<1>4. pools \in [PoolNames -> Pools \cup {NoPool}]
  BY <1>2, <1>3
<1>5. PoolTypes
  BY <1>4, NoneTyped DEF Init, PoolTypes, Named, NoPools
<1> QED BY <1>1, <1>5 DEF PoolsInv

LEMMA PoolsInvariance == Spec => []PoolsInv
<1>1. PoolsInv /\ [Next]_vars => PoolsInv'
  <2>1. PoolsInv /\ UNCHANGED vars => PoolsInv'
    BY SoundStutter, PoolsAside DEF PoolsInv, vars
  <2> QED BY <2>1, WorkInv, EnvironmentInv DEF Next
<1> QED BY <1>1, PoolsInit, PTL DEF Spec

(* Every variable holds a value of its type: a profile, a pool that Azure     *)
(* took and a pool it keeps always have a size, also when the lookup failed   *)
(* or the operator crashed in the middle of one.                              *)
THEOREM TypeCorrect == Spec => []TypeOK
<1>1. PoolsInv => TypeOK
  BY DEF PoolsInv, PoolTypes, TypeOK, SizingInv
<1> QED BY <1>1, PoolsInvariance, PTL

(* The size a pass builds a profile or a pool from is that of a class and of  *)
(* an offer not older than VMSizing allows, or a static one after a failed    *)
(* listing, whatever the other workers do with the caches meanwhile.          *)
THEOREM SizeExplainedInPools == Spec => []SizeExplained
BY PoolsInvariance, ExplainedBySound, PTL DEF PoolsInv
=============================================================================
