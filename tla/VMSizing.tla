------------------------------- MODULE VMSizing -------------------------------
(* From the machine class of a node pool to an Azure VM size: the mapper and  *)
(* the VM size manager, with the two caches that every worker of the operator *)
(* shares.  Time passes in ticks.                                             *)
EXTENDS Integers, FiniteSets

CONSTANTS
  Workers,    \* goroutines that look sizes up
  Classes,    \* names of MachineClasses
  Needs,      \* what a MachineClass may require, [cores, memory, gpu]
  ClassMaps,  \* the MachineClasses there may be: what each name requires
  Sizes,      \* VM sizes
  Offers,     \* the sets of sizes that Azure may offer in the location
  Capacity,   \* what Azure says of each: [cores, memory, purpose, bonus]
  Requests,   \* what is looked up: [class, purpose]
  NoClass,    \* a name that no MachineClass bears
  ClassTTL,   \* ticks a list of classes is used (5 min)
  SizeTTL,    \* ticks a list of sizes is used (30 min)
  MaxCall,    \* ticks a call of the mapper takes at most
  Disruptions,     \* kinds of disruption that may happen
  MaxDisruptions   \* how many happen in all

Purposes == {"general", "compute", "memory", "gpu"}

NoClasses == [c \in Classes |-> NoClass]

(* The static tables.  A class they do not know is treated as "medium".       *)
Tables ==
  [small       |-> [general |-> "D2s_v5",  compute |-> "F2s_v2",  memory |-> "E2s_v5",  gpu |-> "NC4as_T4_v3"],
   medium      |-> [general |-> "D4s_v5",  compute |-> "F4s_v2",  memory |-> "E4s_v5",  gpu |-> "NC8as_T4_v3"],
   large       |-> [general |-> "D8s_v5",  compute |-> "F8s_v2",  memory |-> "E8s_v5",  gpu |-> "NC16as_T4_v3"],
   xlarge      |-> [general |-> "D16s_v5", compute |-> "F16s_v2", memory |-> "E16s_v5", gpu |-> "NC64as_T4_v3"],
   largecpu    |-> [general |-> "F8s_v2",  compute |-> "F8s_v2",  memory |-> "F8s_v2",  gpu |-> "NC6s_v3"],
   largememory |-> [general |-> "E8s_v5",  compute |-> "E8s_v5",  memory |-> "E8s_v5",  gpu |-> "NC6s_v3"],
   gpu         |-> [general |-> "NC6s_v3", compute |-> "NC6s_v3", memory |-> "NC6s_v3", gpu |-> "NC6s_v3"]]

ASSUME RequirementAssumption ==
  /\ Needs \subseteq [cores : Nat, memory : Nat, gpu : BOOLEAN]
  /\ NoClass \notin Needs
  /\ ClassMaps \subseteq [Classes -> Needs \cup {NoClass}]
  /\ Capacity \in [Sizes -> [cores : Nat \ {0}, memory : Nat \ {0}, purpose : Purposes, bonus : Int]]
ASSUME RequestsAssumption ==
  Requests \subseteq [class : Classes \cup Sizes, purpose : Purposes]
ASSUME SizesAssumption ==
  /\ Offers \subseteq SUBSET Sizes /\ NoClass \notin Sizes
  /\ \A c \in DOMAIN Tables, p \in Purposes : Tables[c][p] \in Sizes
ASSUME BudgetAssumption == MaxDisruptions \in Nat
ASSUME TimeAssumption ==
  ClassTTL \in Nat /\ SizeTTL \in Nat \ {0} /\ MaxCall \in 0 .. ClassTTL

VARIABLES
  classes,      \* the MachineClasses, as the informer holds them
  offered,      \* the sizes Azure offers in the location
  classCache,   \* machineClassCache: [data, age], age in ticks since it was set
  sizeCache,    \* vmSizeCache of the location: [data, age]
  lookup,       \* the call of each worker
  classesHeld,  \* how many ticks ago each set of classes was last there,
  offeredHeld,  \* and each set of sizes (history variables)
  budget        \* disruptions left

sizingVars == <<classes, offered, classCache, sizeCache, lookup, classesHeld, offeredHeld,
                budget>>

Calm == budget' = budget
Disturbed(k) == k \in Disruptions /\ budget > 0 /\ budget' = budget - 1

ClassWindow == ClassTTL + 2 * MaxCall       \* how old what a call goes by may be
SizeWindow == SizeTTL - 1 + 2 * MaxCall

-----------------------------------------------------------------------------
(* Sizes                                                                      *)

(* staticFallbackVMSize of the managers, for a listing that failed.           *)
StaticFallback(r) ==
  Tables[IF r.class \in DOMAIN Tables THEN r.class ELSE "medium"][r.purpose]

(* staticMapping of the mapper, for a class that is not there: its GPU size   *)
(* is the same for every class.                                               *)
StaticMapping(r) == IF r.purpose = "gpu" THEN "NC6s_v3" ELSE StaticFallback(r)

(* calculateScore, times 100 * cores * memory of the requirement.  It divides *)
(* by both: a class without one of them scores +Inf for every size alike.     *)
Score(need, size) ==
  LET s == 40 * (Capacity[size].cores - need.cores) * need.memory
           + 40 * (Capacity[size].memory - need.memory) * need.cores
           - Capacity[size].bonus * need.cores * need.memory
  IN IF s > 0 /\ need.cores * need.memory # 0 THEN s ELSE 0

(* vmSizeMatchesPurpose: a class that asks for a GPU only goes on GPU sizes.  *)
Matches(s, purpose, need) ==
  Capacity[s].purpose = IF need.gpu THEN "gpu" ELSE purpose

Candidates(need, purpose, list) ==
  {s \in list : /\ Matches(s, purpose, need)
                /\ Capacity[s].cores >= need.cores /\ Capacity[s].memory >= need.memory}

(* The best candidate; equal ones are told apart by the order of the list.    *)
Mapped(r, need, list) ==
  LET fit  == Candidates(need, r.purpose, list)
      best == {s \in fit : \A t \in fit : Score(need, s) <= Score(need, t)}
  IN IF best = {} THEN StaticMapping(r) ELSE CHOOSE s \in best : TRUE

(* What a request comes to by the classes c and the sizes o.                  *)
SizeBy(r, c, o) ==
  IF r.class \in Sizes THEN r.class
  ELSE IF c[r.class] = NoClass THEN StaticMapping(r) ELSE Mapped(r, c[r.class], o)

-----------------------------------------------------------------------------
(* The caches                                                                 *)

NoRequest == [class |-> NoClass, purpose |-> "general"]
Resting == [pc |-> "idle", op |-> "map", request |-> NoRequest, need |-> NoClass,
            classes |-> NoClasses, sizes |-> {}, size |-> NoClass,
            failed |-> FALSE,   \* a listing failed
            waited |-> 0]       \* ticks since the call began

(* Mutation of ClassesValid: what is in the cache does not expire.            *)
ClassesValidForever == classCache.data # NoClasses
ClassesValid == classCache.age <= ClassTTL     \* ! Now().After(expiry)
(* Mutation of SizesValid: a location that is there is valid.                 *)
SizesValidForever == sizeCache.data # {}
SizesValid == sizeCache.age < SizeTTL          \* Now().Before(expiry)

At(w, p) == lookup[w].pc = p
Goto(w, p) == lookup' = [lookup EXCEPT ![w].pc = p]
Done(w, size, failed) ==
  lookup' = [lookup EXCEPT ![w].pc = "done", ![w].size = size, ![w].failed = failed,
                           ![w].need = NoClass,
                           ![w].classes = NoClasses, ![w].sizes = {}]

Sources == <<classes, offered, classesHeld, offeredHeld>>
Caches  == <<classCache, sizeCache>>

(* ListVMSizes returned list: to the mapper, or to ValidateVMSize, which      *)
(* takes a size that is not in the list for one that is not available.        *)
Listed(w, list) ==
  IF lookup[w].op = "map" THEN Done(w, Mapped(lookup[w].request, lookup[w].need, list), FALSE)
  ELSE Goto(w, IF lookup[w].size \in list THEN "valid" ELSE "invalid")

-----------------------------------------------------------------------------
(* resolveVMSize; a class name that is a size already is taken for it.        *)
StartMap(w, r) ==
  /\ At(w, "idle")
  /\ lookup' = [lookup EXCEPT ![w] =
       IF r.class \in Sizes
       THEN [Resting EXCEPT !.pc = "done", !.request = r, !.size = r.class]
       ELSE [Resting EXCEPT !.pc = "class", !.request = r]]
  /\ UNCHANGED <<Sources, Caches, budget>>

(* ValidateVMSize of the size just found.                                     *)
StartValidate(w) ==
  /\ At(w, "done")
  /\ lookup' = [lookup EXCEPT ![w].pc = "sizes", ![w].op = "validate", ![w].waited = 0]
  /\ UNCHANGED <<Sources, Caches, budget>>

EndCall(w) ==
  /\ lookup[w].pc \in {"done", "valid", "invalid"}
  /\ lookup' = [lookup EXCEPT ![w] = Resting]
  /\ UNCHANGED <<Sources, Caches>>
Finish(w) == EndCall(w) /\ Calm

(* Mutation of HasClass: a name that is not there yields a nil class.         *)
HasClassUnchecked(w) == w \in Workers /\ ClassesValid

(* machineClassCache.get                                                      *)
HasClass(w) == ClassesValid /\ classCache.data[lookup[w].request.class] # NoClass
TakeClass(w) ==
  lookup' = [lookup EXCEPT ![w].pc = "sizes",
                           ![w].need = classCache.data[lookup[w].request.class]]

(* GetMachineClass: the class from the cache, or ListMachineClasses, which    *)
(* reads the API only if the cache is empty or expired.                       *)
GetClass(w) ==
  /\ At(w, "class")
  /\ \/ HasClass(w) /\ TakeClass(w)
     \/ ~HasClass(w) /\ Goto(w, IF ClassesValid /\ classCache.data # NoClasses
                                THEN "again" ELSE "listClasses")
  /\ UNCHANGED <<Sources, Caches, budget>>

(* client.List; the mapper has its own answer to an error.                    *)
ListClasses(w) ==
  /\ At(w, "listClasses")
  /\ lookup' = [lookup EXCEPT ![w].pc = "storeClasses", ![w].classes = classes]
  /\ UNCHANGED <<Sources, Caches, budget>>

ListClassesFails(w) ==
  /\ At(w, "listClasses") /\ Disturbed("listing")
  /\ Done(w, StaticMapping(lookup[w].request), TRUE)
  /\ UNCHANGED <<Sources, Caches>>

StoreClasses(w) ==
  /\ At(w, "storeClasses")
  /\ classCache' = [data |-> lookup[w].classes, age |-> 0]
  /\ lookup' = [lookup EXCEPT ![w].pc = "again", ![w].classes = NoClasses]
  /\ UNCHANGED <<Sources, sizeCache, budget>>

GetClassAgain(w) ==
  /\ At(w, "again")
  /\ \/ HasClass(w) /\ TakeClass(w)
     \/ ~HasClass(w) /\ Done(w, StaticMapping(lookup[w].request), FALSE)
  /\ UNCHANGED <<Sources, Caches, budget>>

(* ListVMSizes: vmSizeCache.get, then the request to Azure.                   *)
GetSizes(w) ==
  /\ At(w, "sizes")
  /\ \/ SizesValid /\ Listed(w, sizeCache.data)
     \/ ~SizesValid /\ Goto(w, "listSizes")
  /\ UNCHANGED <<Sources, Caches, budget>>

ListSizes(w) ==
  /\ At(w, "listSizes")
  /\ lookup' = [lookup EXCEPT ![w].pc = "storeSizes", ![w].sizes = offered]
  /\ UNCHANGED <<Sources, Caches, budget>>

(* Without an answer a manager takes its own table instead of the mapper's    *)
(* error.  CreateAgentPool goes on as if the size were available, unless the  *)
(* text of the error reads "not found", which is taken for an answer.         *)
ListSizesFails(w) ==
  /\ At(w, "listSizes") /\ Disturbed("listing")
  /\ IF lookup[w].op = "map" THEN Done(w, StaticFallback(lookup[w].request), TRUE)
     ELSE \E answer \in {"valid", "invalid"} : Goto(w, answer)
  /\ UNCHANGED <<Sources, Caches>>

StoreSizes(w) ==
  /\ At(w, "storeSizes")
  /\ sizeCache' = [data |-> lookup[w].sizes, age |-> 0]
  /\ Listed(w, lookup[w].sizes)
  /\ UNCHANGED <<Sources, classCache, budget>>

LookUp(w) ==
  \/ GetClass(w) \/ ListClasses(w) \/ StoreClasses(w) \/ GetClassAgain(w)
  \/ GetSizes(w) \/ ListSizes(w) \/ StoreSizes(w)

-----------------------------------------------------------------------------
(* The environment                                                            *)

(* A tick: everything grows older, up to where it makes no difference.        *)
Capped(n, cap) == IF n < cap THEN n + 1 ELSE cap
Tick ==
  /\ \A w \in Workers : At(w, "idle") \/ lookup[w].waited < MaxCall
  /\ classCache' = [classCache EXCEPT !.age = Capped(@, ClassTTL + 1)]
  /\ sizeCache' = [sizeCache EXCEPT !.age = Capped(@, SizeTTL)]
  /\ lookup' = [w \in Workers |-> IF At(w, "idle") THEN lookup[w]
                                  ELSE [lookup[w] EXCEPT !.waited = @ + 1]]
  /\ classesHeld' = [c \in ClassMaps |-> IF c = classes THEN 0
                                         ELSE Capped(classesHeld[c], ClassWindow + 1)]
  /\ offeredHeld' = [o \in Offers |-> IF o = offered THEN 0
                                            ELSE Capped(offeredHeld[o], SizeWindow + 1)]
  /\ UNCHANGED <<classes, offered, budget>>

(* Someone creates, changes or deletes a MachineClass.                        *)
ClassEdit ==
  /\ Disturbed("classes")
  /\ \E c \in ClassMaps \ {classes} :
       classes' = c /\ classesHeld' = [classesHeld EXCEPT ![c] = 0]
  /\ UNCHANGED <<offered, offeredHeld, Caches, lookup>>

(* Azure offers other sizes in the location.                                  *)
OfferChange ==
  /\ Disturbed("offer")
  /\ \E o \in Offers \ {offered} :
       offered' = o /\ offeredHeld' = [offeredHeld EXCEPT ![o] = 0]
  /\ UNCHANGED <<classes, classesHeld, Caches, lookup>>

(* newMachineClassCache and newVMSizeCache: expired from the beginning.       *)
NoClassCache == [data |-> NoClasses, age |-> ClassTTL + 1]
NoSizeCache  == [data |-> {}, age |-> SizeTTL]
AllRest      == [w \in Workers |-> Resting]

Restart ==
  /\ Disturbed("crash")
  /\ classCache' = NoClassCache /\ sizeCache' = NoSizeCache /\ lookup' = AllRest
  /\ UNCHANGED Sources

SizingInit ==
  /\ classes \in ClassMaps /\ offered \in Offers
  /\ classCache = NoClassCache /\ sizeCache = NoSizeCache /\ lookup = AllRest
  /\ classesHeld = [c \in ClassMaps |-> IF c = classes THEN 0 ELSE ClassWindow + 1]
  /\ offeredHeld = [o \in Offers |-> IF o = offered THEN 0 ELSE SizeWindow + 1]
  /\ budget = MaxDisruptions

Work(w) ==
  \/ \E r \in Requests : StartMap(w, r)
  \/ StartValidate(w) \/ Finish(w) \/ LookUp(w)

SizingNext ==
  \/ \E w \in Workers : Work(w) \/ ListClassesFails(w) \/ ListSizesFails(w)
  \/ Tick \/ ClassEdit \/ OfferChange \/ Restart

(* Every worker runs on, and time passes.                                     *)
SizingSpec == SizingInit /\ [][SizingNext]_sizingVars
FairSizing == SizingSpec /\ WF_sizingVars(Tick) /\ \A w \in Workers : WF_sizingVars(Work(w))
-----------------------------------------------------------------------------
(* Properties                                                                 *)

Pcs == {"idle", "class", "listClasses", "storeClasses", "again", "sizes", "listSizes",
        "storeSizes", "done", "valid", "invalid"}
Lookups == [pc : Pcs, op : {"map", "validate"}, request : Requests \cup {NoRequest},
            need : Needs \cup {NoClass}, classes : ClassMaps \cup {NoClasses}, sizes : SUBSET Sizes,
            size : Sizes \cup {NoClass}, failed : BOOLEAN, waited : 0 .. MaxCall]

(* Every variable holds a value the program could hold.                       *)
SizingTypeOK ==
  /\ classes \in ClassMaps /\ offered \in Offers
  /\ classCache \in [data : ClassMaps \cup {NoClasses}, age : 0 .. ClassTTL + 1]
  /\ sizeCache \in [data : SUBSET Sizes, age : 0 .. SizeTTL]
  /\ lookup \in [Workers -> Lookups]
  /\ \A w \in Workers :
       lookup[w].pc \in {"sizes", "listSizes", "storeSizes"} /\ lookup[w].op = "map"
         => lookup[w].need \in Needs
  /\ classesHeld \in [ClassMaps -> 0 .. ClassWindow + 1]
  /\ offeredHeld \in [Offers -> 0 .. SizeWindow + 1]
  /\ budget \in 0 .. MaxDisruptions

(* The size a call comes to is that of a MachineClass and of a list of sizes  *)
(* which were the true ones at most the lifetime of the caches and two calls  *)
(* ago, whichever workers filled the caches and in whatever order; only a     *)
(* call of which a listing failed may come to a size of the static tables     *)
(* instead.                                                                   *)
SizeExplained ==
  \A w \in Workers : At(w, "done") =>
    LET r == lookup[w].request IN
    \/ lookup[w].failed /\ lookup[w].size \in {StaticMapping(r), StaticFallback(r)}
    \/ \E c \in ClassMaps, o \in Offers :
         /\ classesHeld[c] <= ClassWindow /\ offeredHeld[o] <= SizeWindow
         /\ lookup[w].size = SizeBy(r, c, o)

(* Once classes and offer stay as they are and listings succeed, every call   *)
(* comes to the size they imply: no stale entry survives in a cache.          *)
SizesCatchUp ==
  <>[](\A w \in Workers : At(w, "done") =>
         lookup[w].size = SizeBy(lookup[w].request, classes, offered))
=============================================================================
