---------------------------- MODULE VMSizingProofs ----------------------------
(* Theorems about VMSizing for any workers, classes, sizes, lifetimes and     *)
(* disruptions.                                                               *)
EXTENDS VMSizing, TLAPS

-----------------------------------------------------------------------------
(* The inductive invariant: what a call holds was true not long ago, and how  *)
(* long ago is bounded by the age of the cache entry it came from and by the  *)
(* time the call took to put it there and to use it.                          *)

Recent(c, t)  == c \in ClassMaps /\ classesHeld[c] <= t
OfferedAt(o, t) == o \in Offers /\ offeredHeld[o] <= t

(* An entry was listed by a call of at most MaxCall ticks.                    *)
CachesSound ==
  /\ Recent(classes, 0) /\ OfferedAt(offered, 0)
  /\ ClassesValid => Recent(classCache.data, classCache.age + MaxCall)
  /\ SizesValid => OfferedAt(sizeCache.data, sizeCache.age + MaxCall)

ForClass == {"class", "listClasses", "storeClasses", "again"}
ForSizes == {"sizes", "listSizes", "storeSizes"}

Asked(l) == l.request \in Requests /\ l.request.class \notin Sizes

(* A class that a call found, or found missing, in a valid cache.             *)
ClassSeen(l, need) ==
  \E c \in ClassMaps : /\ classesHeld[c] <= ClassTTL + MaxCall + l.waited
                       /\ c[l.request.class] = need

Outcome(l) ==
  \/ l.failed /\ l.size \in {StaticMapping(l.request), StaticFallback(l.request)}
  \/ \E c \in ClassMaps, o \in Offers :
       /\ classesHeld[c] <= ClassTTL + MaxCall + l.waited
       /\ offeredHeld[o] <= SizeTTL - 1 + MaxCall + l.waited
       /\ l.size = SizeBy(l.request, c, o)

(* A call at "again" either filled the cache itself and finds it valid still, *)
(* as a call is shorter than the lifetime, or found the class missing before. *)
Sound(l) ==
  /\ l.pc \in ForClass => Asked(l) /\ l.op = "map"
  /\ l.pc = "storeClasses" => Recent(l.classes, l.waited)
  /\ l.pc = "again" => classCache.age <= l.waited \/ ClassSeen(l, NoClass)
  /\ l.pc \in ForSizes /\ l.op = "map" =>
       Asked(l) /\ l.need # NoClass /\ ClassSeen(l, l.need)
  /\ l.pc = "storeSizes" => OfferedAt(l.sizes, l.waited)
  /\ l.pc = "done" => Outcome(l) /\ l.size \in Sizes

SizingInv ==
  /\ SizingTypeOK
  /\ CachesSound
  /\ \A w \in Workers : Sound(lookup[w])

-----------------------------------------------------------------------------
(* Data                                                                       *)

LEMMA TimeTyped ==
  /\ ClassTTL \in Nat /\ SizeTTL \in Nat /\ SizeTTL > 0 /\ MaxCall \in Nat /\ MaxCall <= ClassTTL
  /\ ClassWindow \in Nat /\ SizeWindow \in Nat
BY TimeAssumption DEF ClassWindow, SizeWindow

LEMMA StaticTyped ==
  ASSUME NEW r \in Requests PROVE StaticFallback(r) \in Sizes /\ StaticMapping(r) \in Sizes
<1>1. "medium" \in DOMAIN Tables /\ "gpu" \in DOMAIN Tables /\ Tables["gpu"]["gpu"] = "NC6s_v3"
  BY DEF Tables
<1>2. r.purpose \in Purposes /\ "gpu" \in Purposes
  BY RequestsAssumption DEF Purposes
<1>3. \A c \in DOMAIN Tables, p \in Purposes : Tables[c][p] \in Sizes
  BY SizesAssumption
<1>4. StaticFallback(r) \in Sizes
  BY <1>1, <1>2, <1>3 DEF StaticFallback
<1>5. "NC6s_v3" \in Sizes
  BY <1>1, <1>2, <1>3
<1> QED BY <1>4, <1>5 DEF StaticMapping

LEMMA MappedTyped ==
  ASSUME NEW r \in Requests, NEW need, NEW list \in SUBSET Sizes
  PROVE  Mapped(r, need, list) \in Sizes
<1> DEFINE fit  == Candidates(need, r.purpose, list)
           best == {s \in fit : \A t \in fit : Score(need, s) <= Score(need, t)}
<1>1. best \subseteq Sizes
  BY DEF Candidates
<1>2. Mapped(r, need, list) = IF best = {} THEN StaticMapping(r) ELSE CHOOSE s \in best : TRUE
  BY DEF Mapped
<1> HIDE DEF best
<1> QED BY <1>1, <1>2, StaticTyped

LEMMA CappedTyped ==
  ASSUME NEW cap \in Nat, NEW n \in 0 .. cap
  PROVE  Capped(n, cap) \in 0 .. cap /\ Capped(n, cap) <= n + 1
BY DEF Capped

LEMMA RestingTyped == Resting \in Lookups
BY TimeTyped DEF Resting, Lookups, Pcs, NoRequest

-----------------------------------------------------------------------------
(* Frames: what one worker leaves alone, and what mere ageing preserves       *)

Fits(l) == l \in Lookups /\ (l.pc \in ForSizes /\ l.op = "map" => l.need \in Needs)

TypedCaches ==
  /\ classCache \in [data : ClassMaps \cup {NoClasses}, age : 0 .. ClassTTL + 1]
  /\ sizeCache \in [data : SUBSET Sizes, age : 0 .. SizeTTL]

TypedSources ==
  /\ classes \in ClassMaps /\ offered \in Offers
  /\ classesHeld \in [ClassMaps -> 0 .. ClassWindow + 1]
  /\ offeredHeld \in [Offers -> 0 .. SizeWindow + 1]

(* Nothing a call holds grows older by more than the call itself does.        *)
Ages(v, d) ==
  /\ lookup'[v].waited = lookup[v].waited + d
  /\ lookup'[v].pc = lookup[v].pc /\ lookup'[v].op = lookup[v].op
  /\ lookup'[v].request = lookup[v].request /\ lookup'[v].need = lookup[v].need
  /\ lookup'[v].classes = lookup[v].classes /\ lookup'[v].sizes = lookup[v].sizes
  /\ lookup'[v].size = lookup[v].size /\ lookup'[v].failed = lookup[v].failed
Older(d) ==
  /\ \A c \in ClassMaps : classesHeld'[c] <= classesHeld[c] + d
  /\ \A o \in Offers : offeredHeld'[o] <= offeredHeld[o] + d
  /\ classCache'.age <= classCache.age + d

LEMMA SoundAges ==
  ASSUME TypedSources, TypedSources', TypedCaches, TypedCaches',
         NEW d \in 0 .. 1, NEW v \in Workers, Fits(lookup[v]), Sound(lookup[v]),
         Older(d), Ages(v, d)
  PROVE  Sound(lookup[v])'
<1> DEFINE l == lookup[v]
           m == lookup'[v]
<1>1. l.waited \in Nat /\ m.waited = l.waited + d /\ classCache.age \in Nat /\ classCache'.age \in Nat
  BY TimeTyped DEF Fits, Lookups, Ages, TypedCaches
<1>2. \A c \in ClassMaps : classesHeld[c] \in Nat /\ classesHeld'[c] \in Nat
  BY TimeTyped DEF TypedSources
<1>3. \A o \in Offers : offeredHeld[o] \in Nat /\ offeredHeld'[o] \in Nat
  BY TimeTyped DEF TypedSources
<1>4. \A c \in ClassMaps, t \in Int : classesHeld[c] <= t => classesHeld'[c] <= t + d
  BY <1>2 DEF Older
<1>5. \A o \in Offers, t \in Int : offeredHeld[o] <= t => offeredHeld'[o] <= t + d
  BY <1>3 DEF Older
<1>6. ASSUME l.pc = "storeClasses" PROVE Recent(l.classes, l.waited)'
  BY <1>1, <1>4, <1>6 DEF Sound, Recent, Ages
<1>7. ASSUME l.pc = "storeSizes" PROVE OfferedAt(l.sizes, l.waited)'
  BY <1>1, <1>5, <1>7 DEF Sound, OfferedAt, Ages
<1>8. ASSUME NEW need, ClassSeen(l, need) PROVE ClassSeen(l, need)'
  <2>1. PICK c \in ClassMaps : classesHeld[c] <= ClassTTL + MaxCall + l.waited /\ c[l.request.class] = need
    BY <1>8 DEF ClassSeen
  <2>2. classesHeld'[c] <= ClassTTL + MaxCall + m.waited
    BY <1>1, <1>4, <2>1, TimeTyped
  <2>3. c[m.request.class] = need
    BY <2>1 DEF Ages
  <2> QED BY <2>2, <2>3 DEF ClassSeen
<1>9. ASSUME Outcome(l) PROVE Outcome(l)'
  <2>1. CASE l.failed /\ l.size \in {StaticMapping(l.request), StaticFallback(l.request)}
    BY <2>1 DEF Outcome, Ages
  <2>2. CASE \E c \in ClassMaps, o \in Offers :
               /\ classesHeld[c] <= ClassTTL + MaxCall + l.waited
               /\ offeredHeld[o] <= SizeTTL - 1 + MaxCall + l.waited
               /\ l.size = SizeBy(l.request, c, o)
    <3>1. PICK c \in ClassMaps, o \in Offers :
               /\ classesHeld[c] <= ClassTTL + MaxCall + l.waited
               /\ offeredHeld[o] <= SizeTTL - 1 + MaxCall + l.waited
               /\ l.size = SizeBy(l.request, c, o)
      BY <2>2
    <3>2. classesHeld'[c] <= ClassTTL + MaxCall + m.waited
      BY <1>1, <1>4, <3>1, TimeTyped
    <3>3. offeredHeld'[o] <= SizeTTL - 1 + MaxCall + m.waited
      BY <1>1, <1>5, <3>1, TimeTyped
    <3>4. m.size = SizeBy(m.request, c, o)
      BY <3>1 DEF Ages
    <3> QED BY <3>2, <3>3, <3>4 DEF Outcome
  <2> QED BY <1>9, <2>1, <2>2 DEF Outcome
<1>10. classCache.age <= l.waited => classCache'.age <= m.waited
  BY <1>1 DEF Older
<1> QED
  BY <1>6, <1>7, <1>8, <1>9, <1>10 DEF Sound, Ages, Asked

Parts ==
  /\ TypedSources /\ TypedCaches /\ CachesSound
  /\ lookup \in [Workers -> Lookups]
  /\ \A w \in Workers : Fits(lookup[w]) /\ Sound(lookup[w])
  /\ budget \in 0 .. MaxDisruptions

LEMMA InvParts == (SizingInv <=> Parts) /\ (SizingInv <=> Parts)'
BY DEF SizingInv, SizingTypeOK, Parts, TypedSources, TypedCaches, Fits, ForSizes

LEMMA WaitedTyped == ASSUME NEW l \in Lookups PROVE l.waited \in 0 .. MaxCall
BY DEF Lookups

(* A step of worker w, after which its call is l.                             *)
LEMMA Step ==
  ASSUME SizingInv, NEW w \in Workers, NEW l, lookup' = [lookup EXCEPT ![w] = l],
         Fits(l), Sound(l)', UNCHANGED Sources,
         TypedCaches', CachesSound', classCache'.age <= classCache.age,
         budget' \in 0 .. MaxDisruptions
  PROVE  SizingInv'
<1>1. TypedSources /\ TypedSources' /\ TypedCaches
  BY InvParts DEF Parts, TypedSources, Sources
<1>2. Older(0)
  <2>1. \A c \in ClassMaps : classesHeld[c] \in Int
    BY <1>1, TimeTyped DEF TypedSources
  <2>2. \A o \in Offers : offeredHeld[o] \in Int
    BY <1>1, TimeTyped DEF TypedSources
  <2>3. classCache.age \in Int
    BY <1>1 DEF TypedCaches
  <2> QED BY <2>1, <2>2, <2>3 DEF Older, Sources
<1>3. lookup \in [Workers -> Lookups] /\ \A v \in Workers : Fits(lookup[v]) /\ Sound(lookup[v])
  BY InvParts DEF Parts
<1>4. ASSUME NEW v \in Workers PROVE Fits(lookup[v])' /\ Sound(lookup[v])'
  <2>1. CASE v = w
    BY <1>3, <2>1 DEF Fits, Sound, Recent, OfferedAt, ClassSeen, Outcome, Asked
  <2>2. CASE v # w
    <3>1. lookup'[v] = lookup[v]
      BY <1>3, <2>2
    <3>2. lookup[v].waited \in Int
      BY <1>3, WaitedTyped, TimeTyped
    <3>3. Ages(v, 0)
      BY <3>1, <3>2 DEF Ages
    <3>4. Sound(lookup[v])'
      BY <1>1, <1>2, <1>3, <3>3, SoundAges
    <3> QED BY <1>3, <3>1, <3>4 DEF Fits
  <2> QED BY <2>1, <2>2
<1>5. lookup' \in [Workers -> Lookups]
  BY <1>3 DEF Fits
<1>6. (budget \in 0 .. MaxDisruptions)'
  OBVIOUS
<1> QED
  BY <1>1, <1>4, <1>5, <1>6, InvParts DEF Parts

(* The same, when the caches stay as they are.                                *)
LEMMA QuietStep ==
  ASSUME SizingInv, NEW w \in Workers, NEW l, lookup' = [lookup EXCEPT ![w] = l],
         Fits(l), Sound(l), UNCHANGED <<Sources, Caches>>, budget' \in 0 .. MaxDisruptions
  PROVE  SizingInv'
<1>1. TypedCaches /\ CachesSound
  BY InvParts DEF Parts
<1>2. TypedCaches' /\ CachesSound' /\ classCache'.age <= classCache.age
  BY <1>1 DEF TypedCaches, CachesSound, Recent, OfferedAt, ClassesValid, SizesValid, Sources, Caches
<1>3. Sound(l)'
  BY DEF Sound, Recent, OfferedAt, ClassSeen, Outcome, Asked, Sources, Caches
<1> QED BY <1>2, <1>3, Step DEF Sources

(* The call of w becomes one that is typed and sound.                         *)
Moves(w) ==
  \E l : lookup' = [lookup EXCEPT ![w] = l] /\ Fits(l) /\ Sound(l)

LEMMA QuietMove ==
  ASSUME SizingInv, NEW w \in Workers, Moves(w), UNCHANGED <<Sources, Caches>>,
         budget' \in 0 .. MaxDisruptions
  PROVE  SizingInv'
BY QuietStep DEF Moves

LEMMA LookupTyped ==
  ASSUME SizingInv, NEW w \in Workers
  PROVE  /\ lookup[w] \in Lookups /\ Fits(lookup[w]) /\ Sound(lookup[w])
         /\ lookup \in [Workers -> Lookups]
BY InvParts DEF Parts

-----------------------------------------------------------------------------
(* How calls end                                                              *)

LEMMA DoneMoves ==
  ASSUME SizingInv, NEW w \in Workers, NEW size \in Sizes, NEW failed \in BOOLEAN,
         Done(w, size, failed),
         \/ failed /\ size \in {StaticMapping(lookup[w].request), StaticFallback(lookup[w].request)}
         \/ \E c \in ClassMaps, o \in Offers :
              /\ classesHeld[c] <= ClassTTL + MaxCall + lookup[w].waited
              /\ offeredHeld[o] <= SizeTTL - 1 + MaxCall + lookup[w].waited
              /\ size = SizeBy(lookup[w].request, c, o)
  PROVE  Moves(w)
<1>1. lookup[w] \in Lookups
  BY LookupTyped
<1>2. PICK l : l = [lookup[w] EXCEPT !.pc = "done", !.size = size, !.failed = failed,
                                     !.need = NoClass, !.classes = NoClasses, !.sizes = {}]
  OBVIOUS
<1>3. lookup' = [lookup EXCEPT ![w] = l]
  BY <1>1, <1>2, LookupTyped DEF Done
<1>4. l \in Lookups
  BY <1>1, <1>2 DEF Lookups, Pcs
<1>5. /\ l.pc = "done" /\ l.size = size /\ l.failed = failed
      /\ l.request = lookup[w].request /\ l.waited = lookup[w].waited
  BY <1>1, <1>2 DEF Lookups
<1>6. Outcome(l)
  BY <1>5 DEF Outcome
<1> QED
  BY <1>3, <1>4, <1>5, <1>6 DEF Moves, Fits, Sound, ForClass, ForSizes

(* A list of sizes that was true when the call, or the entry, was young.      *)
LEMMA ListedMoves ==
  ASSUME SizingInv, NEW w \in Workers, lookup[w].pc \in {"sizes", "storeSizes"}, NEW list,
         OfferedAt(list, SizeTTL - 1 + MaxCall + lookup[w].waited), Listed(w, list)
  PROVE  Moves(w)
<1>1. lookup[w] \in Lookups /\ Sound(lookup[w]) /\ Fits(lookup[w])
  BY LookupTyped
<1>2. CASE lookup[w].op = "map"
  <2>1. Asked(lookup[w]) /\ lookup[w].need # NoClass /\ ClassSeen(lookup[w], lookup[w].need)
    BY <1>1, <1>2 DEF Sound, ForSizes
  <2>2. PICK c \in ClassMaps : /\ classesHeld[c] <= ClassTTL + MaxCall + lookup[w].waited
                               /\ c[lookup[w].request.class] = lookup[w].need
    BY <2>1 DEF ClassSeen
  <2>3. Mapped(lookup[w].request, lookup[w].need, list) = SizeBy(lookup[w].request, c, list)
    BY <2>1, <2>2 DEF SizeBy, Asked
  <2>4. list \in Offers /\ offeredHeld[list] <= SizeTTL - 1 + MaxCall + lookup[w].waited
    BY DEF OfferedAt
  <2>5. Mapped(lookup[w].request, lookup[w].need, list) \in Sizes
    BY <2>1, <2>4, SizesAssumption, MappedTyped DEF Asked
  <2>6. Done(w, Mapped(lookup[w].request, lookup[w].need, list), FALSE)
    BY <1>2 DEF Listed
  <2> QED BY <2>2, <2>3, <2>4, <2>5, <2>6, DoneMoves
<1>3. CASE lookup[w].op # "map"
  <2>1. PICK p \in {"valid", "invalid"} : lookup' = [lookup EXCEPT ![w].pc = p]
    BY <1>3 DEF Listed, Goto
  <2>2. PICK l : l = [lookup[w] EXCEPT !.pc = p]
    OBVIOUS
  <2>3. l \in Lookups /\ l.pc = p
    BY <1>1, <2>1, <2>2 DEF Lookups, Pcs
  <2>4. lookup' = [lookup EXCEPT ![w] = l]
    BY <2>1, <2>2, LookupTyped
  <2> QED BY <2>1, <2>3, <2>4 DEF Moves, Fits, Sound, ForClass, ForSizes
<1> QED BY <1>2, <1>3

LEMMA BudgetKept == SizingInv => budget \in 0 .. MaxDisruptions
BY InvParts DEF Parts

-----------------------------------------------------------------------------
(* The steps of a worker                                                      *)

LEMMA SoundStartMap ==
  ASSUME SizingInv, NEW w \in Workers, NEW r \in Requests, StartMap(w, r) PROVE SizingInv'
<1>1. lookup \in [Workers -> Lookups] /\ Resting \in Lookups
  BY LookupTyped, RestingTyped
<1>2. CASE r.class \in Sizes
  <2>1. PICK l : l = [Resting EXCEPT !.pc = "done", !.request = r, !.size = r.class]
    OBVIOUS
  <2>2. lookup' = [lookup EXCEPT ![w] = l]
    BY <1>2, <2>1 DEF StartMap
  <2>3. l \in Lookups /\ l.pc = "done" /\ l.size = r.class /\ l.request = r /\ l.waited = 0
    BY <1>1, <1>2, <2>1 DEF Resting, Lookups, Pcs
  <2>4. classes \in ClassMaps /\ offered \in Offers /\ classesHeld[classes] <= 0 /\ offeredHeld[offered] <= 0
    BY InvParts DEF Parts, CachesSound, Recent, OfferedAt
  <2>5. classesHeld[classes] \in Int /\ offeredHeld[offered] \in Int
    BY <2>4, InvParts, TimeTyped DEF Parts, TypedSources
  <2>6. l.size = SizeBy(l.request, classes, offered)
    BY <1>2, <2>3 DEF SizeBy
  <2>7. Outcome(l)
    BY <2>3, <2>4, <2>5, <2>6, TimeTyped DEF Outcome
  <2>8. Moves(w)
    BY <1>2, <2>2, <2>3, <2>7 DEF Moves, Fits, Sound, ForClass, ForSizes
  <2> QED BY <2>8, QuietMove, BudgetKept DEF StartMap
<1>3. CASE r.class \notin Sizes
  <2>1. PICK l : l = [Resting EXCEPT !.pc = "class", !.request = r]
    OBVIOUS
  <2>2. lookup' = [lookup EXCEPT ![w] = l]
    BY <1>3, <2>1 DEF StartMap
  <2>3. l \in Lookups /\ l.pc = "class" /\ l.op = "map" /\ l.request = r
    BY <1>1, <2>1 DEF Resting, Lookups, Pcs
  <2>4. Moves(w)
    BY <1>3, <2>2, <2>3 DEF Moves, Fits, Sound, Asked, ForClass, ForSizes
  <2> QED BY <2>4, QuietMove, BudgetKept DEF StartMap
<1> QED BY <1>2, <1>3

LEMMA SoundStartValidate ==
  ASSUME SizingInv, NEW w \in Workers, StartValidate(w) PROVE SizingInv'
<1>1. lookup[w] \in Lookups /\ lookup \in [Workers -> Lookups]
  BY LookupTyped
<1>2. PICK l : l = [lookup[w] EXCEPT !.pc = "sizes", !.op = "validate", !.waited = 0]
  OBVIOUS
<1>3. lookup' = [lookup EXCEPT ![w] = l]
  BY <1>1, <1>2 DEF StartValidate
<1>4. l \in Lookups /\ l.pc = "sizes" /\ l.op = "validate"
  <2>1. 0 \in 0 .. MaxCall
    BY TimeTyped
  <2> QED BY <1>1, <1>2, <2>1 DEF Lookups, Pcs
<1>5. Moves(w)
  BY <1>3, <1>4 DEF Moves, Fits, Sound, ForClass
<1> QED BY <1>5, QuietMove, BudgetKept DEF StartValidate

LEMMA SoundFinish ==
  ASSUME SizingInv, NEW w \in Workers, EndCall(w), budget' \in 0 .. MaxDisruptions PROVE SizingInv'
<1>1. PICK l : l = Resting
  OBVIOUS
<1>2. l \in Lookups /\ l.pc = "idle"
  BY <1>1, RestingTyped DEF Resting
<1>3. Moves(w)
  BY <1>1, <1>2 DEF Moves, EndCall, Fits, Sound, ForClass, ForSizes
<1> QED BY <1>3, QuietMove DEF EndCall

(* What a valid cache of classes says was true when the entry was listed.     *)
LEMMA ClassFromCache ==
  ASSUME SizingInv, NEW w \in Workers, lookup[w].pc \in ForClass, ClassesValid
  PROVE  /\ Asked(lookup[w]) /\ lookup[w].op = "map" /\ lookup[w].request.class \in Classes
         /\ classCache.data \in ClassMaps
         /\ classesHeld[classCache.data] <= ClassTTL + MaxCall + lookup[w].waited
<1>1. Asked(lookup[w]) /\ lookup[w].op = "map" /\ lookup[w].waited \in Nat
  BY LookupTyped, WaitedTyped, TimeTyped DEF Sound
<1>2. lookup[w].request.class \in Classes
  BY <1>1, RequestsAssumption DEF Asked
<1>3. Recent(classCache.data, classCache.age + MaxCall) /\ classCache.age \in Nat
  BY InvParts, TimeTyped DEF Parts, CachesSound, TypedCaches
<1>4. classesHeld[classCache.data] \in Nat
  BY <1>3, InvParts, TimeTyped DEF Parts, TypedSources, Recent
<1> QED BY <1>1, <1>2, <1>3, <1>4, TimeTyped DEF Recent, ClassesValid

LEMMA TakeMoves ==
  ASSUME SizingInv, NEW w \in Workers, lookup[w].pc \in ForClass, HasClass(w), TakeClass(w)
  PROVE  Moves(w)
<1>1. lookup[w] \in Lookups /\ lookup \in [Workers -> Lookups]
  BY LookupTyped
<1>2. /\ Asked(lookup[w]) /\ lookup[w].op = "map" /\ lookup[w].request.class \in Classes
      /\ classCache.data \in ClassMaps
      /\ classesHeld[classCache.data] <= ClassTTL + MaxCall + lookup[w].waited
  BY ClassFromCache DEF HasClass
<1>3. PICK need : need = classCache.data[lookup[w].request.class]
  OBVIOUS
<1>4. need \in Needs /\ need # NoClass
  BY <1>2, <1>3, RequirementAssumption DEF HasClass
<1>5. PICK l : l = [lookup[w] EXCEPT !.pc = "sizes", !.need = need]
  OBVIOUS
<1>6. lookup' = [lookup EXCEPT ![w] = l]
  BY <1>1, <1>3, <1>5 DEF TakeClass
<1>7. /\ l \in Lookups /\ l.pc = "sizes" /\ l.op = "map" /\ l.need = need
      /\ l.request = lookup[w].request /\ l.waited = lookup[w].waited
  BY <1>1, <1>2, <1>4, <1>5 DEF Lookups, Pcs
<1>8. ClassSeen(l, need)
  BY <1>2, <1>3, <1>7 DEF ClassSeen
<1> QED
  BY <1>2, <1>4, <1>6, <1>7, <1>8 DEF Moves, Fits, Sound, Asked, ForClass

LEMMA SoundGetClass ==
  ASSUME SizingInv, NEW w \in Workers, GetClass(w) PROVE SizingInv'
<1>1. /\ lookup[w] \in Lookups /\ lookup \in [Workers -> Lookups]
      /\ lookup[w].pc = "class" /\ lookup[w].pc \in ForClass /\ Sound(lookup[w])
  BY LookupTyped DEF GetClass, At, ForClass
<1>2. CASE HasClass(w) /\ TakeClass(w)
  BY <1>1, <1>2, TakeMoves, QuietMove, BudgetKept DEF GetClass
<1>3. ASSUME NEW p \in {"again", "listClasses"}, ~HasClass(w), p = "again" => ClassesValid,
             lookup' = [lookup EXCEPT ![w].pc = p]
      PROVE  Moves(w)
  <2>1. PICK l : l = [lookup[w] EXCEPT !.pc = p]
    OBVIOUS
  <2>2. lookup' = [lookup EXCEPT ![w] = l]
    BY <1>1, <1>3, <2>1
  <2>3. /\ l \in Lookups /\ l.pc = p /\ l.op = lookup[w].op
        /\ l.request = lookup[w].request /\ l.waited = lookup[w].waited
    BY <1>1, <2>1 DEF Lookups, Pcs
  <2>4. Asked(l) /\ l.op = "map"
    BY <1>1, <2>3 DEF Sound, Asked
  <2>5. p = "again" => ClassSeen(l, NoClass)
    BY <1>1, <1>3, <2>3, ClassFromCache DEF ClassSeen, HasClass
  <2> QED BY <2>2, <2>3, <2>4, <2>5 DEF Moves, Fits, Sound, ForClass, ForSizes
<1>4. CASE ~HasClass(w) /\ Goto(w, IF ClassesValid /\ classCache.data # NoClasses
                                   THEN "again" ELSE "listClasses")
  <2>1. Moves(w)
    BY <1>3, <1>4 DEF Goto
  <2> QED BY <2>1, QuietMove, BudgetKept DEF GetClass
<1> QED BY <1>2, <1>4 DEF GetClass

LEMMA SoundListClasses ==
  ASSUME SizingInv, NEW w \in Workers, ListClasses(w) PROVE SizingInv'
<1>1. /\ lookup[w] \in Lookups /\ lookup \in [Workers -> Lookups]
      /\ lookup[w].pc = "listClasses" /\ Sound(lookup[w])
  BY LookupTyped DEF ListClasses, At
<1>2. Recent(classes, 0) /\ classes \in ClassMaps
  BY InvParts DEF Parts, CachesSound, TypedSources
<1>3. PICK now : now = classes
  OBVIOUS
<1>4. PICK l : l = [lookup[w] EXCEPT !.pc = "storeClasses", !.classes = now]
  OBVIOUS
<1>5. lookup' = [lookup EXCEPT ![w] = l]
  BY <1>1, <1>3, <1>4 DEF ListClasses
<1>6. /\ l \in Lookups /\ l.pc = "storeClasses" /\ l.op = lookup[w].op /\ l.classes = now
      /\ l.request = lookup[w].request /\ l.waited = lookup[w].waited
  BY <1>1, <1>2, <1>3, <1>4 DEF Lookups, Pcs
<1>7. Asked(l) /\ l.op = "map"
  BY <1>1, <1>6 DEF Sound, Asked, ForClass
<1>8. Recent(l.classes, l.waited)
  <2>1. classesHeld[classes] \in Nat /\ l.waited \in Nat
    BY <1>2, <1>6, WaitedTyped, InvParts, TimeTyped DEF Parts, TypedSources
  <2> QED BY <1>2, <1>3, <1>6, <2>1 DEF Recent
<1>9. Moves(w)
  BY <1>5, <1>6, <1>7, <1>8 DEF Moves, Fits, Sound, ForClass, ForSizes
<1> QED BY <1>9, QuietMove, BudgetKept DEF ListClasses

LEMMA SoundListClassesFails ==
  ASSUME SizingInv, NEW w \in Workers, ListClassesFails(w) PROVE SizingInv'
<1>1. lookup[w].request \in Requests
  BY LookupTyped DEF ListClassesFails, At, Sound, Asked, ForClass
<1>2. StaticMapping(lookup[w].request) \in Sizes
  BY <1>1, StaticTyped
<1>3. Moves(w)
  BY <1>2, DoneMoves DEF ListClassesFails
<1>4. budget' \in 0 .. MaxDisruptions
  BY BudgetKept, BudgetAssumption DEF ListClassesFails, Disturbed
<1> QED BY <1>3, <1>4, QuietMove DEF ListClassesFails

LEMMA SoundStoreClasses ==
  ASSUME SizingInv, NEW w \in Workers, StoreClasses(w) PROVE SizingInv'
<1>1. /\ lookup[w] \in Lookups /\ lookup \in [Workers -> Lookups]
      /\ lookup[w].pc = "storeClasses" /\ Sound(lookup[w])
  BY LookupTyped DEF StoreClasses, At
<1>2. lookup[w].waited \in 0 .. MaxCall /\ 0 \in 0 .. ClassTTL + 1 /\ NoClasses \in ClassMaps \cup {NoClasses}
  BY <1>1, WaitedTyped, TimeTyped
<1>3. Recent(lookup[w].classes, lookup[w].waited)
  BY <1>1 DEF Sound
<1>4. PICK l : l = [lookup[w] EXCEPT !.pc = "again", !.classes = NoClasses]
  OBVIOUS
<1>5. lookup' = [lookup EXCEPT ![w] = l]
  BY <1>1, <1>4 DEF StoreClasses
<1>6. /\ l \in Lookups /\ l.pc = "again" /\ l.op = lookup[w].op
      /\ l.request = lookup[w].request /\ l.waited = lookup[w].waited
  BY <1>1, <1>2, <1>4 DEF Lookups, Pcs
<1>7. Asked(l) /\ l.op = "map"
  BY <1>1, <1>6 DEF Sound, Asked, ForClass
<1>8. classCache' = [data |-> lookup[w].classes, age |-> 0] /\ UNCHANGED <<Sources, sizeCache, budget>>
  BY DEF StoreClasses
<1>9. TypedCaches /\ CachesSound /\ TypedSources
  BY InvParts DEF Parts
<1>10. TypedCaches'
  BY <1>2, <1>3, <1>8, <1>9 DEF TypedCaches, Recent
<1>11. CachesSound'
  <2>1. classesHeld[lookup[w].classes] \in Nat
    BY <1>3, <1>9, TimeTyped DEF TypedSources, Recent
  <2>2. Recent(classCache.data, classCache.age + MaxCall)'
    BY <1>2, <1>3, <1>8, <2>1, TimeTyped DEF Recent, Sources
  <2> QED BY <1>8, <1>9, <2>2 DEF CachesSound, Recent, OfferedAt, SizesValid, Sources
<1>12. classCache'.age <= classCache.age /\ classCache'.age <= l.waited
  BY <1>2, <1>6, <1>8, <1>9, TimeTyped DEF TypedCaches
<1>13. Sound(l)'
  BY <1>6, <1>7, <1>12 DEF Sound, Asked, ForClass, ForSizes
<1>14. Fits(l)
  BY <1>6 DEF Fits, ForSizes
<1> QED
  BY <1>5, <1>8, <1>10, <1>11, <1>12, <1>13, <1>14, Step, BudgetKept

(* A class that is missing at the second look was missing not long ago, also  *)
(* if the entry has expired or been replaced since it was put there.          *)
LEMMA MissingAgain ==
  ASSUME SizingInv, NEW w \in Workers, At(w, "again"), ~HasClass(w)
  PROVE  ClassSeen(lookup[w], NoClass)
<1>1. /\ lookup[w] \in Lookups /\ Sound(lookup[w]) /\ lookup[w].pc = "again"
      /\ lookup[w].pc \in ForClass
  BY LookupTyped DEF At, ForClass
<1>2. lookup[w].waited \in 0 .. MaxCall /\ classCache.age \in Nat
  BY <1>1, WaitedTyped, InvParts, TimeTyped DEF Parts, TypedCaches
<1>3. CASE classCache.age <= lookup[w].waited
  <2>1. ClassesValid
    BY <1>2, <1>3, TimeTyped DEF ClassesValid
  <2> QED BY <1>1, <2>1, ClassFromCache DEF HasClass, ClassSeen
<1> QED BY <1>1, <1>3 DEF Sound

LEMMA SoundGetClassAgain ==
  ASSUME SizingInv, NEW w \in Workers, GetClassAgain(w) PROVE SizingInv'
<1>1. /\ lookup[w] \in Lookups /\ Sound(lookup[w]) /\ lookup[w].pc = "again"
      /\ lookup[w].pc \in ForClass
  BY LookupTyped DEF GetClassAgain, At, ForClass
<1>2. CASE HasClass(w) /\ TakeClass(w)
  BY <1>1, <1>2, TakeMoves, QuietMove, BudgetKept DEF GetClassAgain
<1>3. CASE ~HasClass(w) /\ Done(w, StaticMapping(lookup[w].request), FALSE)
  <2>1. Asked(lookup[w]) /\ StaticMapping(lookup[w].request) \in Sizes
    BY <1>1, StaticTyped DEF Sound, Asked
  <2>2. PICK c \in ClassMaps : /\ classesHeld[c] <= ClassTTL + MaxCall + lookup[w].waited
                               /\ c[lookup[w].request.class] = NoClass
    BY <1>3, MissingAgain DEF ClassSeen, GetClassAgain
  <2>3. OfferedAt(offered, 0)
    BY InvParts DEF Parts, CachesSound
  <2>4. offeredHeld[offered] <= SizeTTL - 1 + MaxCall + lookup[w].waited
    <3>1. offeredHeld[offered] \in Nat /\ lookup[w].waited \in Nat
      BY <1>1, <2>3, WaitedTyped, InvParts, TimeTyped DEF Parts, TypedSources, OfferedAt
    <3> QED BY <2>3, <3>1, TimeTyped DEF OfferedAt
  <2>5. StaticMapping(lookup[w].request) = SizeBy(lookup[w].request, c, offered)
    BY <2>1, <2>2 DEF SizeBy, Asked
  <2>6. Moves(w)
    BY <1>3, <2>1, <2>2, <2>3, <2>4, <2>5, DoneMoves DEF OfferedAt
  <2> QED BY <2>6, QuietMove, BudgetKept DEF GetClassAgain
<1> QED BY <1>2, <1>3 DEF GetClassAgain

LEMMA SoundGetSizes ==
  ASSUME SizingInv, NEW w \in Workers, GetSizes(w) PROVE SizingInv'
<1>1. /\ lookup[w] \in Lookups /\ lookup \in [Workers -> Lookups] /\ Sound(lookup[w])
      /\ Fits(lookup[w]) /\ lookup[w].pc = "sizes"
  BY LookupTyped DEF GetSizes, At
<1>2. CASE SizesValid /\ Listed(w, sizeCache.data)
  <2>1. OfferedAt(sizeCache.data, sizeCache.age + MaxCall)
    BY <1>2, InvParts DEF Parts, CachesSound
  <2>2. sizeCache.age \in Nat /\ sizeCache.age <= SizeTTL - 1
    BY <1>2, InvParts, TimeTyped DEF Parts, TypedCaches, SizesValid
  <2>3. offeredHeld[sizeCache.data] \in Nat /\ lookup[w].waited \in Nat
    BY <1>1, <2>1, WaitedTyped, InvParts, TimeTyped DEF Parts, TypedSources, OfferedAt
  <2>4. OfferedAt(sizeCache.data, SizeTTL - 1 + MaxCall + lookup[w].waited)
    BY <2>1, <2>2, <2>3, TimeTyped DEF OfferedAt
  <2>5. Moves(w)
    BY <1>1, <1>2, <2>4, ListedMoves
  <2> QED BY <2>5, QuietMove, BudgetKept DEF GetSizes
<1>3. CASE ~SizesValid /\ Goto(w, "listSizes")
  <2>1. PICK l : l = [lookup[w] EXCEPT !.pc = "listSizes"]
    OBVIOUS
  <2>2. lookup' = [lookup EXCEPT ![w] = l]
    BY <1>1, <1>3, <2>1 DEF Goto
  <2>3. /\ l \in Lookups /\ l.pc = "listSizes" /\ l.op = lookup[w].op /\ l.need = lookup[w].need
        /\ l.request = lookup[w].request /\ l.waited = lookup[w].waited
    BY <1>1, <2>1 DEF Lookups, Pcs
  <2>4. Fits(l)
    BY <1>1, <2>3 DEF Fits, ForSizes
  <2>5. Sound(l)
    BY <1>1, <2>3 DEF Sound, Asked, ClassSeen, ForSizes, ForClass
  <2> QED BY <2>2, <2>4, <2>5, QuietStep, BudgetKept DEF GetSizes
<1> QED BY <1>2, <1>3 DEF GetSizes

LEMMA SoundListSizes ==
  ASSUME SizingInv, NEW w \in Workers, ListSizes(w) PROVE SizingInv'
<1>1. /\ lookup[w] \in Lookups /\ lookup \in [Workers -> Lookups] /\ Sound(lookup[w])
      /\ Fits(lookup[w]) /\ lookup[w].pc = "listSizes"
  BY LookupTyped DEF ListSizes, At
<1>2. OfferedAt(offered, 0) /\ offered \in SUBSET Sizes
  BY InvParts, SizesAssumption DEF Parts, CachesSound, OfferedAt
<1>3. PICK now : now = offered
  OBVIOUS
<1>4. PICK l : l = [lookup[w] EXCEPT !.pc = "storeSizes", !.sizes = now]
  OBVIOUS
<1>5. lookup' = [lookup EXCEPT ![w] = l]
  BY <1>1, <1>3, <1>4 DEF ListSizes
<1>6. /\ l \in Lookups /\ l.pc = "storeSizes" /\ l.op = lookup[w].op /\ l.need = lookup[w].need
      /\ l.sizes = now /\ l.request = lookup[w].request /\ l.waited = lookup[w].waited
  BY <1>1, <1>2, <1>3, <1>4 DEF Lookups, Pcs
<1>7. OfferedAt(l.sizes, l.waited)
  <2>1. offeredHeld[offered] \in Nat /\ l.waited \in Nat
    BY <1>2, <1>6, WaitedTyped, InvParts, TimeTyped DEF Parts, TypedSources, OfferedAt
  <2> QED BY <1>2, <1>3, <1>6, <2>1 DEF OfferedAt
<1>8. Fits(l)
  BY <1>1, <1>6 DEF Fits, ForSizes
<1>9. Sound(l)
  BY <1>1, <1>6, <1>7 DEF Sound, Asked, ClassSeen, ForSizes, ForClass
<1> QED BY <1>5, <1>8, <1>9, QuietStep, BudgetKept DEF ListSizes

LEMMA SoundListSizesFails ==
  ASSUME SizingInv, NEW w \in Workers, ListSizesFails(w) PROVE SizingInv'
<1>1. /\ lookup[w] \in Lookups /\ lookup \in [Workers -> Lookups] /\ Sound(lookup[w])
      /\ lookup[w].pc = "listSizes"
  BY LookupTyped DEF ListSizesFails, At
<1>2. budget' \in 0 .. MaxDisruptions
  BY BudgetKept, BudgetAssumption DEF ListSizesFails, Disturbed
<1>3. CASE lookup[w].op = "map"
  <2>1. StaticFallback(lookup[w].request) \in Sizes
    BY <1>1, <1>3, StaticTyped DEF Sound, Asked, ForSizes
  <2>2. Moves(w)
    BY <1>3, <2>1, DoneMoves DEF ListSizesFails
  <2> QED BY <1>2, <2>2, QuietMove DEF ListSizesFails
<1>4. CASE lookup[w].op # "map"
  <2>1. PICK answer \in {"valid", "invalid"} : Goto(w, answer)
    BY <1>4 DEF ListSizesFails
  <2> DEFINE l == [lookup[w] EXCEPT !.pc = answer]
  <2>2. lookup' = [lookup EXCEPT ![w] = l]
    BY <1>1, <2>1 DEF Goto
  <2>3. l \in Lookups /\ l.pc \in {"valid", "invalid"}
    BY <1>1, <2>1 DEF Lookups, Pcs
  <2> HIDE DEF l
  <2>4. Moves(w)
    BY <2>2, <2>3 DEF Moves, Fits, Sound, ForClass, ForSizes
  <2> QED BY <1>2, <2>4, QuietMove DEF ListSizesFails
<1> QED BY <1>3, <1>4

LEMMA SoundStoreSizes ==
  ASSUME SizingInv, NEW w \in Workers, StoreSizes(w) PROVE SizingInv'
<1>1. /\ lookup[w] \in Lookups /\ Sound(lookup[w]) /\ lookup[w].pc = "storeSizes"
  BY LookupTyped DEF StoreSizes, At
<1>2. OfferedAt(lookup[w].sizes, lookup[w].waited) /\ lookup[w].sizes \in SUBSET Sizes
  BY <1>1, SizesAssumption DEF Sound, OfferedAt
<1>3. lookup[w].waited \in 0 .. MaxCall /\ offeredHeld[lookup[w].sizes] \in Nat
  BY <1>1, <1>2, WaitedTyped, InvParts, TimeTyped DEF Parts, TypedSources, OfferedAt
<1>4. OfferedAt(lookup[w].sizes, SizeTTL - 1 + MaxCall + lookup[w].waited)
  BY <1>2, <1>3, TimeTyped DEF OfferedAt
<1>5. Moves(w)
  BY <1>1, <1>4, ListedMoves DEF StoreSizes
<1>6. PICK l : lookup' = [lookup EXCEPT ![w] = l] /\ Fits(l) /\ Sound(l)
  BY <1>5 DEF Moves
<1>7. sizeCache' = [data |-> lookup[w].sizes, age |-> 0] /\ UNCHANGED <<Sources, classCache, budget>>
  BY DEF StoreSizes
<1>8. TypedCaches /\ CachesSound
  BY InvParts DEF Parts
<1>9. TypedCaches' /\ classCache'.age <= classCache.age
  BY <1>2, <1>7, <1>8, TimeTyped DEF TypedCaches
<1>10. CachesSound'
  <2>1. OfferedAt(sizeCache.data, sizeCache.age + MaxCall)'
    BY <1>2, <1>3, <1>7, TimeTyped DEF OfferedAt, Sources
  <2> QED BY <1>7, <1>8, <2>1 DEF CachesSound, Recent, OfferedAt, ClassesValid, Sources
<1>11. Sound(l)'
  BY <1>6, <1>7 DEF Sound, Recent, OfferedAt, ClassSeen, Outcome, Asked, Sources
<1> QED
  BY <1>6, <1>7, <1>9, <1>10, <1>11, Step, BudgetKept

-----------------------------------------------------------------------------
(* The environment                                                            *)

(* Sources change and time may pass; the caches stay or grow older.           *)
LEMMA WorldStep ==
  ASSUME SizingInv, TypedSources', TypedCaches', CachesSound', NEW d \in 0 .. 1, Older(d),
         lookup' \in [Workers -> Lookups], budget' \in 0 .. MaxDisruptions,
         \A w \in Workers : Ages(w, d) \/ (lookup[w].pc = "idle" /\ lookup'[w] = lookup[w])
  PROVE  SizingInv'
<1>1. TypedSources /\ TypedCaches /\ \A w \in Workers : Fits(lookup[w]) /\ Sound(lookup[w])
  BY InvParts DEF Parts
<1>2. ASSUME NEW w \in Workers PROVE Fits(lookup[w])' /\ Sound(lookup[w])'
  <2>1. CASE Ages(w, d)
    <3>1. Sound(lookup[w])'
      BY <1>1, <2>1, SoundAges
    <3> QED BY <1>1, <2>1, <3>1 DEF Fits, Ages
  <2>2. CASE lookup[w].pc = "idle" /\ lookup'[w] = lookup[w]
    BY <1>1, <2>2 DEF Fits, Sound, ForClass, ForSizes
  <2> QED BY <2>1, <2>2
<1> QED BY <1>2, InvParts DEF Parts

LEMMA SoundTick ==
  ASSUME SizingInv, Tick PROVE SizingInv'
<1>1. /\ TypedSources /\ TypedCaches /\ CachesSound /\ budget \in 0 .. MaxDisruptions
      /\ lookup \in [Workers -> Lookups]
  BY InvParts DEF Parts
<1>2. /\ classCache' = [data |-> classCache.data, age |-> Capped(classCache.age, ClassTTL + 1)]
      /\ sizeCache' = [data |-> sizeCache.data, age |-> Capped(sizeCache.age, SizeTTL)]
  BY <1>1 DEF Tick, TypedCaches
<1>3. /\ classCache'.age \in 0 .. ClassTTL + 1 /\ classCache'.age <= classCache.age + 1
      /\ sizeCache'.age \in 0 .. SizeTTL /\ sizeCache'.age <= sizeCache.age + 1
  <2>1. /\ ClassTTL + 1 \in Nat /\ classCache.age \in 0 .. ClassTTL + 1
        /\ SizeTTL \in Nat /\ sizeCache.age \in 0 .. SizeTTL
    BY <1>1, TimeTyped DEF TypedCaches
  <2>2. /\ classCache'.age = Capped(classCache.age, ClassTTL + 1)
        /\ sizeCache'.age = Capped(sizeCache.age, SizeTTL)
    BY <1>2
  <2> QED BY <2>1, <2>2, CappedTyped
<1>4. TypedCaches'
  BY <1>1, <1>2, <1>3 DEF TypedCaches
<1>5. ASSUME NEW c \in ClassMaps
      PROVE  classesHeld'[c] \in 0 .. ClassWindow + 1 /\ classesHeld'[c] <= classesHeld[c] + 1
  <2>1. ClassWindow + 1 \in Nat /\ classesHeld[c] \in 0 .. ClassWindow + 1
    BY <1>1, TimeTyped DEF TypedSources
  <2>2. classesHeld'[c] = IF c = classes THEN 0 ELSE Capped(classesHeld[c], ClassWindow + 1)
    BY DEF Tick
  <2>3. CASE c = classes
    BY <2>1, <2>2, <2>3
  <2>4. CASE c # classes
    BY <2>1, <2>2, <2>4, CappedTyped
  <2> QED BY <2>3, <2>4
<1>6. ASSUME NEW o \in Offers
      PROVE  offeredHeld'[o] \in 0 .. SizeWindow + 1 /\ offeredHeld'[o] <= offeredHeld[o] + 1
  <2>1. SizeWindow + 1 \in Nat /\ offeredHeld[o] \in 0 .. SizeWindow + 1
    BY <1>1, TimeTyped DEF TypedSources
  <2>2. offeredHeld'[o] = IF o = offered THEN 0 ELSE Capped(offeredHeld[o], SizeWindow + 1)
    BY DEF Tick
  <2>3. CASE o = offered
    BY <2>1, <2>2, <2>3
  <2>4. CASE o # offered
    BY <2>1, <2>2, <2>4, CappedTyped
  <2> QED BY <2>3, <2>4
<1>7. TypedSources'
  BY <1>1, <1>5, <1>6 DEF TypedSources, Tick
<1>8. Older(1)
  BY <1>3, <1>5, <1>6 DEF Older
<1>9. CachesSound'
  <2>1. Recent(classes, 0)' /\ OfferedAt(offered, 0)'
    BY <1>1 DEF Tick, Recent, OfferedAt, TypedSources
  <2>2. ASSUME ClassesValid' PROVE Recent(classCache.data, classCache.age + MaxCall)'
    <3>1. ClassesValid /\ classCache'.age = classCache.age + 1
      BY <1>1, <1>2, <2>2, TimeTyped DEF ClassesValid, Capped, TypedCaches
    <3>2. classCache.data \in ClassMaps /\ classesHeld[classCache.data] <= classCache.age + MaxCall
      BY <1>1, <3>1 DEF CachesSound, Recent
    <3>3. /\ classesHeld[classCache.data] \in Nat /\ classesHeld'[classCache.data] \in Nat
          /\ classCache.age \in Nat
      BY <1>1, <1>7, <3>2, TimeTyped DEF TypedSources, TypedCaches
    <3>4. classesHeld'[classCache.data] <= classesHeld[classCache.data] + 1
      BY <1>5, <3>2
    <3> QED BY <1>2, <3>1, <3>2, <3>3, <3>4, TimeTyped DEF Recent
  <2>3. ASSUME SizesValid' PROVE OfferedAt(sizeCache.data, sizeCache.age + MaxCall)'
    <3>1. SizesValid /\ sizeCache'.age = sizeCache.age + 1
      BY <1>1, <1>2, <2>3, TimeTyped DEF SizesValid, Capped, TypedCaches
    <3>2. sizeCache.data \in Offers /\ offeredHeld[sizeCache.data] <= sizeCache.age + MaxCall
      BY <1>1, <3>1 DEF CachesSound, OfferedAt
    <3>3. /\ offeredHeld[sizeCache.data] \in Nat /\ offeredHeld'[sizeCache.data] \in Nat
          /\ sizeCache.age \in Nat
      BY <1>1, <1>7, <3>2, TimeTyped DEF TypedSources, TypedCaches
    <3>4. offeredHeld'[sizeCache.data] <= offeredHeld[sizeCache.data] + 1
      BY <1>6, <3>2
    <3> QED BY <1>2, <3>1, <3>2, <3>3, <3>4, TimeTyped DEF OfferedAt
  <2> QED BY <2>1, <2>2, <2>3 DEF CachesSound
<1>10. ASSUME NEW w \in Workers, lookup[w].pc # "idle"
       PROVE  lookup'[w] \in Lookups /\ Ages(w, 1)
  <2>1. lookup'[w] = [lookup[w] EXCEPT !.waited = @ + 1]
    BY <1>10 DEF Tick, At
  <2>2. lookup[w] \in Lookups /\ lookup[w].waited \in 0 .. MaxCall /\ lookup[w].waited < MaxCall
    BY <1>1, <1>10, WaitedTyped DEF Tick, At
  <2>3. lookup[w].waited + 1 \in 0 .. MaxCall
    BY <2>2, TimeTyped
  <2> QED BY <2>1, <2>2, <2>3 DEF Lookups, Ages
<1>11. \A w \in Workers : lookup[w].pc = "idle" => lookup'[w] = lookup[w]
  BY DEF Tick, At
<1>12. lookup' \in [Workers -> Lookups]
  <2>1. \A w \in Workers : lookup'[w] \in Lookups
    BY <1>1, <1>10, <1>11
  <2>2. lookup' = [w \in Workers |-> lookup'[w]]
    BY DEF Tick
  <2> QED BY <2>1, <2>2
<1>13. budget' \in 0 .. MaxDisruptions
  BY <1>1 DEF Tick
<1> QED
  BY <1>4, <1>7, <1>8, <1>9, <1>10, <1>11, <1>12, <1>13, WorldStep

(* What the caches hold and the calls go by is no older for a change of the   *)
(* classes or of the offer.                                                   *)
LEMMA SoundChange ==
  ASSUME SizingInv, TypedSources', UNCHANGED <<Caches, lookup>>,
         Recent(classes, 0)', OfferedAt(offered, 0)', budget' \in 0 .. MaxDisruptions,
         \A c \in ClassMaps : classesHeld'[c] <= classesHeld[c],
         \A o \in Offers : offeredHeld'[o] <= offeredHeld[o]
  PROVE  SizingInv'
<1>1. /\ TypedSources /\ TypedCaches /\ CachesSound /\ lookup \in [Workers -> Lookups]
  BY InvParts DEF Parts
<1>2. /\ \A c \in ClassMaps : classesHeld[c] \in Int /\ classesHeld'[c] \in Int
      /\ \A o \in Offers : offeredHeld[o] \in Int /\ offeredHeld'[o] \in Int
      /\ classCache.age \in Int /\ sizeCache.age \in Int
  BY <1>1, TimeTyped DEF TypedSources, TypedCaches
<1>3. Older(0)
  BY <1>2 DEF Older, Caches
<1>4. TypedCaches'
  BY <1>1 DEF TypedCaches, Caches
<1>5. CachesSound'
  BY <1>1, <1>2, TimeTyped DEF CachesSound, Recent, OfferedAt, ClassesValid, SizesValid, Caches
<1>6. \A w \in Workers : Ages(w, 0)
  <2>1. \A w \in Workers : lookup[w].waited \in Int
    BY <1>1, WaitedTyped
  <2> QED BY <2>1 DEF Ages
<1> QED BY <1>1, <1>3, <1>4, <1>5, <1>6, WorldStep

LEMMA SoundClassEdit ==
  ASSUME SizingInv, ClassEdit PROVE SizingInv'
<1>1. TypedSources /\ CachesSound /\ budget \in 0 .. MaxDisruptions
  BY InvParts DEF Parts
<1>2. PICK c \in ClassMaps : classes' = c /\ classesHeld' = [classesHeld EXCEPT ![c] = 0]
  BY DEF ClassEdit
<1>3. /\ \A k \in ClassMaps : classesHeld'[k] <= classesHeld[k]
      /\ classesHeld' \in [ClassMaps -> 0 .. ClassWindow + 1] /\ classesHeld'[c] = 0
  BY <1>1, <1>2, TimeTyped DEF TypedSources
<1>4. /\ UNCHANGED <<offered, offeredHeld, Caches, lookup>>
      /\ \A o \in Offers : offeredHeld'[o] <= offeredHeld[o]
  BY <1>1, TimeTyped DEF ClassEdit, TypedSources
<1>5. budget' \in 0 .. MaxDisruptions
  BY <1>1, BudgetAssumption DEF ClassEdit, Disturbed
<1>6. TypedSources' /\ Recent(classes, 0)' /\ OfferedAt(offered, 0)'
  BY <1>1, <1>2, <1>3, <1>4 DEF TypedSources, CachesSound, Recent, OfferedAt
<1> QED BY <1>3, <1>4, <1>5, <1>6, SoundChange

LEMMA SoundOfferChange ==
  ASSUME SizingInv, OfferChange PROVE SizingInv'
<1>1. TypedSources /\ CachesSound /\ budget \in 0 .. MaxDisruptions
  BY InvParts DEF Parts
<1>2. PICK o \in Offers : offered' = o /\ offeredHeld' = [offeredHeld EXCEPT ![o] = 0]
  BY DEF OfferChange
<1>3. /\ \A k \in Offers : offeredHeld'[k] <= offeredHeld[k]
      /\ offeredHeld' \in [Offers -> 0 .. SizeWindow + 1] /\ offeredHeld'[o] = 0
  BY <1>1, <1>2, TimeTyped DEF TypedSources
<1>4. /\ UNCHANGED <<classes, classesHeld, Caches, lookup>>
      /\ \A c \in ClassMaps : classesHeld'[c] <= classesHeld[c]
  BY <1>1, TimeTyped DEF OfferChange, TypedSources
<1>5. budget' \in 0 .. MaxDisruptions
  BY <1>1, BudgetAssumption DEF OfferChange, Disturbed
<1>6. TypedSources' /\ Recent(classes, 0)' /\ OfferedAt(offered, 0)'
  BY <1>1, <1>2, <1>3, <1>4 DEF TypedSources, CachesSound, Recent, OfferedAt
<1> QED BY <1>3, <1>4, <1>5, <1>6, SoundChange

(* Empty caches, and no call under way.                                       *)
LEMMA RestSound ==
  /\ NoClassCache.age = ClassTTL + 1 /\ NoSizeCache.age = SizeTTL
  /\ NoClassCache \in [data : ClassMaps \cup {NoClasses}, age : 0 .. ClassTTL + 1]
  /\ NoSizeCache \in [data : SUBSET Sizes, age : 0 .. SizeTTL]
  /\ AllRest \in [Workers -> Lookups]
  /\ \A w \in Workers : AllRest[w].pc = "idle"
BY RestingTyped, TimeTyped DEF NoClassCache, NoSizeCache, AllRest, Resting

LEMMA SoundRestart ==
  ASSUME SizingInv, Restart PROVE SizingInv'
<1>1. TypedSources /\ CachesSound /\ budget \in 0 .. MaxDisruptions
  BY InvParts DEF Parts
<1>2. /\ classCache' = NoClassCache /\ sizeCache' = NoSizeCache /\ lookup' = AllRest
      /\ UNCHANGED Sources
  BY DEF Restart
<1>3. TypedSources'
  BY <1>1, <1>2 DEF TypedSources, Sources
<1>4. TypedCaches'
  BY <1>2, RestSound DEF TypedCaches
<1>5. CachesSound'
  BY <1>1, <1>2, RestSound, TimeTyped
     DEF CachesSound, Recent, OfferedAt, ClassesValid, SizesValid, Sources
<1>6. ASSUME NEW w \in Workers PROVE Fits(lookup[w])' /\ Sound(lookup[w])'
  BY <1>2, RestSound DEF Fits, Sound, ForClass, ForSizes
<1>7. budget' \in 0 .. MaxDisruptions
  BY <1>1, BudgetAssumption DEF Restart, Disturbed
<1> QED BY <1>2, <1>3, <1>4, <1>5, <1>6, <1>7, RestSound, InvParts DEF Parts

-----------------------------------------------------------------------------
(* The theorems                                                               *)

LEMMA SoundInit == SizingInit => SizingInv
<1> SUFFICES ASSUME SizingInit PROVE SizingInv
  OBVIOUS
<1>1. TypedSources
  BY TimeTyped DEF SizingInit, TypedSources
<1>2. TypedCaches
  BY RestSound DEF SizingInit, TypedCaches
<1>3. CachesSound
  BY RestSound, TimeTyped DEF SizingInit, CachesSound, Recent, OfferedAt, ClassesValid, SizesValid
<1>4. ASSUME NEW w \in Workers PROVE Fits(lookup[w]) /\ Sound(lookup[w])
  BY RestSound DEF SizingInit, Fits, Sound, ForClass, ForSizes
<1>5. budget \in 0 .. MaxDisruptions
  BY BudgetAssumption DEF SizingInit
<1> QED BY <1>1, <1>2, <1>3, <1>4, <1>5, RestSound, InvParts DEF SizingInit, Parts

LEMMA SoundWork ==
  ASSUME SizingInv, NEW w \in Workers, Work(w) PROVE SizingInv'
<1>1. CASE \E r \in Requests : StartMap(w, r)
  BY <1>1, SoundStartMap
<1>2. CASE StartValidate(w)
  BY <1>2, SoundStartValidate
<1>3. CASE Finish(w)
  BY <1>3, SoundFinish, BudgetKept DEF Finish, Calm
<1>4. CASE LookUp(w)
  BY <1>4, SoundGetClass, SoundListClasses, SoundStoreClasses, SoundGetClassAgain,
     SoundGetSizes, SoundListSizes, SoundStoreSizes DEF LookUp
<1> QED BY <1>1, <1>2, <1>3, <1>4 DEF Work

LEMMA SoundStutter ==
  ASSUME SizingInv, UNCHANGED sizingVars PROVE SizingInv'
<1>1. /\ TypedSources /\ CachesSound /\ budget \in 0 .. MaxDisruptions
      /\ UNCHANGED <<Sources, Caches, lookup, budget>>
  BY InvParts DEF Parts, sizingVars, Sources, Caches
<1>2. TypedSources' /\ Recent(classes, 0)' /\ OfferedAt(offered, 0)' /\ budget' \in 0 .. MaxDisruptions
  BY <1>1 DEF TypedSources, CachesSound, Recent, OfferedAt, Sources
<1>3. /\ \A c \in ClassMaps : classesHeld'[c] <= classesHeld[c]
      /\ \A o \in Offers : offeredHeld'[o] <= offeredHeld[o]
  BY <1>1, TimeTyped DEF TypedSources, Sources
<1> QED BY <1>1, <1>2, <1>3, SoundChange

LEMMA SizingInvariance == SizingSpec => []SizingInv
<1>1. SizingInv /\ [SizingNext]_sizingVars => SizingInv'
  BY SoundWork, SoundListClassesFails, SoundListSizesFails, SoundTick, SoundClassEdit,
     SoundOfferChange, SoundRestart, SoundStutter DEF SizingNext
<1> QED BY <1>1, SoundInit, PTL DEF SizingSpec

(* The mapper, the VM size manager and their caches only ever hold values of  *)
(* their types; in particular no call goes on to choose a size with the nil   *)
(* class that the cache returns for a name it does not hold.                  *)
THEOREM SizingTypeCorrect == SizingSpec => []SizingTypeOK
BY SizingInvariance, PTL DEF SizingInv

(* What each call is bound to, over the length of a call.                     *)
LEMMA ExplainedBySound == SizingInv => SizeExplained
<1> SUFFICES ASSUME SizingInv, NEW w \in Workers, At(w, "done"),
                    ~(lookup[w].failed /\ lookup[w].size \in {StaticMapping(lookup[w].request),
                                                              StaticFallback(lookup[w].request)})
             PROVE  \E c \in ClassMaps, o \in Offers :
                      /\ classesHeld[c] <= ClassWindow /\ offeredHeld[o] <= SizeWindow
                      /\ lookup[w].size = SizeBy(lookup[w].request, c, o)
  BY DEF SizeExplained
<1>1. PICK c \in ClassMaps, o \in Offers :
        /\ classesHeld[c] <= ClassTTL + MaxCall + lookup[w].waited
        /\ offeredHeld[o] <= SizeTTL - 1 + MaxCall + lookup[w].waited
        /\ lookup[w].size = SizeBy(lookup[w].request, c, o)
  BY LookupTyped DEF Sound, Outcome, At
<1>2. lookup[w].waited \in 0 .. MaxCall /\ classesHeld[c] \in Int /\ offeredHeld[o] \in Int
  BY LookupTyped, WaitedTyped, InvParts, TimeTyped DEF Parts, TypedSources
<1>3. classesHeld[c] <= ClassWindow /\ offeredHeld[o] <= SizeWindow
  BY <1>1, <1>2, TimeTyped DEF ClassWindow, SizeWindow
<1> QED BY <1>1, <1>3

(* However the workers interleave their reads and refreshes of the two caches *)
(* with each other, with edits of the MachineClasses, with changes of Azure's *)
(* offer and with restarts, resolveVMSize comes to the size of a class and of *)
(* an offer that were the true ones at most a cache lifetime and two calls    *)
(* ago, or to a static one after a listing that failed.                       *)
THEOREM SizeExplainedTheorem == SizingSpec => []SizeExplained
BY SizingInvariance, ExplainedBySound, PTL
=============================================================================
