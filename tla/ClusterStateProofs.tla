-------------------------- MODULE ClusterStateProofs --------------------------
(* ClusterState keeps its types, its lock discipline and the truth of its     *)
(* copies, and implements StateRegister, for any callers, operators, keys and *)
(* numbers of calls and faults.                                               *)
EXTENDS ClusterState, TLAPS

(* What the API server stores only grows, and the last version is the secret. *)
LEMMA HistoryGrows ==
  ASSUME NEW S, NEW h \in Seq(S), NEW v \in S
  PROVE  /\ Append(h, v) \in Seq(S)
         /\ Len(Append(h, v)) = Len(h) + 1
         /\ Append(h, v)[Len(Append(h, v))] = v
         /\ \A i \in 1 .. Len(h) : Append(h, v)[i] = h[i]
  OBVIOUS

LEMMA ConstantsTyped ==
  /\ NoData \in [Keys -> Nat]
  /\ Idle \in Locals
  /\ Absent \in Versions /\ NewSecret \in Versions
  BY DEF NoData, Idle, Locals, Pcs, Retries, Absent, NewSecret, Versions

(* What each caller sees of the store is a version of it.                     *)
LEMMA VersionsTyped ==
  ASSUME ServiceTypeOK, NEW c \in Callers
  PROVE  /\ secret \in Versions
         /\ Home[c] \in Operators
         /\ Len(history) \in Nat
         /\ seen[Home[c]] \in 1 .. Len(history) /\ seen[Home[c]] \in Nat
         /\ Cached(c) \in Versions
         /\ local[c] \in Locals
         /\ call[c] \in Requests \cup {NoCall}
  BY CallersAssumption DEF ServiceTypeOK, secret, Cached

LEMMA PcTyped ==
  ASSUME NEW l \in Locals, NEW p \in Pcs
  PROVE  /\ [l EXCEPT !.pc = p] \in Locals
         /\ [l EXCEPT !.pc = p].pc = p
         /\ [l EXCEPT !.pc = p].tries = l.tries
         /\ [l EXCEPT !.pc = p].reads = l.reads
  BY DEF Locals

LEMMA TriesTyped ==
  ASSUME NEW l \in Locals, NEW p \in Pcs, NEW n \in 0 .. Retries
  PROVE  /\ [l EXCEPT !.pc = p, !.tries = n] \in Locals
         /\ [l EXCEPT !.pc = p, !.tries = n].pc = p
         /\ [l EXCEPT !.pc = p, !.tries = n].tries = n
  BY DEF Locals

LEMMA ReadsTyped ==
  ASSUME NEW l \in Locals, NEW p \in Pcs, NEW n \in 0 .. Retries
  PROVE  /\ [l EXCEPT !.pc = p, !.reads = n] \in Locals
         /\ [l EXCEPT !.pc = p, !.reads = n].pc = p
         /\ [l EXCEPT !.pc = p, !.reads = n].tries = l.tries
         /\ [l EXCEPT !.pc = p, !.reads = n].reads = n
  BY DEF Locals

LEMMA MergedTyped ==
  ASSUME NEW old \in [Keys -> Nat], NEW request \in Requests
  PROVE  Merged(old, request) \in [Keys -> Nat]
  <1>1. request.value \in Nat BY BoundsAssumption DEF Requests
  <1> QED BY <1>1 DEF Merged

-----------------------------------------------------------------------------
(* The invariant, caller by caller.                                           *)

Results == {"none", "ok", "error"}

CallerOK(c) ==
  /\ local[c] \in Locals /\ call[c] \in Requests \cup {NoCall} /\ outcome[c] \in Results
  /\ call[c].op = "write" => local[c].tries > 0
  /\ local[c].pc = "refetch" => local[c].reads > 0
  /\ local[c].pc \in Locked <=> lock[Home[c]] = c
  /\ call[c].op = "none" <=> local[c].pc = "idle"
  /\ local[c].pc \in {"read", "lock", "recheck", "create", "refetch"} =>
       call[c].op \in {"get", "write"}
  /\ local[c].pc \in {"find", "delete"} => call[c].op = "delete"
  /\ local[c].pc = "update" =>
       /\ call[c].op = "write"
       /\ local[c].version \in 1 .. Len(history)
       /\ local[c].data = history[local[c].version].data

StoreOK ==
  /\ history \in Seq(Versions) /\ Len(history) > 0
  /\ seen \in [Operators -> 1 .. Len(history)]
  /\ lock \in [Operators -> Callers \cup {Free}]
  /\ calls \in 0 .. MaxCalls /\ faults \in 0 .. MaxFaults

LocalsOK ==
  /\ DOMAIN local = Callers /\ local = [c \in Callers |-> local[c]]
  /\ DOMAIN call = Callers /\ call = [c \in Callers |-> call[c]]
  /\ DOMAIN outcome = Callers /\ outcome = [c \in Callers |-> outcome[c]]

LEMMA NoCallIsNone ==
  ASSUME NEW r \in Requests \cup {NoCall}
  PROVE  r = NoCall <=> r.op = "none"
  BY DEF Requests, NoCall

(* ServiceTypeOK, LockInv and CopyInv together, one caller at a time.                *)
Inv == StoreOK /\ LocalsOK /\ \A c \in Callers : CallerOK(c)

LEMMA InvMeans ==
  ASSUME Inv
  PROVE  ServiceTypeOK /\ LockInv /\ CopyInv
  <1>1. ServiceTypeOK
    <2>1. local \in [Callers -> Locals] BY DEF Inv, LocalsOK, CallerOK
    <2>2. call \in [Callers -> Requests \cup {NoCall}] BY DEF Inv, LocalsOK, CallerOK
    <2>3. outcome \in [Callers -> Results] BY DEF Inv, LocalsOK, CallerOK
    <2> QED BY <2>1, <2>2, <2>3 DEF Inv, ServiceTypeOK, StoreOK, CallerOK, At, Results
  <1>2. LockInv BY DEF Inv, LockInv, CallerOK
  <1>3. CopyInv
    <2> SUFFICES ASSUME NEW c \in Callers PROVE CopyInv!(c)
      BY DEF CopyInv
    <2>1. call[c] = NoCall <=> call[c].op = "none" BY NoCallIsNone DEF Inv, CallerOK
    <2> QED BY <2>1 DEF Inv, CallerOK, At
  <1> QED BY <1>1, <1>2, <1>3

-----------------------------------------------------------------------------
(* Steps of one caller leave the others alone.                                *)

Changes(c) ==
  /\ local' \in [Callers -> Locals] /\ call' \in [Callers -> Requests \cup {NoCall}]
  /\ outcome' \in [Callers -> Results]
  /\ \A d \in Callers \ {c} :
       local'[d] = local[d] /\ call'[d] = call[d] /\ outcome'[d] = outcome[d]

Grows ==
  /\ history' \in Seq(Versions) /\ Len(history) <= Len(history')
  /\ \A i \in 1 .. Len(history) : history'[i] = history[i]

KeepsLocks(c) ==
  /\ lock' \in [Operators -> Callers \cup {Free}]
  /\ \A d \in Callers \ {c} : lock'[Home[d]] = d <=> lock[Home[d]] = d

LEMMA Frame ==
  ASSUME Inv, NEW c \in Callers, Changes(c), Grows, KeepsLocks(c), CallerOK(c)',
         seen' = seen, calls' \in 0 .. MaxCalls, faults' \in 0 .. MaxFaults
  PROVE  Inv'
  <1>1. StoreOK /\ LocalsOK /\ \A d \in Callers : CallerOK(d)
    BY DEF Inv
  <1>2. Len(history) \in Nat /\ Len(history') \in Nat
    BY <1>1 DEF StoreOK, Grows
  <1>3. StoreOK'
    BY <1>1, <1>2 DEF StoreOK, Grows, KeepsLocks
  <1>4. LocalsOK'
    BY DEF LocalsOK, Changes
  <1>5. ASSUME NEW d \in Callers PROVE CallerOK(d)'
    <2>1. CASE d = c BY <2>1
    <2>2. CASE d # c
      BY <1>1, <1>2, <2>2 DEF CallerOK, Changes, Grows, KeepsLocks
    <2> QED BY <2>1, <2>2
  <1> QED BY <1>3, <1>4, <1>5 DEF Inv

LEMMA CallerTyped ==
  ASSUME Inv, NEW c \in Callers
  PROVE  ServiceTypeOK /\ CallerOK(c)
  BY InvMeans DEF Inv

LEMMA SameStore == ASSUME Inv, UNCHANGED history PROVE Grows
  <1>1. history \in Seq(Versions) /\ Len(history) \in Nat BY InvMeans DEF ServiceTypeOK
  <1> QED BY <1>1 DEF Grows

LEMMA StoreGrows ==
  ASSUME Inv, NEW v \in Versions, history' = Append(history, v)
  PROVE  Grows /\ secret' = v
  <1>1. history \in Seq(Versions) /\ Len(history) \in Nat BY InvMeans DEF ServiceTypeOK
  <1> QED BY <1>1, HistoryGrows DEF Grows, secret

LEMMA SameLocks == ASSUME Inv, NEW c \in Callers, UNCHANGED lock PROVE KeepsLocks(c)
  BY InvMeans DEF ServiceTypeOK, KeepsLocks

(* Only its holder unlocks.                                                   *)
LEMMA UnlockKeeps ==
  ASSUME Inv, NEW c \in Callers, local[c].pc \in Locked, Unlock(c)
  PROVE  KeepsLocks(c) /\ lock'[Home[c]] # c
  <1>1. lock[Home[c]] = c /\ Home[c] \in Operators
    BY CallersAssumption, InvMeans DEF LockInv
  <1>2. \A d \in Callers : Home[d] \in Operators /\ d # Free
    BY CallersAssumption
  <1> QED BY <1>1, <1>2, InvMeans DEF ServiceTypeOK, Unlock, KeepsLocks

LEMMA LocalChanges ==
  ASSUME Inv, NEW c \in Callers, NEW l \in Locals, local' = [local EXCEPT ![c] = l],
         UNCHANGED <<call, outcome>>
  PROVE  Changes(c) /\ local'[c] = l /\ call'[c] = call[c] /\ outcome'[c] = outcome[c]
  BY InvMeans DEF ServiceTypeOK, Changes, Results

(* A return leaves the caller idle.                                           *)
LEMMA ReturnOK ==
  ASSUME Inv, NEW c \in Callers, NEW r \in {"ok", "error"}, Return(c, r),
         lock'[Home[c]] # c
  PROVE  Changes(c) /\ CallerOK(c)'
  <1>1. Changes(c) /\ local'[c] = Idle /\ call'[c] = NoCall /\ outcome'[c] = r
    BY ConstantsTyped, InvMeans DEF ServiceTypeOK, Return, Changes, Results
  <1>2. Idle.pc = "idle" /\ NoCall.op = "none" /\ Idle \in Locals
    BY ConstantsTyped DEF Idle, NoCall
  <1> QED BY <1>1, <1>2 DEF CallerOK, Results, Locked

(* A read that found the secret sends the caller on to write a true copy.     *)
LEMMA GotOK ==
  ASSUME Inv, NEW c \in Callers, Got(c), UNCHANGED history,
         local[c].pc \in {"read", "recheck", "refetch"}, lock'[Home[c]] # c
  PROVE  Changes(c) /\ CallerOK(c)'
  <1>1. ServiceTypeOK /\ CallerOK(c)
    BY CallerTyped
  <1>2. CASE call[c].op = "get"
    BY <1>2, ReturnOK DEF Got
  <1>3. CASE call[c].op # "get"
    <2> DEFINE l == [local[c] EXCEPT !.pc = "update", !.version = seen[Home[c]],
                                     !.data = Cached(c).data]
    <2>1. /\ l \in Locals /\ l.pc = "update" /\ l.tries = local[c].tries
          /\ l.version = seen[Home[c]] /\ l.data = Cached(c).data
      BY <1>1, VersionsTyped DEF Locals, Pcs, Versions
    <2>2. local' = [local EXCEPT ![c] = l] /\ UNCHANGED <<call, outcome>>
      BY <1>3 DEF Got
    <2>3. Changes(c) /\ local'[c] = l /\ call'[c] = call[c] /\ outcome'[c] = outcome[c]
      BY <2>1, <2>2, LocalChanges
    <2>4. call[c].op = "write" /\ call[c] \in Requests \cup {NoCall}
      BY <1>1, <1>3 DEF CallerOK
    <2>5. l.version \in 1 .. Len(history') /\ l.data = history'[l.version].data
      BY <1>1, <2>1, VersionsTyped DEF Cached
    <2>6. CallerOK(c)'
      BY <1>1, <2>1, <2>3, <2>4, <2>5 DEF CallerOK, Locked
    <2> QED BY <2>3, <2>6
  <1> QED BY <1>2, <1>3
(* So does one that did not, to the next step of GetOrCreateState.            *)
LEMMA GotoOK ==
  ASSUME Inv, NEW c \in Callers, NEW p \in {"lock", "recheck", "create", "delete"},
         Goto(c, p), UNCHANGED <<history, call, outcome>>,
         p = "delete" => local[c].pc = "find",
         p # "delete" => local[c].pc \in {"read", "lock", "recheck"},
         lock'[Home[c]] = c <=> p \in Locked
  PROVE  Changes(c) /\ CallerOK(c)'
  <1>1. ServiceTypeOK /\ CallerOK(c)
    BY CallerTyped
  <1> DEFINE l == [local[c] EXCEPT !.pc = p]
  <1>2. l \in Locals /\ l.pc = p /\ l.tries = local[c].tries
    <2>1. p \in Pcs /\ local[c] \in Locals
      BY <1>1 DEF CallerOK, Pcs
    <2> QED BY <2>1, PcTyped
  <1>3. local' = [local EXCEPT ![c] = l] /\ UNCHANGED <<call, outcome>>
    BY <1>1 DEF Goto, ServiceTypeOK
  <1>4. Changes(c) /\ local'[c] = l /\ call'[c] = call[c] /\ outcome'[c] = outcome[c]
    BY <1>2, <1>3, LocalChanges
  <1>5. CallerOK(c)'
    BY <1>1, <1>2, <1>4 DEF CallerOK, Locked
  <1> QED BY <1>4, <1>5

-----------------------------------------------------------------------------
(* The invariant is inductive: one lemma per action.                          *)

LEMMA InvInit == Init => Inv
  <1> SUFFICES ASSUME Init PROVE Inv
    OBVIOUS
  <1>1. StoreOK
    BY ConstantsTyped, BoundsAssumption DEF Init, StoreOK
  <1>2. LocalsOK
    BY DEF Init, LocalsOK
  <1>3. ASSUME NEW c \in Callers PROVE CallerOK(c)
    <2>1. local[c] = Idle /\ call[c] = NoCall /\ outcome[c] = "none" /\ lock[Home[c]] = Free
      BY CallersAssumption DEF Init
    <2>2. Idle.pc = "idle" /\ NoCall.op = "none" /\ Idle \in Locals /\ Free # c
      BY ConstantsTyped, CallersAssumption DEF Idle, NoCall
    <2> QED BY <2>1, <2>2 DEF CallerOK, Results, Locked
  <1> QED BY <1>1, <1>2, <1>3 DEF Inv

LEMMA InvInvoke ==
  ASSUME Inv, NEW c \in Callers, Invoke(c)
  PROVE  Inv'
  <1>1. ServiceTypeOK /\ CallerOK(c) /\ local[c].pc = "idle"
    BY CallerTyped DEF Invoke, At
  <1>2. Grows /\ KeepsLocks(c) /\ calls' \in 0 .. MaxCalls /\ faults' \in 0 .. MaxFaults
    BY <1>1, SameStore, SameLocks, BoundsAssumption DEF Invoke, ServiceTypeOK
  <1> DEFINE Shape(l, r) ==
        /\ local' = [local EXCEPT ![c] = l] /\ call' = [call EXCEPT ![c] = r]
        /\ l \in Locals /\ r \in Requests
        /\ r.op = "write" => l.tries > 0
        /\ r.op \in {"get", "write"} => l.pc = "read"
        /\ r.op = "delete" => l.pc = "find"
  <1>3. PICK l, r : Shape(l, r)
    <2>1. CASE /\ call' = [call EXCEPT ![c] = [op |-> "get", keys |-> {}, value |-> 0]]
               /\ local' = [local EXCEPT ![c].pc = "read"]
      <3>1. [local[c] EXCEPT !.pc = "read"] \in Locals
        BY <1>1, PcTyped DEF CallerOK, Pcs
      <3>2. [op |-> "get", keys |-> {}, value |-> 0] \in Requests
        BY <1>2, <2>1, BoundsAssumption DEF Requests
      <3>3. local' = [local EXCEPT ![c] = [local[c] EXCEPT !.pc = "read"]]
        BY <1>1, <2>1 DEF ServiceTypeOK
      <3>4. Shape([local[c] EXCEPT !.pc = "read"], [op |-> "get", keys |-> {}, value |-> 0])
        BY <1>1, <3>1, <3>2, <3>3, <2>1 DEF Retries, CallerOK, Locals
      <3> QED BY <3>4
    <2>2. ASSUME NEW keys \in SUBSET Keys,
                 call' = [call EXCEPT ![c] = [op |-> "write", keys |-> keys, value |-> calls']],
                 local' = [local EXCEPT ![c].pc = "read", ![c].tries = Retries]
          PROVE  \E l, r : Shape(l, r)
      <3>1. [local[c] EXCEPT !.pc = "read", !.tries = Retries] \in Locals
        <4>1. "read" \in Pcs /\ Retries \in 0 .. Retries /\ local[c] \in Locals
          BY <1>1 DEF CallerOK, Pcs, Retries
        <4> QED BY <4>1, TriesTyped
      <3>2. [op |-> "write", keys |-> keys, value |-> calls'] \in Requests
        BY <1>2, <2>2, BoundsAssumption DEF Requests
      <3>3. local' = [local EXCEPT ![c] = [local[c] EXCEPT !.pc = "read", !.tries = Retries]]
        BY <1>1, <2>2 DEF ServiceTypeOK
      <3>4. Shape([local[c] EXCEPT !.pc = "read", !.tries = Retries], [op |-> "write", keys |-> keys, value |-> calls'])
        BY <1>1, <3>1, <3>2, <3>3, <2>2 DEF Retries, CallerOK, Locals
      <3> QED BY <3>4
    <2>3. CASE /\ call' = [call EXCEPT ![c] = [op |-> "delete", keys |-> {}, value |-> 0]]
               /\ local' = [local EXCEPT ![c].pc = "find"]
      <3>1. [local[c] EXCEPT !.pc = "find"] \in Locals
        BY <1>1, PcTyped DEF CallerOK, Pcs
      <3>2. [op |-> "delete", keys |-> {}, value |-> 0] \in Requests
        BY <1>2, <2>3, BoundsAssumption DEF Requests
      <3>3. local' = [local EXCEPT ![c] = [local[c] EXCEPT !.pc = "find"]]
        BY <1>1, <2>3 DEF ServiceTypeOK
      <3>4. Shape([local[c] EXCEPT !.pc = "find"], [op |-> "delete", keys |-> {}, value |-> 0])
        BY <1>1, <3>1, <3>2, <3>3, <2>3 DEF Retries, CallerOK, Locals
      <3> QED BY <3>4
    <2> QED BY <2>1, <2>2, <2>3 DEF Invoke
  <1>4. Changes(c) /\ local'[c] = l /\ call'[c] = r /\ outcome'[c] = "none"
    BY <1>1, <1>3 DEF Invoke, Changes, ServiceTypeOK, Results
  <1>5. CallerOK(c)'
    BY <1>1, <1>3, <1>4 DEF CallerOK, Results, Requests, Locked, Invoke
  <1> QED BY <1>2, <1>4, <1>5, Frame DEF Invoke
LEMMA InvRead ==
  ASSUME Inv, NEW c \in Callers, Read(c)
  PROVE  Inv'
  <1>1. /\ ServiceTypeOK /\ CallerOK(c) /\ local[c].pc = "read" /\ lock[Home[c]] # c
        /\ Grows /\ KeepsLocks(c)
    BY CallerTyped, SameStore, SameLocks DEF Read, At, CallerOK, Locked
  <1>2. Changes(c) /\ CallerOK(c)'
    BY <1>1, GotOK, GotoOK DEF Read, Locked
  <1> QED BY <1>1, <1>2, Frame DEF Read, ServiceTypeOK

LEMMA InvLock ==
  ASSUME Inv, NEW c \in Callers, Lock(c)
  PROVE  Inv'
  <1>1. ServiceTypeOK /\ CallerOK(c) /\ local[c].pc = "lock" /\ Grows
    BY CallerTyped, SameStore DEF Lock, At
  <1>2. lock'[Home[c]] = c
    BY <1>1, VersionsTyped DEF Lock, ServiceTypeOK
  <1>3. Changes(c) /\ CallerOK(c)'
    BY <1>1, <1>2, GotoOK DEF Lock, Locked
  <1>4. KeepsLocks(c)
    BY <1>1, CallersAssumption DEF Lock, ServiceTypeOK, KeepsLocks
  <1> QED BY <1>1, <1>3, <1>4, Frame DEF Lock, ServiceTypeOK

LEMMA InvRecheck ==
  ASSUME Inv, NEW c \in Callers, Recheck(c)
  PROVE  Inv'
  <1>1. ServiceTypeOK /\ CallerOK(c) /\ local[c].pc = "recheck" /\ lock[Home[c]] = c /\ Grows
    BY CallerTyped, SameStore DEF Recheck, At, CallerOK, Locked
  <1>2. CASE Cached(c).exists
    <2>1. KeepsLocks(c) /\ lock'[Home[c]] # c
      BY <1>1, <1>2, UnlockKeeps DEF Recheck, Locked
    <2>2. Changes(c) /\ CallerOK(c)'
      BY <1>1, <1>2, <2>1, GotOK DEF Recheck
    <2> QED BY <1>1, <2>1, <2>2, Frame DEF Recheck, ServiceTypeOK
  <1>3. CASE ~Cached(c).exists
    <2>1. Changes(c) /\ CallerOK(c)' /\ KeepsLocks(c)
      BY <1>1, <1>3, GotoOK, SameLocks DEF Recheck, Locked
    <2> QED BY <1>1, <2>1, Frame DEF Recheck, ServiceTypeOK
  <1> QED BY <1>2, <1>3

(* What the API server does with a request to store v.                        *)
LEMMA StoreOrNot ==
  ASSUME Inv, NEW v \in Versions, UNCHANGED history \/ history' = Append(history, v)
  PROVE  Grows
  BY SameStore, StoreGrows

LEMMA FaultCounts ==
  ASSUME Inv, Calm \/ Fault
  PROVE  faults' \in 0 .. MaxFaults
  <1>1. faults \in 0 .. MaxFaults /\ MaxFaults \in Nat
    BY InvMeans, BoundsAssumption DEF ServiceTypeOK
  <1> QED BY <1>1 DEF Calm, Fault

LEMMA InvCreateSecret ==
  ASSUME Inv, NEW c \in Callers, CreateSecret(c)
  PROVE  Inv'
  <1>1. ServiceTypeOK /\ CallerOK(c) /\ local[c].pc = "create" /\ lock[Home[c]] = c
    BY CallerTyped DEF CreateSecret, At, CallerOK, Locked
  <1>2. UNCHANGED history \/ history' = Append(history, NewSecret)
    BY DEF CreateSecret
  <1>3. Grows /\ faults' \in 0 .. MaxFaults
    BY <1>2, StoreOrNot, ConstantsTyped, FaultCounts DEF CreateSecret
  <1>4. CASE Return(c, "error") /\ Unlock(c)
    <2>1. KeepsLocks(c) /\ lock'[Home[c]] # c
      BY <1>1, <1>4, UnlockKeeps DEF Locked
    <2>2. Changes(c) /\ CallerOK(c)'
      BY <1>4, <2>1, ReturnOK
    <2> QED BY <1>1, <1>3, <2>1, <2>2, Frame DEF CreateSecret, ServiceTypeOK
  <1>5. CASE /\ local' = [local EXCEPT ![c].pc = "refetch", ![c].reads = Retries]
             /\ UNCHANGED <<call, outcome, lock>>
    <2> DEFINE l == [local[c] EXCEPT !.pc = "refetch", !.reads = Retries]
    <2>1. "refetch" \in Pcs /\ Retries \in 0 .. Retries /\ local[c] \in Locals
      BY <1>1 DEF CallerOK, Pcs, Retries
    <2>2. l \in Locals /\ l.pc = "refetch" /\ l.tries = local[c].tries /\ l.reads = Retries
      <3>1. l \in Locals BY <2>1, ReadsTyped
      <3>2. l.pc = "refetch" /\ l.tries = local[c].tries /\ l.reads = Retries
        BY <2>1 DEF Locals
      <3> QED BY <3>1, <3>2
    <2>3. local' = [local EXCEPT ![c] = l]
      BY <1>1, <1>5 DEF ServiceTypeOK
    <2>4. Changes(c) /\ local'[c] = l /\ call'[c] = call[c] /\ outcome'[c] = outcome[c]
      BY <1>5, <2>2, <2>3, LocalChanges
    <2>5. CallerOK(c)'
      <3> HIDE DEF l
      <3> QED BY <1>1, <1>5, <2>2, <2>4 DEF CallerOK, Locked, Retries, CreateSecret
    <2>6. KeepsLocks(c)
      BY <1>5, SameLocks
    <2> QED BY <1>1, <1>3, <2>4, <2>5, <2>6, Frame DEF CreateSecret, ServiceTypeOK
  <1> QED BY <1>4, <1>5 DEF CreateSecret

LEMMA InvRefetch ==
  ASSUME Inv, NEW c \in Callers, Refetch(c)
  PROVE  Inv'
  <1>1. ServiceTypeOK /\ CallerOK(c) /\ local[c].pc = "refetch" /\ lock[Home[c]] = c /\ Grows
    BY CallerTyped, SameStore DEF Refetch, At, CallerOK, Locked
  <1>2. CASE Unlock(c) /\ (Got(c) \/ Return(c, "error"))
    <2>1. KeepsLocks(c) /\ lock'[Home[c]] # c
      BY <1>1, <1>2, UnlockKeeps DEF Locked
    <2>2. Changes(c) /\ CallerOK(c)'
      BY <1>1, <1>2, <2>1, GotOK, ReturnOK DEF Refetch
    <2> QED BY <1>1, <2>1, <2>2, Frame DEF Refetch, ServiceTypeOK
  <1>3. CASE /\ local[c].reads > 1 /\ local' = [local EXCEPT ![c].reads = @ - 1]
             /\ UNCHANGED <<call, outcome, lock>>
    <2> DEFINE l == [local[c] EXCEPT !.reads = local[c].reads - 1]
    <2>1. /\ l \in Locals /\ l.pc = "refetch" /\ l.tries = local[c].tries /\ l.reads > 0
          /\ local[c].pc = "refetch"
      BY <1>1, <1>3 DEF CallerOK, Locals, Retries
    <2>2. local' = [local EXCEPT ![c] = l]
      BY <1>1, <1>3 DEF ServiceTypeOK
    <2> HIDE DEF l
    <2>3. Changes(c) /\ local'[c] = l /\ call'[c] = call[c] /\ outcome'[c] = outcome[c]
      BY <1>3, <2>1, <2>2, LocalChanges
    <2>4. CallerOK(c)'
      BY <1>1, <1>3, <2>1, <2>3 DEF CallerOK, Locked, Refetch
    <2> QED BY <1>1, <1>3, <2>3, <2>4, SameLocks, Frame DEF Refetch, ServiceTypeOK
  <1> QED BY <1>2, <1>3 DEF Refetch

(* A caller at its update holds no lock, and stays clear of it.               *)
LEMMA RetryOK ==
  ASSUME Inv, NEW c \in Callers, RetryOrFail(c), local[c].pc = "update",
         call[c].op = "write", UNCHANGED <<history, lock>>
  PROVE  Changes(c) /\ CallerOK(c)'
  <1>1. ServiceTypeOK /\ CallerOK(c) /\ lock'[Home[c]] # c
    BY CallerTyped DEF CallerOK, Locked
  <1>2. CASE Return(c, "error")
    BY <1>1, <1>2, ReturnOK
  <1>3. CASE /\ local[c].tries > 1 /\ UNCHANGED <<call, outcome>>
             /\ local' = [local EXCEPT
                           ![c] = [Idle EXCEPT !.pc = "read", !.tries = local[c].tries - 1]]
    <2> DEFINE l == [Idle EXCEPT !.pc = "read", !.tries = local[c].tries - 1]
    <2>1. "read" \in Pcs /\ local[c].tries - 1 \in 0 .. Retries /\ local[c].tries - 1 > 0
      BY <1>1, <1>3 DEF CallerOK, Locals, Pcs, Retries
    <2>2. l \in Locals /\ l.pc = "read" /\ l.tries > 0
      <3>1. l \in Locals BY <2>1, TriesTyped, ConstantsTyped
      <3>2. l.pc = "read" /\ l.tries > 0 BY <2>1 DEF Idle
      <3> QED BY <3>1, <3>2
    <2>3. local' = [local EXCEPT ![c] = l]
      BY <1>3
    <2> HIDE DEF l
    <2>4. Changes(c) /\ local'[c] = l /\ call'[c] = call[c] /\ outcome'[c] = outcome[c]
      BY <1>3, <2>2, <2>3, LocalChanges
    <2>5. CallerOK(c)'
      BY <1>1, <1>3, <2>2, <2>4 DEF CallerOK, Locked
    <2> QED BY <2>4, <2>5
  <1> QED BY <1>2, <1>3 DEF RetryOrFail

LEMMA WrittenTyped ==
  ASSUME Inv, NEW c \in Callers, call[c].op = "write"
  PROVE  WrittenBy(c) \in Versions
  <1>1. local[c].data \in [Keys -> Nat] /\ call[c] \in Requests
    BY CallerTyped DEF CallerOK, Locals, NoCall
  <1>2. Merged(local[c].data, call[c]) \in [Keys -> Nat]
    BY <1>1, MergedTyped
  <1> QED BY <1>2 DEF WrittenBy, Versions

LEMMA InvUpdate ==
  ASSUME Inv, NEW c \in Callers, Update(c)
  PROVE  Inv'
  <1>1. /\ ServiceTypeOK /\ CallerOK(c) /\ local[c].pc = "update" /\ call[c].op = "write"
        /\ lock'[Home[c]] # c /\ KeepsLocks(c)
    BY CallerTyped, SameLocks DEF Update, At, CallerOK, Locked
  <1>2. UNCHANGED history \/ history' = Append(history, WrittenBy(c))
    BY DEF Update
  <1>3. Grows /\ faults' \in 0 .. MaxFaults
    BY <1>1, <1>2, StoreOrNot, WrittenTyped, FaultCounts DEF Update
  <1>4. Changes(c) /\ CallerOK(c)'
    BY <1>1, ReturnOK, RetryOK DEF Update
  <1> QED BY <1>1, <1>3, <1>4, Frame DEF Update, ServiceTypeOK

LEMMA InvFind ==
  ASSUME Inv, NEW c \in Callers, Find(c)
  PROVE  Inv'
  <1>1. /\ ServiceTypeOK /\ CallerOK(c) /\ local[c].pc = "find" /\ lock'[Home[c]] # c
        /\ Grows /\ KeepsLocks(c)
    BY CallerTyped, SameStore, SameLocks DEF Find, At, CallerOK, Locked
  <1>2. Changes(c) /\ CallerOK(c)'
    BY <1>1, ReturnOK, GotoOK DEF Find, Locked
  <1> QED BY <1>1, <1>2, Frame DEF Find, ServiceTypeOK

LEMMA InvDelete ==
  ASSUME Inv, NEW c \in Callers, Delete(c)
  PROVE  Inv'
  <1>1. /\ ServiceTypeOK /\ CallerOK(c) /\ local[c].pc = "delete" /\ lock'[Home[c]] # c
        /\ KeepsLocks(c)
    BY CallerTyped, SameLocks DEF Delete, At, CallerOK, Locked
  <1>2. UNCHANGED history \/ history' = Append(history, Absent)
    BY DEF Delete
  <1>3. Grows /\ faults' \in 0 .. MaxFaults
    BY <1>2, StoreOrNot, ConstantsTyped, FaultCounts DEF Delete
  <1>4. Changes(c) /\ CallerOK(c)'
    BY <1>1, ReturnOK DEF Delete
  <1> QED BY <1>1, <1>3, <1>4, Frame DEF Delete, ServiceTypeOK

LEMMA InvProceed ==
  ASSUME Inv, NEW c \in Callers, Proceed(c)
  PROVE  Inv'
  BY InvRead, InvLock, InvRecheck, InvCreateSecret, InvRefetch, InvUpdate, InvFind, InvDelete
     DEF Proceed

LEMMA InvWatchEvent ==
  ASSUME Inv, NEW p \in Operators, WatchEvent(p)
  PROVE  Inv'
  <1>1. StoreOK'
    BY DEF WatchEvent, Inv, StoreOK
  <1>2. LocalsOK' /\ (\A c \in Callers : CallerOK(c))'
    BY DEF WatchEvent, Inv, LocalsOK, CallerOK
  <1> QED BY <1>1, <1>2 DEF Inv

LEMMA InvRestart ==
  ASSUME Inv, NEW p \in Operators, Restart(p)
  PROVE  Inv'
  <1>1. StoreOK'
    BY FaultCounts DEF Restart, Inv, StoreOK
  <1>2. LocalsOK'
    BY DEF Restart, Inv, LocalsOK
  <1>3. ASSUME NEW c \in Callers PROVE CallerOK(c)'
    <2>1. CallerOK(c) /\ Home[c] \in Operators /\ c # Free
      BY CallersAssumption DEF Inv
    <2>2. CASE Home[c] = p
      <3>1. /\ local'[c] = Idle /\ call'[c] = NoCall /\ outcome'[c] = outcome[c]
            /\ lock'[Home[c]] = Free
        BY <2>1, <2>2 DEF Restart, Inv, StoreOK
      <3>2. Idle.pc = "idle" /\ NoCall.op = "none" /\ Idle \in Locals
        BY ConstantsTyped DEF Idle, NoCall
      <3> QED BY <2>1, <3>1, <3>2 DEF CallerOK, Locked
    <2>3. CASE Home[c] # p
      <3>1. /\ local'[c] = local[c] /\ call'[c] = call[c] /\ outcome'[c] = outcome[c]
            /\ lock'[Home[c]] = lock[Home[c]] /\ history' = history
        BY <2>1, <2>3 DEF Restart, Inv, StoreOK
      <3> QED BY <2>1, <3>1 DEF CallerOK
    <2> QED BY <2>2, <2>3
  <1> QED BY <1>1, <1>2, <1>3 DEF Inv

LEMMA InvDeletedByOthers ==
  ASSUME Inv, DeletedByOthers
  PROVE  Inv'
  <1>1. Grows /\ faults' \in 0 .. MaxFaults
    BY StoreOrNot, ConstantsTyped, FaultCounts DEF DeletedByOthers
  <1>2. Len(history) \in Nat /\ Len(history') \in Nat
    BY <1>1 DEF Inv, StoreOK, Grows
  <1>3. StoreOK'
    BY <1>1, <1>2 DEF DeletedByOthers, Inv, StoreOK, Grows
  <1>4. LocalsOK' /\ (\A c \in Callers : CallerOK(c))'
    BY <1>1, <1>2 DEF DeletedByOthers, Inv, LocalsOK, CallerOK, Grows
  <1> QED BY <1>3, <1>4 DEF Inv

LEMMA InvNext == Inv /\ [Next]_vars => Inv'
  <1> SUFFICES ASSUME Inv, [Next]_vars PROVE Inv'
    OBVIOUS
  <1>1. CASE Next
    BY <1>1, InvInvoke, InvProceed, InvWatchEvent, InvRestart, InvDeletedByOthers DEF Next
  <1>2. CASE UNCHANGED vars
    BY <1>2 DEF vars, Inv, StoreOK, LocalsOK, CallerOK
  <1> QED BY <1>1, <1>2

LEMMA SpecInv == Spec => []Inv
  BY InvInit, InvNext, PTL DEF Spec

(* Every variable keeps its type; no round or read is counted below the first. *)
THEOREM TypeCorrect == Spec => []ServiceTypeOK
  <1>1. Inv => ServiceTypeOK BY InvMeans
  <1> QED BY <1>1, SpecInv, PTL

(* Exactly the callers in the locked section hold their operator's lock.      *)
THEOREM LockTheorem == Spec => []LockInv
  <1>1. Inv => LockInv BY InvMeans
  <1> QED BY <1>1, SpecInv, PTL

(* The copy a caller is about to write is the version it claims to be.        *)
THEOREM CopyTheorem == Spec => []CopyInv
  <1>1. Inv => CopyInv BY InvMeans
  <1> QED BY <1>1, SpecInv, PTL

-----------------------------------------------------------------------------
(* The refinement: every step is a step of the register or a stutter.         *)

Stutter == UNCHANGED <<secret.exists, secret.data, call, outcome>>

(* A caller that returns was in a call.                                       *)
LEMMA ReturnEnds ==
  ASSUME Inv, NEW c \in Callers, NEW r, Return(c, r), local[c].pc # "idle"
  PROVE  Register!Ends(c, r) /\ call[c] # NoCall
  <1>1. call[c] # NoCall
    BY InvMeans DEF CopyInv, At
  <1> QED BY <1>1 DEF Return, Register!Ends, Register!NoCall, NoCall

LEMMA SameSecret == ASSUME UNCHANGED history PROVE Register!Untouched
  BY DEF Register!Untouched, secret

(* A read returns what is cached, or goes on.                                 *)
LEMMA GotMaps ==
  ASSUME Inv, NEW c \in Callers, Got(c), UNCHANGED history, local[c].pc # "idle"
  PROVE  Register!Succeed(c) \/ Stutter
  <1>1. CASE call[c].op = "get"
    BY <1>1, ReturnEnds, SameSecret DEF Got, Register!Succeed, Register!Effect
  <1>2. CASE call[c].op # "get"
    BY <1>2 DEF Got, Stutter, secret
  <1> QED BY <1>1, <1>2

LEMMA WriteMaps ==
  ASSUME Inv, NEW c \in Callers, local[c].pc = "update", Accepted(c),
         history' = Append(history, WrittenBy(c))
  PROVE  Register!Effect(c)
  <1>1. call[c].op = "write" /\ local[c].data = history[local[c].version].data
    BY CallerTyped DEF CallerOK
  <1>2. secret' = WrittenBy(c)
    BY <1>1, WrittenTyped, StoreGrows
  <1>3. secret.exists /\ local[c].data = secret.data
    BY <1>1 DEF Accepted, secret
  <1>4. secret'.exists = TRUE /\ secret'.data = Merged(secret.data, call[c])
    BY <1>2, <1>3 DEF WrittenBy
  <1>5. secret.exists \in BOOLEAN
    BY InvMeans, VersionsTyped DEF Versions
  <1> QED BY <1>1, <1>3, <1>4 DEF Register!Effect, Register!Merged, Merged

LEMMA ProceedMaps ==
  ASSUME Inv, NEW c \in Callers, Proceed(c)
  PROVE  Register!Succeed(c) \/ Register!Fail(c) \/ Register!Create \/ Stutter
  <1>1. CASE Read(c)
    BY <1>1, GotMaps DEF Read, At, Stutter, secret
  <1>2. CASE Lock(c)
    BY <1>2 DEF Lock, Stutter, secret
  <1>3. CASE Recheck(c)
    BY <1>3, GotMaps DEF Recheck, At, Stutter, secret
  <1>4. CASE CreateSecret(c)
    <2>1. local[c].pc # "idle"
      BY <1>4 DEF CreateSecret, At
    <2>2. CASE UNCHANGED history
      <3>1. CASE Return(c, "error")
        BY <2>1, <2>2, <3>1, ReturnEnds, SameSecret DEF Register!Fail
      <3>2. CASE UNCHANGED <<call, outcome>>
        BY <2>2, <3>2 DEF Stutter, secret
      <3> QED BY <1>4, <3>1, <3>2 DEF CreateSecret
    <2>3. CASE ~secret.exists /\ history' = Append(history, NewSecret)
      <3>1. secret' = NewSecret
        BY <2>3, StoreGrows, ConstantsTyped
      <3>2. ~secret.exists /\ Register!Empty
        BY <2>3, <3>1 DEF NewSecret, Register!Empty, Register!NoData, NoData
      <3>3. CASE Return(c, "error")
        BY <2>1, <3>2, <3>3, ReturnEnds DEF Register!Fail
      <3>4. CASE UNCHANGED <<call, outcome>>
        BY <3>2, <3>4 DEF Register!Create
      <3> QED BY <1>4, <3>3, <3>4 DEF CreateSecret
    <2> QED BY <1>4, <2>2, <2>3 DEF CreateSecret
  <1>5. CASE Refetch(c)
    <2>1. local[c].pc # "idle" /\ UNCHANGED history
      BY <1>5 DEF Refetch, At
    <2>2. CASE Got(c)
      BY <2>1, <2>2, GotMaps
    <2>3. CASE Return(c, "error")
      BY <2>1, <2>3, ReturnEnds, SameSecret DEF Register!Fail
    <2>4. CASE UNCHANGED <<call, outcome>>
      BY <2>1, <2>4 DEF Stutter, secret
    <2> QED BY <1>5, <2>2, <2>3, <2>4 DEF Refetch
  <1>6. CASE Update(c)
    <2>1. local[c].pc = "update"
      BY <1>6 DEF Update, At
    <2>2. CASE Accepted(c) /\ history' = Append(history, WrittenBy(c))
      <3>1. Register!Effect(c)
        BY <2>1, <2>2, WriteMaps
      <3>2. CASE Return(c, "ok")
        BY <2>1, <3>1, <3>2, ReturnEnds DEF Register!Succeed
      <3>3. CASE Return(c, "error")
        BY <2>1, <3>1, <3>3, ReturnEnds DEF Register!Fail
      <3>4. Return(c, "ok") \/ Return(c, "error") \/ (~Accepted(c) /\ UNCHANGED history)
        BY <1>6 DEF Update
      <3> QED BY <2>2, <3>2, <3>3, <3>4
    <2>3. CASE UNCHANGED history
      <3>1. CASE Return(c, "error")
        BY <2>1, <2>3, <3>1, ReturnEnds, SameSecret DEF Register!Fail
      <3>2. CASE UNCHANGED <<call, outcome>>
        BY <2>3, <3>2 DEF Stutter, secret
      <3>3. CASE Accepted(c) /\ history' = Append(history, WrittenBy(c)) /\ Return(c, "ok")
        <4>1. Register!Effect(c)
          BY <2>1, <3>3, WriteMaps
        <4> QED BY <2>1, <3>3, <4>1, ReturnEnds DEF Register!Succeed
      <3> QED BY <1>6, <3>1, <3>2, <3>3 DEF Update, RetryOrFail
    <2> QED BY <1>6, <2>2, <2>3 DEF Update
  <1>7. CASE Find(c)
    <2>1. local[c].pc = "find" /\ call[c].op = "delete" /\ UNCHANGED history
      BY <1>7, CallerTyped DEF Find, At, CallerOK
    <2>2. CASE Return(c, "ok")
      BY <2>1, <2>2, ReturnEnds, SameSecret DEF Register!Succeed, Register!Effect
    <2>3. CASE UNCHANGED <<call, outcome>>
      BY <2>1, <2>3 DEF Stutter, secret
    <2> QED BY <1>7, <2>2, <2>3 DEF Find
  <1>8. CASE Delete(c)
    <2>1. local[c].pc = "delete" /\ call[c].op = "delete"
      BY <1>8, CallerTyped DEF Delete, At, CallerOK
    <2>2. Register!Effect(c) \/ Register!Untouched
      <3>1. CASE UNCHANGED history
        BY <3>1, SameSecret
      <3>2. CASE history' = Append(history, Absent)
        <4>1. secret' = Absent
          BY <3>2, StoreGrows, ConstantsTyped
        <4> QED BY <2>1, <4>1
              DEF Absent, Register!Effect, Register!Gone, Register!NoData, NoData
      <3> QED BY <1>8, <3>1, <3>2 DEF Delete
    <2>3. Register!Untouched => Register!Effect(c)
      BY <2>1 DEF Register!Effect
    <2> QED BY <1>8, <2>1, <2>2, <2>3, ReturnEnds DEF Delete, Register!Succeed, Register!Fail
  <1> QED BY <1>1, <1>2, <1>3, <1>4, <1>5, <1>6, <1>7, <1>8 DEF Proceed

LEMMA InvokeMaps ==
  ASSUME Inv, NEW c \in Callers, Invoke(c)
  PROVE  Register!Request(c)
  <1>1. call[c] = NoCall
    BY InvMeans DEF Invoke, CopyInv
  <1>2. call' \in [Callers -> Requests \cup {NoCall}] /\ calls' \in 0 .. MaxCalls
    <2>1. Inv' BY InvInvoke
    <2>2. ServiceTypeOK' BY <2>1, InvMeans, PTL
    <2> QED BY <2>2 DEF ServiceTypeOK
  <1>3. \E r \in Requests : call' = [call EXCEPT ![c] = r]
    BY <1>2, BoundsAssumption DEF Invoke, Requests
  <1>4. Requests = Register!Requests
    BY DEF Requests, Register!Requests
  <1> QED BY <1>1, <1>3, <1>4, SameSecret DEF Invoke, Register!Request, Register!NoCall, NoCall

LEMMA InitMaps == Init => Register!Init
  <1> SUFFICES ASSUME Init PROVE Register!Init
    OBVIOUS
  <1>1. secret = Absent
    BY DEF Init, secret
  <1> QED BY <1>1 DEF Init, Absent, Register!Init, Register!NoData, NoData, Register!NoCall, NoCall

LEMMA NextMaps == Inv /\ [Next]_vars => [Register!Next]_<<secret.exists, secret.data, call, outcome>>
  <1> SUFFICES ASSUME Inv, [Next]_vars PROVE Register!Next \/ Stutter
    BY DEF Stutter
  <1>1. CASE \E c \in Callers : Invoke(c)
    BY <1>1, InvokeMaps DEF Register!Next
  <1>2. CASE \E c \in Callers : Proceed(c)
    BY <1>2, ProceedMaps DEF Register!Next
  <1>3. CASE \E p \in Operators : WatchEvent(p)
    BY <1>3 DEF WatchEvent, Stutter, secret
  <1>4. ASSUME NEW p \in Operators, Restart(p) PROVE Register!Die
    <2> DEFINE dead == {c \in Callers : Home[c] = p}
    <2>1. call' = [c \in Callers |-> IF c \in dead THEN NoCall ELSE call[c]]
      BY <1>4 DEF Restart
    <2>2. UNCHANGED <<secret.exists, secret.data, outcome>>
      BY <1>4 DEF Restart, secret
    <2> QED BY <2>1, <2>2 DEF Register!Die, Register!NoCall, NoCall
  <1>5. ASSUME DeletedByOthers PROVE Register!Remove
    <2>1. secret' = Absent /\ UNCHANGED <<call, outcome>>
      BY <1>5, StoreGrows, ConstantsTyped DEF DeletedByOthers
    <2> QED BY <2>1 DEF Absent, Register!Remove, Register!Gone, Register!NoData, NoData
  <1>6. CASE UNCHANGED vars
    BY <1>6 DEF vars, Stutter, secret
  <1> QED BY <1>1, <1>2, <1>3, <1>4, <1>5, <1>6 DEF Next, Register!Next

(* The state service implements StateRegister: whatever caches lag, callers   *)
(* race or operators restart, no update is lost and no report is untrue.      *)
THEOREM RegisterRefinement == Spec => KeepsRegister
  <1>1. Inv /\ [Next]_vars => [Register!Next]_Register!registerVars
    BY NextMaps DEF Register!registerVars
  <1> QED BY <1>1, InitMaps, SpecInv, PTL DEF Spec, KeepsRegister, Register!Spec
===============================================================================
