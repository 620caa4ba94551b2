----------------------------- MODULE ClusterState -----------------------------
(* ClusterStateService: the state secret of one cluster, as the goroutines    *)
(* that read and write it find it.  Several workers of one operator share its *)
(* informer cache and its creation lock; operators that overlap (a rolling    *)
(* update, no leader election) share nothing but the API server.              *)
EXTENDS Naturals, Sequences

CONSTANTS
  Callers,     \* goroutines in a call of the service
  Operators,   \* operator processes
  Home,        \* the process each caller runs in
  Keys,        \* keys of the secret
  Free,        \* the holder of a lock nobody holds
  MaxCalls,    \* calls made in all
  MaxFaults    \* failed requests, restarts and deletions by others in all

ASSUME CallersAssumption == Home \in [Callers -> Operators] /\ Free \notin Callers
ASSUME BoundsAssumption  == MaxCalls \in Nat /\ MaxFaults \in Nat

VARIABLES
  history,   \* every version the API server stored; a resourceVersion is a position
  seen,      \* the version in each operator's informer cache
  lock,      \* the holder of each operator's creation lock
  call,      \* the call each caller is in
  outcome,   \* what its last call returned
  local,     \* its program counter and local variables
  calls,     \* calls made so far
  faults     \* faults left

vars == <<history, seen, lock, call, outcome, local, calls, faults>>

Retries == 3   \* rounds of UpdateState, and reads of getStateWithRetry

NoData == [k \in Keys |-> 0]
NoCall == [op |-> "none", keys |-> {}, value |-> 0]
Absent == [exists |-> FALSE, data |-> NoData]
NewSecret == [exists |-> TRUE, data |-> NoData]

secret    == history[Len(history)]
Cached(c) == history[seen[Home[c]]]

At(c, p) == local[c].pc = p
Goto(c, p) == local' = [local EXCEPT ![c].pc = p]
Idle == [pc |-> "idle", version |-> 0, data |-> NoData, tries |-> 0, reads |-> 0]

(* A fault happens, or none does.                                             *)
Calm == faults' = faults
Fault == faults > 0 /\ faults' = faults - 1

Return(c, result) ==
  /\ local' = [local EXCEPT ![c] = Idle]
  /\ call' = [call EXCEPT ![c] = NoCall]
  /\ outcome' = [outcome EXCEPT ![c] = result]

Unlock(c) == lock' = [lock EXCEPT ![Home[c]] = Free]

(* Mutation of Got: the resourceVersion is looked up, the data is not.        *)
GotLatestVersion(c) ==
  IF call[c].op = "get" THEN Return(c, "ok")
  ELSE /\ local' = [local EXCEPT ![c].pc = "update", ![c].version = Len(history),
                                 ![c].data = Cached(c).data]
       /\ UNCHANGED <<call, outcome>>

(* GetOrCreateState returned the cached secret to its caller, which writes    *)
(* its keys into that copy or reads from it.                                  *)
Got(c) ==
  IF call[c].op = "get" THEN Return(c, "ok")
  ELSE /\ local' = [local EXCEPT ![c].pc = "update", ![c].version = seen[Home[c]],
                                 ![c].data = Cached(c).data]
       /\ UNCHANGED <<call, outcome>>

-----------------------------------------------------------------------------
(* A reconciliation calls the service: GetState, UpdateState and its kin, or  *)
(* DeleteState.  Every value written is a new one.                            *)
Invoke(c) ==
  /\ At(c, "idle") /\ calls < MaxCalls /\ calls' = calls + 1
  /\ \/ /\ call' = [call EXCEPT ![c] = [op |-> "get", keys |-> {}, value |-> 0]]
        /\ local' = [local EXCEPT ![c].pc = "read"]
     \/ /\ \E keys \in SUBSET Keys \ {{}} :
             call' = [call EXCEPT ![c] = [op |-> "write", keys |-> keys, value |-> calls']]
        /\ local' = [local EXCEPT ![c].pc = "read", ![c].tries = Retries]
     \/ /\ call' = [call EXCEPT ![c] = [op |-> "delete", keys |-> {}, value |-> 0]]
        /\ local' = [local EXCEPT ![c].pc = "find"]
  /\ outcome' = [outcome EXCEPT ![c] = "none"]
  /\ UNCHANGED <<history, seen, lock, faults>>

(* GetOrCreateState                                                           *)

Read(c) ==
  /\ At(c, "read")
  /\ IF Cached(c).exists THEN Got(c) ELSE Goto(c, "lock") /\ UNCHANGED <<call, outcome>>
  /\ UNCHANGED <<history, seen, lock, calls, faults>>

Lock(c) ==
  /\ At(c, "lock") /\ lock[Home[c]] = Free
  /\ lock' = [lock EXCEPT ![Home[c]] = c] /\ Goto(c, "recheck")
  /\ UNCHANGED <<history, seen, call, outcome, calls, faults>>

(* Mutation of Recheck: the lock is kept when the secret is there after all.  *)
RecheckKeepsLock(c) ==
  /\ At(c, "recheck")
  /\ IF Cached(c).exists THEN Got(c) ELSE Goto(c, "create") /\ UNCHANGED <<call, outcome>>
  /\ UNCHANGED <<history, seen, lock, calls, faults>>

Recheck(c) ==
  /\ At(c, "recheck")
  /\ IF Cached(c).exists THEN Got(c) /\ Unlock(c)
     ELSE Goto(c, "create") /\ UNCHANGED <<call, outcome, lock>>
  /\ UNCHANGED <<history, seen, calls, faults>>

(* client.Create; a secret that exists already is fetched like a new one.  A  *)
(* request that fails may have been served.                                   *)
CreateSecret(c) ==
  /\ At(c, "create")
  /\ \/ /\ Calm
        /\ IF secret.exists THEN UNCHANGED history ELSE history' = Append(history, NewSecret)
        /\ local' = [local EXCEPT ![c].pc = "refetch", ![c].reads = Retries]
        /\ UNCHANGED <<call, outcome, lock>>
     \/ /\ Fault /\ Return(c, "error") /\ Unlock(c)
        /\ \/ UNCHANGED history
           \/ ~secret.exists /\ history' = Append(history, NewSecret)
  /\ UNCHANGED <<seen, calls>>

(* Mutation of Refetch: reads until the secret shows up.                      *)
RefetchForever(c) ==
  /\ At(c, "refetch")
  /\ IF Cached(c).exists THEN Got(c) /\ Unlock(c) ELSE UNCHANGED <<local, call, outcome, lock>>
  /\ UNCHANGED <<history, seen, calls, faults>>

(* getStateWithRetry: a few reads of the cache, under the lock.               *)
Refetch(c) ==
  /\ At(c, "refetch")
  /\ \/ Cached(c).exists /\ Got(c) /\ Unlock(c)
     \/ /\ ~Cached(c).exists /\ local[c].reads > 1
        /\ local' = [local EXCEPT ![c].reads = @ - 1]
        /\ UNCHANGED <<call, outcome, lock>>
     \/ ~Cached(c).exists /\ local[c].reads = 1 /\ Return(c, "error") /\ Unlock(c)
  /\ UNCHANGED <<history, seen, calls, faults>>

(* UpdateState, UpdateStateMultiple, SetKubeconfig                            *)

Merged(old, request) ==
  [k \in Keys |-> IF k \in request.keys THEN request.value ELSE old[k]]

WrittenBy(c) == [exists |-> TRUE, data |-> Merged(local[c].data, call[c])]
Accepted(c)  == secret.exists /\ local[c].version = Len(history)

(* Mutation of RetryOrFail: one round too many.                               *)
RetryOrFailOnceMore(c) ==
  \/ /\ local[c].tries > 0
     /\ local' = [local EXCEPT ![c] = [Idle EXCEPT !.pc = "read", !.tries = local[c].tries - 1]]
     /\ UNCHANGED <<call, outcome>>
  \/ local[c].tries = 0 /\ Return(c, "error")

RetryOrFail(c) ==
  \/ /\ local[c].tries > 1
     /\ local' = [local EXCEPT ![c] = [Idle EXCEPT !.pc = "read", !.tries = local[c].tries - 1]]
     /\ UNCHANGED <<call, outcome>>
  \/ local[c].tries = 1 /\ Return(c, "error")

(* Mutation of Update: the last round writes whatever version it has.         *)
UpdateForcedAtLast(c) ==
  /\ At(c, "update")
  /\ \/ (Accepted(c) \/ (secret.exists /\ local[c].tries = 1)) /\ Calm
        /\ history' = Append(history, WrittenBy(c)) /\ Return(c, "ok")
     \/ ~Accepted(c) /\ Calm /\ RetryOrFail(c) /\ UNCHANGED history
  /\ UNCHANGED <<seen, lock, calls>>

(* The server refuses a version that is not the latest, and a secret that is  *)
(* gone; the round is then repeated.  Another error ends the call, and the    *)
(* request may have been served.                                              *)
Update(c) ==
  /\ At(c, "update")
  /\ \/ Accepted(c) /\ Calm /\ history' = Append(history, WrittenBy(c)) /\ Return(c, "ok")
     \/ ~Accepted(c) /\ Calm /\ RetryOrFail(c) /\ UNCHANGED history
     \/ /\ Fault /\ Return(c, "error")
        /\ \/ UNCHANGED history
           \/ Accepted(c) /\ history' = Append(history, WrittenBy(c))
  /\ UNCHANGED <<seen, lock, calls>>

(* DeleteState                                                                *)

Find(c) ==
  /\ At(c, "find")
  /\ IF Cached(c).exists THEN Goto(c, "delete") /\ UNCHANGED <<call, outcome>>
     ELSE Return(c, "ok")
  /\ UNCHANGED <<history, seen, lock, calls, faults>>

(* By name: whatever version is there.                                        *)
Delete(c) ==
  /\ At(c, "delete")
  /\ \/ secret.exists /\ Calm /\ history' = Append(history, Absent) /\ Return(c, "ok")
     \/ ~secret.exists /\ Calm /\ UNCHANGED history /\ Return(c, "error")
     \/ /\ Fault /\ Return(c, "error")
        /\ \/ UNCHANGED history
           \/ secret.exists /\ history' = Append(history, Absent)
  /\ UNCHANGED <<seen, lock, calls>>

Proceed(c) ==
  \/ Read(c) \/ Lock(c) \/ Recheck(c) \/ CreateSecret(c) \/ Refetch(c) \/ Update(c)
  \/ Find(c) \/ Delete(c)

-----------------------------------------------------------------------------
(* The watch of operator p delivers the next version.                         *)
WatchEvent(p) ==
  /\ seen[p] < Len(history) /\ seen' = [seen EXCEPT ![p] = @ + 1]
  /\ UNCHANGED <<history, lock, call, outcome, local, calls, faults>>

(* Operator p restarts: its calls and its lock are gone, its cache is filled  *)
(* anew.                                                                      *)
Restart(p) ==
  /\ Fault /\ seen' = [seen EXCEPT ![p] = Len(history)]
  /\ lock' = [lock EXCEPT ![p] = Free]
  /\ local' = [c \in Callers |-> IF Home[c] = p THEN Idle ELSE local[c]]
  /\ call' = [c \in Callers |-> IF Home[c] = p THEN NoCall ELSE call[c]]
  /\ UNCHANGED <<history, outcome, calls>>

(* The garbage collector or a user deletes the secret.                        *)
DeletedByOthers ==
  /\ Fault /\ secret.exists /\ history' = Append(history, Absent)
  /\ UNCHANGED <<seen, lock, call, outcome, local, calls>>

Init ==
  /\ history = <<Absent>> /\ seen = [p \in Operators |-> 1]
  /\ lock = [p \in Operators |-> Free]
  /\ call = [c \in Callers |-> NoCall] /\ outcome = [c \in Callers |-> "none"]
  /\ local = [c \in Callers |-> Idle]
  /\ calls = 0 /\ faults = MaxFaults

Next ==
  \/ \E c \in Callers : Invoke(c) \/ Proceed(c)
  \/ \E p \in Operators : WatchEvent(p) \/ Restart(p)
  \/ DeletedByOthers

(* Every goroutine runs on; the watch may hang.                               *)
Spec == Init /\ [][Next]_vars
FairSpec == Spec /\ \A c \in Callers : WF_vars(Proceed(c))
-----------------------------------------------------------------------------
(* Properties                                                                 *)

Versions == [exists : BOOLEAN, data : [Keys -> Nat]]
Pcs == {"idle", "read", "lock", "recheck", "create", "refetch", "update", "find", "delete"}
Locals == [pc : Pcs, version : Nat, data : [Keys -> Nat], tries : 0 .. Retries,
           reads : 0 .. Retries]
Requests == [op : {"get", "write", "delete"}, keys : SUBSET Keys, value : 0 .. MaxCalls]

(* Every variable holds a value the program could hold; a round or a read     *)
(* that happens is one of the three there are.                                *)
ServiceTypeOK ==
  /\ history \in Seq(Versions) /\ Len(history) > 0
  /\ seen \in [Operators -> 1 .. Len(history)]
  /\ lock \in [Operators -> Callers \cup {Free}]
  /\ call \in [Callers -> Requests \cup {NoCall}]
  /\ outcome \in [Callers -> {"none", "ok", "error"}]
  /\ local \in [Callers -> Locals]
  /\ calls \in 0 .. MaxCalls /\ faults \in 0 .. MaxFaults
  /\ \A c \in Callers :
       /\ call[c].op = "write" => local[c].tries > 0
       /\ At(c, "refetch") => local[c].reads > 0

(* Exactly the callers inside GetOrCreateState's locked section hold the      *)
(* creation lock of their operator, so that none waits for one that left.     *)
Locked == {"recheck", "create", "refetch"}
LockInv ==
  \A c \in Callers : local[c].pc \in Locked <=> lock[Home[c]] = c

(* A copy about to be written is the version its resourceVersion says it is,  *)
(* and is written for a call in progress: a stale one cannot pass for fresh.  *)
CopyInv ==
  \A c \in Callers :
    /\ call[c] = NoCall <=> At(c, "idle")
    /\ local[c].pc \in {"read", "lock", "recheck", "create", "refetch"} =>
         call[c].op \in {"get", "write"}
    /\ local[c].pc \in {"find", "delete"} => call[c].op = "delete"
    /\ At(c, "update") =>
         /\ call[c].op = "write"
         /\ local[c].version \in 1 .. Len(history)
         /\ local[c].data = history[local[c].version].data

(* Every call returns, in at most three rounds, even if the watch hangs.      *)
CallsReturn == \A c \in Callers : ~At(c, "idle") ~> At(c, "idle")

(* The service implements StateRegister: no update is lost, whoever else      *)
(* writes, and what a call reports is true of what it did.                    *)
Register == INSTANCE StateRegister WITH
  Values <- 0 .. MaxCalls,
  present <- secret.exists, data <- secret.data, call <- call, outcome <- outcome

KeepsRegister == Register!Spec
=============================================================================
