---------------------------- MODULE StateRegister ----------------------------
(* What the cluster state service promises its callers: a set of keys per     *)
(* cluster, written by calls that take effect at one instant each.  A call    *)
(* that reports success has taken effect, once, and touched its own keys      *)
(* only; one that reports an error has taken effect once or not at all.       *)
EXTENDS Naturals

CONSTANTS Callers, Keys, Values   \* who calls, and what is stored

VARIABLES
  present,   \* the keys are stored
  data,      \* the value of every key, 0 where none was written
  call,      \* the call each caller is in
  outcome    \* what its last call reported

registerVars == <<present, data, call, outcome>>

NoData == [k \in Keys |-> 0]
NoCall == [op |-> "none", keys |-> {}, value |-> 0]
Requests == [op : {"get", "write", "delete"}, keys : SUBSET Keys, value : Values]

Merged(old, request) ==
  [k \in Keys |-> IF k \in request.keys THEN request.value ELSE old[k]]

Ends(c, result) ==
  /\ call[c] # NoCall
  /\ call' = [call EXCEPT ![c] = NoCall]
  /\ outcome' = [outcome EXCEPT ![c] = result]

Untouched == UNCHANGED <<present, data>>
Empty     == present' = TRUE /\ data' = NoData
Gone      == present' = FALSE /\ data' = NoData

(* The instant of a call.  A deletion may also find nothing: the caller's     *)
(* view of what is stored is allowed to lag.                                  *)
Effect(c) ==
  \/ call[c].op = "get" /\ Untouched
  \/ call[c].op = "write" /\ present /\ present' = TRUE /\ data' = Merged(data, call[c])
  \/ call[c].op = "delete" /\ (Gone \/ Untouched)

Request(c) ==
  /\ call[c] = NoCall
  /\ \E r \in Requests : call' = [call EXCEPT ![c] = r]
  /\ outcome' = [outcome EXCEPT ![c] = "none"]
  /\ Untouched

Succeed(c) == Ends(c, "ok") /\ Effect(c)
Fail(c)    == Ends(c, "error") /\ (Untouched \/ Effect(c) \/ (~present /\ Empty))

(* Any read creates what is not there; others may delete it; callers may die. *)
Create == ~present /\ Empty /\ UNCHANGED <<call, outcome>>
Remove == Gone /\ UNCHANGED <<call, outcome>>
Die ==
  /\ \E dead \in SUBSET Callers :
       call' = [c \in Callers |-> IF c \in dead THEN NoCall ELSE call[c]]
  /\ UNCHANGED <<present, data, outcome>>

Init == /\ present = FALSE /\ data = NoData
        /\ call = [c \in Callers |-> NoCall]
        /\ outcome = [c \in Callers |-> "none"]

Next == \/ \E c \in Callers : Request(c) \/ Succeed(c) \/ Fail(c)
        \/ Create \/ Remove \/ Die

Spec == Init /\ [][Next]_registerVars
=============================================================================
