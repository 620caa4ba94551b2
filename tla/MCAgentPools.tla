----------------------------- MODULE MCAgentPools -----------------------------
(* A cluster with a pool of a MachineClass and, at times, one of a size, with *)
(* autoscaling and hints at two purposes.                                     *)
EXTENDS AgentPools, TLC

CONSTANTS ours, other

MCSmall == [cores |-> 2, memory |-> 8, gpu |-> FALSE]
MCCoreless == [MCSmall EXCEPT !.cores = 0]
MCNeeds == {MCSmall, MCCoreless}

(* Capacities in GB as Azure documents them.                                  *)
MCCapacity ==
  [s \in Sizes |->
    CASE s = "D2s_v5" -> [cores |-> 2, memory |-> 8, purpose |-> "general", bonus |-> 20]
      [] s = "D4s_v5" -> [cores |-> 4, memory |-> 16, purpose |-> "general", bonus |-> 20]
      [] OTHER        -> [cores |-> 4, memory |-> 8, purpose |-> "compute", bonus |-> 7]]
MCSizes == UNION {{Tables[c][p] : p \in Purposes} : c \in DOMAIN Tables}
MCOffers == {{"D2s_v5", "D4s_v5", "F4s_v2"}, {"D4s_v5"}}

MCClassMaps == {("web" :> MCCoreless) @@ ("db" :> MCSmall)}

Of(c) == [scale |-> {}, class |-> c, purposes |-> {"general"}, count |-> 1]
Fixed == Of("D4s_v5")
Autoscaled == [Fixed EXCEPT !.scale = {0, 1}, !.purposes = {"general", "compute"}]
MCNodePools == {Fixed, Autoscaled, Of("db")}
MCTopologies ==
  {("system" :> Fixed) @@ ("a" :> Of("db")) @@ ("b" :> NoPool),
   ("system" :> Fixed) @@ ("a" :> Of("db")) @@ ("b" :> Autoscaled)}
MCRequests ==
  {[purpose |-> u, class |-> c] : c \in {"web", "db", "D4s_v5"}, u \in {"general", "compute"}}
MCOther == {[purpose |-> "general", class |-> "web"]}
===============================================================================
