------------------------------ MODULE MCVMSizing ------------------------------
(* Two workers, a class that comes and goes and one that stays, and a size    *)
(* that Azure offers at times.                                                *)
EXTENDS VMSizing, TLC

MCSmall == [cores |-> 2, memory |-> 8, gpu |-> FALSE]
MCNeeds == {MCSmall}
MCClassMaps == {("web" :> MCSmall) @@ ("db" :> need) : need \in {MCSmall, NoClass}}

(* Capacities in GB and hundredths of score as Azure and the code give them.  *)
MCCapacity ==
  [s \in Sizes |->
    CASE s = "D2s_v5" -> [cores |-> 2, memory |-> 8, purpose |-> "general", bonus |-> 20]
      [] s = "D4s_v5" -> [cores |-> 4, memory |-> 16, purpose |-> "general", bonus |-> 20]
      [] OTHER        -> [cores |-> 8, memory |-> 32, purpose |-> "general", bonus |-> 20]]
MCSizes == UNION {{Tables[c][p] : p \in Purposes} : c \in DOMAIN Tables}
MCOffers == {{"D2s_v5", "D4s_v5"}, {"D4s_v5"}}

Of(c) == [purpose |-> "general", class |-> c]
MCRequests == {Of("db")}
===============================================================================
