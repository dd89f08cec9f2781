---------------------------- MODULE MCSessionCalls ----------------------------
(* The tables a session keeps of its calls: the list of calls with their      *)
(* owners, and what is attached to a call.  A behaviour runs one of the two,  *)
(* chosen at the start, and leaves the other as it is.                        *)
EXTENDS CallRegistry, CallLegs

VARIABLE part

TablesInit == part \in {"registry", "legs"} /\ Init /\ LegsInit

\* Where the legs begin is of no concern to the registry.
TablesNext ==
    /\ UNCHANGED part
    /\ \/ part = "registry" /\ stage = "ringing" /\ todo["ai"] = <<>>
          /\ Next /\ UNCHANGED legsVars
       \/ part = "legs" /\ LegsNext /\ UNCHANGED vars

TablesSpec == TablesInit /\ [][TablesNext]_<<part, vars, legsVars>>
=============================================================================
