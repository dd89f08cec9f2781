----------------------------- MODULE MCTransport -----------------------------
(* The transport of a call: the relay connections, and the streams that are   *)
(* registered on them while video is switched on and off.  Each behaviour     *)
(* runs one of the two, chosen at the start, and leaves the other as it is.   *)
EXTENDS RelayManager, VideoUpgrade

VARIABLE part

TransportInit ==
    /\ part \in {"relays", "video"}
    /\ Init /\ VideoInit
    /\ part = "relays" => media = "audio"

TransportNext ==
    /\ UNCHANGED part
    /\ \/ part = "relays" /\ Next /\ UNCHANGED videoVars
       \/ part = "video" /\ VideoNext /\ UNCHANGED vars

TransportSpec ==
    /\ TransportInit /\ [][TransportNext]_<<part, vars, videoVars>>
    /\ Fairness /\ VideoFairness
=============================================================================
