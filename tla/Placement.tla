------------------------------- MODULE Placement -------------------------------
(***************************************************************************)
(* What becomes of an observation when it is drained: at() gives it the    *)
(* place and the fix of the time it was heard at (GpsHistory), and the     *)
(* gate decides whether it adds a row (GeoDedup).  The gate reads no more  *)
(* of the GPS state than that fix, so one of the two is followed at a time.*)
(***************************************************************************)
EXTENDS GpsHistory, GeoDedup

VARIABLE part  \* which of them is followed

placementVars == <<vars, gateVars, part>>

PlacementInit == part \in {"gps", "gate"} /\ Init /\ GateInit

PlacementNext ==
  /\ part' = part
  /\ \/ part = "gps" /\ Next /\ UNCHANGED gateVars
     \/ part = "gate" /\ GateNext /\ UNCHANGED vars

PlacementSpec == PlacementInit /\ [][PlacementNext]_placementVars
===============================================================================
