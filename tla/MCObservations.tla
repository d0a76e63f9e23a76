---------------------------- MODULE MCObservations ----------------------------
(* Observations on small instances. *)
EXTENDS Observations

CONSTANTS ap1, ghost, m1, m2
===============================================================================
