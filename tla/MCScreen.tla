------------------------------- MODULE MCScreen -------------------------------
(* Screen on small instances. *)
EXTENDS Screen
===============================================================================
