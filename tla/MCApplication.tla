----------------------------- MODULE MCApplication -----------------------------
(* Application on small instances. *)
EXTENDS Application
===============================================================================
