------------------------------ MODULE MCLiveScan ------------------------------
(* LiveScan on small instances. *)
EXTENDS LiveScan

MacsAreAlike == Permutations(Macs)
===============================================================================
