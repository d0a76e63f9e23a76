----------------------------- MODULE MCScanSession -----------------------------
(* ScanSession on small instances. *)
EXTENDS ScanSession

===============================================================================
