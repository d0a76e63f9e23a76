------------------------------ MODULE DurableLog ------------------------------
(***************************************************************************)
(* What a scan session promises about its rows when the storage works: a   *)
(* log that only grows, whose durable part is always its own beginning,    *)
(* never shrinks, and is the whole log once the session is closed.  Where  *)
(* the rows wait meanwhile (text layer, page cache, which rotated file) is *)
(* the business of SessionWriter, which implements this specification.     *)
(***************************************************************************)
EXTENDS Naturals

VARIABLES
  written,  \* how many rows the session has taken
  safe,     \* the rows, by number, that a power cut can no longer take
  ended     \* the session is over: closed, killed or cut off

vars == <<written, safe, ended>>

\* A durable part without holes: what survives is a beginning of the log.
IsBeginning(S) == \A m, n \in 1..written : n \in S /\ m < n => m \in S

TypeOK ==
  /\ written \in Nat
  /\ safe \subseteq 1..written
  /\ ended \in BOOLEAN

Init ==
  /\ written = 0
  /\ safe = {}
  /\ ended = FALSE

\* A durable part may grow in any step, to a longer beginning of the log.
Harden ==
  /\ safe \subseteq safe'
  /\ safe' \subseteq 1..written'
  /\ IsBeginning(safe)'

Write ==
  /\ ~ended
  /\ written' = written + 1
  /\ Harden
  /\ UNCHANGED ended

Sync ==
  /\ ~ended
  /\ Harden
  /\ UNCHANGED <<written, ended>>

Close ==
  /\ ~ended
  /\ safe' = 1..written
  /\ ended' = TRUE
  /\ UNCHANGED written

\* The process is killed or the power fails: the durable part stays.
Crash ==
  /\ Harden
  /\ ended' = TRUE
  /\ UNCHANGED written

Next == Write \/ Sync \/ Close \/ Crash

Spec == Init /\ [][Next]_vars
===============================================================================
