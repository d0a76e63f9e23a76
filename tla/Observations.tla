----------------------------- MODULE Observations -----------------------------
(***************************************************************************)
(* What the three backends make of what they hear, before it enters a      *)
(* queue: frames (MonitorCapture), bluetoothctl's lines (BleEvents) and    *)
(* the spelling of an AP's security, which the monitor and the sweep       *)
(* backend have to agree on (AuthMode).  They run in threads of their own  *)
(* and share no state, so one of them is followed at a time.               *)
(***************************************************************************)
EXTENDS MonitorCapture, BleEvents, AuthMode

VARIABLE part  \* which of them is followed

vars == <<captureVars, bleVars, authVars, part>>

\* An AP and a capture to stand for those that are not followed.
SomeAp == CHOOSE a \in ApTypes : TRUE
Quiet ==
  /\ radiotap = TRUE /\ silent = {}
  /\ tuned = [a \in Aps |-> CHOOSE f \in Freqs : TRUE]

Init ==
  /\ part \in {"capture", "ble", "auth"}
  /\ CaptureInit /\ (part # "capture" => Quiet)
  /\ BleInit
  /\ AuthInit /\ (part # "auth" => ap = SomeAp)

Next ==
  /\ part' = part
  /\ \/ part = "capture" /\ CaptureNext /\ UNCHANGED <<bleVars, authVars>>
     \/ part = "ble" /\ BleNext /\ UNCHANGED <<captureVars, authVars>>
     \/ part = "auth" /\ AuthNext /\ UNCHANGED <<captureVars, bleVars>>

Spec == Init /\ [][Next]_vars
===============================================================================
