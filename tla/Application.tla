------------------------------ MODULE Application ------------------------------
(***************************************************************************)
(* The program as a payload of the pager: how it is started, left and      *)
(* followed by another (Handoff), and the settings it keeps from one start *)
(* to the next (Settings).  Nothing of the handoff depends on a setting,   *)
(* so one of the two is followed at a time.                                *)
(***************************************************************************)
EXTENDS Handoff, Settings

VARIABLE part  \* which of them is followed

applicationVars == <<handoffVars, settingsVars, part>>

ApplicationInit == part \in {"handoff", "settings"} /\ HandoffInit /\ SettingsInit

ApplicationNext ==
  /\ part' = part
  /\ \/ part = "handoff" /\ HandoffNext /\ UNCHANGED settingsVars
     \/ part = "settings" /\ SettingsNext /\ UNCHANGED handoffVars

\* The shell runs; the user and the battery are free.
ApplicationSpec ==
  /\ ApplicationInit /\ [][ApplicationNext]_applicationVars
  /\ WF_applicationVars(part = "handoff" /\ Shell /\ UNCHANGED <<settingsVars, part>>)
===============================================================================
