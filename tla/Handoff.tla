--------------------------------- MODULE Handoff ---------------------------------
(***************************************************************************)
(* JUMP TO (handoff.py, App._action_jump and _do_handoff, main, and the    *)
(* main loop of payload.sh).  A program that is to hand over writes the    *)
(* chosen launcher into the file .next_payload of its own directory and    *)
(* exits with 42; the shell that started it reads and removes the file of  *)
(* ITS directory, runs the launcher, and starts over when that one exits   *)
(* with 42 as well.                                                        *)
(*                                                                         *)
(* Every participating program follows the same protocol; Us is this one,  *)
(* and of the others only that is assumed.  A launcher starts a program's  *)
(* python directly, without that program's own shell loop.                 *)
(*                                                                         *)
(* Environment: exceptions and SIGKILL, a write that fails, power cuts.    *)
(***************************************************************************)
EXTENDS Naturals

CONSTANTS
  Apps,  \* the programs that take part
  Us     \* this program

ASSUME HandoffAssumption == Us \in Apps

VARIABLES
  root,     \* the program whose payload.sh runs
  shell,    \* where payload.sh is
  app,      \* the program whose python runs or has run last
  proc,     \* where that python is
  picked,   \* the target picked in it
  code,     \* its exit code
  file,     \* .next_payload of every program
  target,   \* NEXT_SCRIPT: what the shell has read
  service,  \* the pager's own service is up
  gone,     \* programs that have been uninstalled
  cut       \* history: the shell that ran last ended with the power

handoffVars == <<root, shell, app, proc, picked, code, file, target, service, gone, cut>>

\* No file, and a file whose content was cut short.
None == "none"
Torn == "torn"

HandoffTypes ==
  /\ root \in Apps /\ app \in Apps
  /\ shell \in {"off", "start", "run", "read", "remove", "launch", "peer", "end"}
  /\ proc \in {"none", "menu", "write", "open", "exited"}
  /\ code \in {0, 1, 42} /\ service \in BOOLEAN
  /\ picked \in Apps \cup {None}
  /\ file \in [Apps -> Apps \cup {None, Torn}]
  /\ target \in Apps \cup {None, Torn}
  /\ gone \subseteq Apps /\ cut \in BOOLEAN

HandoffInit ==
  /\ root = Us /\ shell = "off" /\ app = Us /\ proc = "none"
  /\ picked = None /\ code = 0
  /\ file = [a \in Apps |-> None] /\ target = None
  /\ service = TRUE /\ gone = {} /\ cut = FALSE

-------------------------------------------------------------------------------
(* The python program. *)

\* It starts with nothing picked.
Starts(a) == app' = a /\ proc' = "menu" /\ picked' = None /\ code' = 0

\* Mutant of Pick: the item (cancel) is taken for a launcher.
PickCancel(t) ==
  /\ proc = "menu" /\ t # app /\ t \notin gone
  /\ picked' \in {t, "cancel"} /\ proc' = "write"
  /\ UNCHANGED <<root, shell, app, code, file, target, service, gone, cut>>

\* JUMP TO lists what handoff.discover() finds installed.
Pick(t) ==
  /\ proc = "menu" /\ t # app /\ t \notin gone
  /\ picked' = t /\ proc' = "write"
  /\ UNCHANGED <<root, shell, app, code, file, target, service, gone, cut>>

\* request_handoff(): write_text() opens the file, which empties it ...
OpenFile ==
  /\ proc = "write" /\ proc' = "open"
  /\ file' = [file EXCEPT ![app] = Torn]
  /\ UNCHANGED <<root, shell, app, picked, code, target, service, gone, cut>>

\* ... and writes it; main() returns 42.
WriteFile ==
  /\ proc = "open" /\ proc' = "exited" /\ code' = 42
  /\ file' = [file EXCEPT ![app] = picked]
  /\ UNCHANGED <<root, shell, app, picked, target, service, gone, cut>>

\* Mutant of WriteFails: main() returns 42 all the same.
WriteFails42 ==
  /\ proc \in {"write", "open"} /\ proc' = "exited" /\ code' = 42
  /\ UNCHANGED <<root, shell, app, picked, file, target, service, gone, cut>>

\* The directory, the opening or the writing fails: the exception goes up.
WriteFails ==
  /\ proc \in {"write", "open"} /\ proc' = "exited" /\ code' = 1
  /\ UNCHANGED <<root, shell, app, picked, file, target, service, gone, cut>>

\* POWER OFF, or an exception or a signal anywhere.
Ends ==
  /\ proc \in {"menu", "write", "open"} /\ proc' = "exited"
  /\ code' \in IF proc = "menu" THEN {0, 1} ELSE {1}
  /\ UNCHANGED <<root, shell, app, picked, file, target, service, gone, cut>>

Python ==
  \/ \E t \in Apps : Pick(t)
  \/ OpenFile
  \/ WriteFile
  \/ WriteFails
  \/ Ends

-------------------------------------------------------------------------------
(* payload.sh *)

\* A payload is opened from the pager's own menu, whose service it stops.
Open(a) ==
  /\ shell = "off" /\ service
  /\ a \notin gone
  /\ root' = a /\ shell' = "start" /\ service' = FALSE /\ cut' = FALSE
  /\ UNCHANGED <<app, proc, picked, code, file, target, gone>>

RunOwn ==
  /\ shell = "start" /\ shell' = "run"
  /\ Starts(root)
  /\ UNCHANGED <<root, file, target, service, gone, cut>>

\* Mutant of OwnExits: a file that is there is followed whatever the exit code.
OwnExitsAnyCode ==
  /\ shell = "run" /\ proc = "exited"
  /\ shell' = IF file[root] # None THEN "read" ELSE "end"
  /\ UNCHANGED <<root, app, proc, picked, code, file, target, service, gone, cut>>

\* The exit code is 42 and the file exists.
OwnExits ==
  /\ shell = "run" /\ proc = "exited"
  /\ shell' = IF code = 42 /\ file[root] # None THEN "read" ELSE "end"
  /\ UNCHANGED <<root, app, proc, picked, code, file, target, service, gone, cut>>

\* Mutant of ReadFile: the file is removed first.
ReadRemoved ==
  /\ shell = "read" /\ shell' = "remove"
  /\ target' = None
  /\ UNCHANGED <<root, app, proc, picked, code, file, service, gone, cut>>

ReadFile ==
  /\ shell = "read" /\ shell' = "remove"
  /\ target' = file[root]
  /\ UNCHANGED <<root, app, proc, picked, code, file, service, gone, cut>>

RemoveFile ==
  /\ shell = "remove" /\ shell' = "launch"
  /\ file' = [file EXCEPT ![root] = None]
  /\ UNCHANGED <<root, app, proc, picked, code, target, service, gone, cut>>

\* The launcher that was read is a file, and finds its program: it runs.
Launch ==
  /\ shell = "launch" /\ target \in Apps \ gone
  /\ shell' = "peer" /\ Starts(target)
  /\ UNCHANGED <<root, file, target, service, gone, cut>>

LaunchNothing ==
  /\ shell = "launch" /\ target \notin Apps \ gone
  /\ shell' = "end"
  /\ UNCHANGED <<root, app, proc, picked, code, file, target, service, gone, cut>>

\* The launcher exits with the code of what it ran.
PeerExits ==
  /\ shell = "peer" /\ proc = "exited"
  /\ shell' = IF code = 42 THEN "start" ELSE "end"
  /\ UNCHANGED <<root, app, proc, picked, code, file, target, service, gone, cut>>

\* Mutant of Exit: no trap.
ExitUntrapped ==
  /\ shell = "end" /\ shell' = "off" /\ proc' = "none"
  /\ UNCHANGED <<root, app, picked, code, file, target, service, gone, cut>>

\* cleanup(), the EXIT trap: the pager's service is started again.
Exit ==
  /\ shell = "end" /\ shell' = "off" /\ proc' = "none"
  /\ service' = TRUE
  /\ UNCHANGED <<root, app, picked, code, file, target, gone, cut>>

Shell ==
  \/ RunOwn
  \/ OwnExits
  \/ ReadFile
  \/ RemoveFile
  \/ Launch
  \/ LaunchNothing
  \/ PeerExits
  \/ Exit

-------------------------------------------------------------------------------

\* Another program is uninstalled (over SSH), but not while it runs.
Uninstall(a) ==
  /\ a \notin gone \cup {Us}
  /\ proc = "none" \/ a \notin {app, root}
  /\ gone' = gone \cup {a}
  /\ UNCHANGED <<root, shell, app, proc, picked, code, file, target, service, cut>>

\* The battery is pulled and put back: the files stay, whole or cut short.
PowerCut ==
  /\ shell' = "off" /\ proc' = "none" /\ service' = TRUE /\ cut' = TRUE
  /\ \E torn \in SUBSET {a \in Apps : file[a] # None} :
       file' = [a \in Apps |-> IF a \in torn THEN Torn ELSE file[a]]
  /\ UNCHANGED <<root, app, picked, code, target, gone>>

HandoffNext ==
  \/ Python
  \/ Shell
  \/ \E a \in Apps : Open(a) \/ Uninstall(a)
  \/ PowerCut

HandoffSpec == HandoffInit /\ [][HandoffNext]_handoffVars

-------------------------------------------------------------------------------
(* Properties. *)

\* What the shell is about to launch was picked in the very process that has
\* just exited, and written whole: no .next_payload that a crash, a power cut, a
\* failed write or a jump made elsewhere has left behind is ever followed.
TargetIsFresh ==
  shell = "launch" => app = root /\ code = 42 /\ target = picked

\* A program that exits with 42 into its own shell is followed by its pick, if
\* that is still installed and the power lasts.
JumpArrives ==
  \A t \in Apps :
    (shell = "run" /\ proc = "exited" /\ code = 42 /\ picked = t)
      ~> (app = t /\ proc = "menu") \/ t \in gone \/ cut

\* "trap so service restarts even on error" (payload.sh:27): whenever a program
\* ends without a jump, the pager's own service comes back.
ServiceReturns == (proc = "exited" /\ code # 42) ~> service

\* However a program ends, the pager gets on: with the program picked, or with its
\* own service.
PagerGetsOn == JumpArrives /\ ServiceReturns

\* "the parent payload.sh loop re-execs the launcher" (handoff.py:6), of "each
\* participating payload": whichever program exits with 42, its pick is next.
PickIsNext ==
  [][proc = "exited" /\ code = 42 /\ proc' = "menu" => app' = picked]_handoffVars

===============================================================================
