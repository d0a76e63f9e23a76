------------------------------- MODULE ScanSession -------------------------------
(***************************************************************************)
(* One scan from end to end (App._live_scan): two scanners, the gate of    *)
(* the session, its counters and its file, and what an error does to them. *)
(* It composes what LiveScan, GeoDedup and SessionWriter look at one by    *)
(* one, each reduced to what the others see of it: a scanner thread puts   *)
(* observations on a bounded queue, and stop() may give up waiting for it  *)
(* to end; the gate knows the devices that have a row; the file is open,   *)
(* or not, or open without its header.                                     *)
(*                                                                         *)
(* An observation is the number it has in the log of everything heard.     *)
(* An exception leaves the loop into `finally`, where it is swallowed by   *)
(* the last drain or goes on to end the program.                           *)
(***************************************************************************)
EXTENDS Integers, SequencesExt

CONSTANTS
  Macs,        \* addresses to be heard
  RequireFix,  \* require_fix
  QueueMax,    \* queue_max: observations a queue holds
  Faults,      \* what may fail, a subset of FaultKinds
  MaxHeard     \* bound: observations

Sides == {"wifi", "ble"}
FaultKinds == {"session", "write", "rotate", "other"}

ASSUME SessionAssumption ==
  /\ RequireFix \in BOOLEAN /\ QueueMax \in Nat \ {0}
  /\ Faults \subseteq FaultKinds /\ MaxHeard \in Nat

VARIABLES
  uses,       \* the scanners the menu item asks for
  pc,         \* where _live_scan is
  side,       \* the scanner whose observations are looked at
  last,       \* this is the drain of `finally`
  raised,     \* an exception is on its way out
  runs,       \* the scanners that were started and not told to stop
  strays,     \* those that stop() has given up on, and whose threads go on
  queue,      \* the scanners' queues
  work,       \* the list drain() has returned, as far as it is not yet done
  paused,     \* st.paused
  seen,       \* dedup: devices that were let through
  file,       \* _fh: "none", "open", or "headless" after a header that failed
  rowsWritten,\* stats.rows_written
  total,      \* stats.wifi_total and ble_total
  log,        \* history: everything heard
  fate,       \* history: what became of it
  failed,     \* history: what has failed
  rotateFails \* history: how many rotations have failed

loopVars == <<pc, side, last, raised>>
threads == <<runs, strays>>
stats == <<seen, file, rowsWritten, total>>
failures == <<failed, rotateFails>>
vars == <<uses, loopVars, threads, queue, work, paused, stats, log, fate,
          failures>>

Over == pc \in {"saved", "crashed"}
Heard == DOMAIN log
Fates == {"waiting", "row", "erased", "duplicate", "noFix", "discarded", "dropped",
          "raised", "lost"}

\* A device is a MAC on one side or the other.
Device(n) == <<log[n].side, log[n].mac>>

TypeOK ==
  /\ uses \in SUBSET Sides /\ side \in Sides
  /\ pc \in {"start", "drain", "rows", "input", "dialog", "stop", "close",
             "saved", "crashed"}
  /\ {last, raised, paused} \subseteq BOOLEAN
  /\ file \in {"none", "open", "headless"}
  /\ runs \subseteq uses /\ strays \subseteq uses /\ seen \subseteq Sides \X Macs
  /\ queue \in [Sides -> Seq(Heard)] /\ work \in Seq(Heard)
  /\ rowsWritten \in Nat /\ total \in [Sides -> Nat]
  /\ log \in Seq([side : Sides, mac : Macs, fix : BOOLEAN, late : BOOLEAN])
  /\ fate \in [Heard -> Fates] /\ failed \subseteq Faults /\ rotateFails \in Nat

Init ==
  /\ uses \in SUBSET Sides \ {{}}
  /\ pc = "start" /\ side = "wifi" /\ last = FALSE /\ raised = FALSE
  /\ runs = {} /\ strays = {}
  /\ queue = [s \in Sides |-> <<>>] /\ work = <<>>
  /\ paused = FALSE
  /\ seen = {} /\ file = "none"
  /\ rowsWritten = 0 /\ total = [s \in Sides |-> 0]
  /\ log = <<>> /\ fate = <<>> /\ failed = {} /\ rotateFails = 0

-------------------------------------------------------------------------------
(* The scanners. *)

\* A thread that runs hears mac, with the GPS having a fix or not.  What comes
\* after stop() has given up on the thread is late; nothing says when it ends, and
\* when the scan is over nobody looks at its queue any more.
Hears(s, mac) ==
  /\ ~Over /\ s \in runs \cup strays /\ Len(log) < MaxHeard
  /\ \E fix \in BOOLEAN :
       log' = Append(log, [side |-> s, mac |-> mac, fix |-> fix,
                           late |-> s \in strays])
  /\ UNCHANGED <<uses, loopVars, threads, work, paused, stats, failures>>

\* The queue with the latest observation at its end.
Offered(s) == Append(queue[s], Len(log) + 1)

\* A scanner puts an observation on its queue.
Hear(s, mac) ==
  /\ Hears(s, mac) /\ Len(queue[s]) < QueueMax
  /\ queue' = [queue EXCEPT ![s] = Offered(s)]
  /\ fate' = Append(fate, "waiting")

\* The queue is full: the oldest is dropped for the latest.  While it is being
\* drained it may be any of them, and the latest when nothing is left to drop
\* (the calls of the two threads, one by one, are those of LiveScan).
HearFull(s, mac) ==
  /\ Hears(s, mac) /\ Len(queue[s]) = QueueMax
  /\ \E i \in 1..QueueMax + 1 :
       /\ i = 1 \/ (pc = "drain" /\ side = s)
       /\ queue' = [queue EXCEPT ![s] = RemoveAt(Offered(s), i)]
       /\ fate' = [Append(fate, "waiting") EXCEPT ![Offered(s)[i]] = "dropped"]

-------------------------------------------------------------------------------
(* Start. *)

\* The scanners are started one after the other, and hear already when ...
StartScanner(s) ==
  /\ pc = "start" /\ s \in uses \ runs
  /\ s = "ble" => "wifi" \notin uses \ runs
  /\ runs' = runs \cup {s}
  /\ UNCHANGED <<uses, loopVars, strays, queue, work, paused, stats, log, fate,
                 failures>>

\* ... the session's first file is opened.
OpenSession ==
  /\ pc = "start" /\ runs = uses
  /\ file' = "open" /\ pc' = "drain"
  /\ UNCHANGED <<uses, side, last, raised, threads, queue, work, paused, seen,
                 rowsWritten, total, log, fate, failures>>

\* It cannot be opened: the exception is raised before the `try`.
OpenFails ==
  /\ pc = "start" /\ runs = uses /\ "session" \in Faults
  /\ pc' = "crashed" /\ raised' = TRUE /\ failed' = failed \cup {"session"}
  /\ UNCHANGED <<uses, side, last, threads, queue, work, paused, stats, log,
                 fate, rotateFails>>

-------------------------------------------------------------------------------
(* Draining. *)

\* The observations ns come to the end e.
Fated(ns, e) == [n \in Heard |-> IF n \in ns THEN e ELSE fate[n]]

\* drain(): the list of what waits, or nothing of a scanner that is not used.
Drain ==
  /\ pc = "drain"
  /\ queue' = [queue EXCEPT ![side] = <<>>]
  /\ pc' = "rows"
  /\ IF paused /\ ~last
     THEN work' = <<>> /\ fate' = Fated(ToSet(queue[side]), "discarded")
     ELSE work' = queue[side] /\ UNCHANGED fate
  /\ UNCHANGED <<uses, side, last, raised, threads, paused, stats, log, failures>>

\* Mutant of ListDone: the last drain forgets the BLE scanner.
ListDoneWifiOnly ==
  /\ pc = "rows" /\ work = <<>>
  /\ side' = IF side = "wifi" /\ ~last THEN "ble" ELSE "wifi"
  /\ pc' = IF last THEN "close" ELSE IF side = "wifi" THEN "drain" ELSE "input"
  /\ UNCHANGED <<uses, last, raised, threads, queue, work, paused, stats, log,
                 fate, failures>>

\* The list is done: WiFi first, then BLE, then the buttons or the end.
ListDone ==
  /\ pc = "rows" /\ work = <<>>
  /\ side' = IF side = "wifi" THEN "ble" ELSE "wifi"
  /\ pc' = IF side = "wifi" THEN "drain" ELSE IF last THEN "close" ELSE "input"
  /\ UNCHANGED <<uses, last, raised, threads, queue, work, paused, stats, log,
                 fate, failures>>

\* The next observation of the list ends as e.
Next1(e) ==
  /\ pc = "rows" /\ work # <<>>
  /\ work' = Tail(work) /\ fate' = Fated({Head(work)}, e)

\* The row is tagged with where we were when it was heard (gps_state.at()).
HasFix(n) == log[n].fix

\* Mutant of GateNoFix: the dedup is asked before the fix.
GateNoFixLate ==
  /\ pc = "rows" /\ work # <<>> /\ RequireFix /\ ~HasFix(Head(work))
  /\ Next1("noFix")
  /\ seen' = seen \cup {Device(Head(work))}
  /\ UNCHANGED <<uses, loopVars, threads, queue, paused, file, rowsWritten,
                 total, log, failures>>

\* _gate(): no fix when it was heard.
GateNoFix ==
  /\ pc = "rows" /\ work # <<>> /\ RequireFix /\ ~HasFix(Head(work))
  /\ Next1("noFix")
  /\ UNCHANGED <<uses, loopVars, threads, queue, paused, stats, log, failures>>

Gated == pc = "rows" /\ work # <<>> /\ (RequireFix => HasFix(Head(work)))

\* _gate(): a row of the device says as much.
GateDuplicate ==
  /\ Gated /\ Device(Head(work)) \in seen
  /\ Next1("duplicate")
  /\ UNCHANGED <<uses, loopVars, threads, queue, paused, stats, log, failures>>

\* _gate() lets the observation pass: the dedup takes note of it, or the
\* device has moved on since its latest row.
Passes == Gated /\ seen' = seen \cup {Device(Head(work))}

\* The row at hand is written and counted: it is in the file, unless that has no
\* header and is opened anew under the same name (open("w")) by the rotation
\* that follows, `anew`.
RowEnds(anew) == IF anew /\ file = "headless" THEN "erased" ELSE "row"

\* _write_row() and add_wifi() or add_ble() run to the end, and the rotation if
\* there is one; after a header that failed there is one, since the bytes of the
\* file before it still count.
WriteRow ==
  /\ Passes /\ file # "none"
  /\ Next1(RowEnds(TRUE))
  /\ file' = "open"
  /\ rowsWritten' = rowsWritten + 1
  /\ total' = [total EXCEPT ![side] = @ + 1]
  /\ UNCHANGED <<uses, loopVars, threads, queue, paused, log, failures>>

\* Where an exception in the loop or in the last drain leads.  In `finally` it is
\* swallowed.
Unwinds ==
  /\ IF last THEN pc' = "close" /\ UNCHANGED <<side, raised>>
             ELSE pc' = "stop" /\ side' = "wifi" /\ raised' = TRUE
  /\ work' = <<>>
  /\ UNCHANGED last

\* The row at hand raises and ends as e; what is left of the list is gone.
RowRaises(e) ==
  /\ Passes /\ Unwinds
  /\ fate' = [n \in Heard |-> IF n = Head(work) THEN e
                              ELSE IF n \in ToSet(work) THEN "lost" ELSE fate[n]]
  /\ UNCHANGED <<uses, threads, queue, paused, total, log>>

\* write() raises, because making room in the buffer failed or because there is
\* no file any more.
WriteRaises ==
  /\ file = "none" \/ "write" \in Faults
  /\ RowRaises("raised")
  /\ failed' = IF file # "none" THEN failed \cup {"write"} ELSE failed
  /\ UNCHANGED <<file, rowsWritten, rotateFails>>

\* The row is written and counted, but the file is full and the next one cannot
\* be opened, or its header cannot be written: add_wifi() does not come to count
\* the row too.
RotateRaises ==
  /\ file # "none" /\ "rotate" \in Faults
  /\ file' \in {"none", "headless"}
  /\ RowRaises(RowEnds(file' = "headless"))
  /\ rowsWritten' = rowsWritten + 1
  /\ failed' = failed \cup {"rotate"} /\ rotateFails' = rotateFails + 1

-------------------------------------------------------------------------------
(* The buttons. *)

NoButton ==
  /\ pc = "input" /\ pc' = "drain"
  /\ UNCHANGED <<uses, side, last, raised, threads, queue, work, paused, stats,
                 log, fate, failures>>

\* A: pause or resume.
PressA ==
  /\ pc = "input" /\ pc' = "drain" /\ paused' = ~paused
  /\ UNCHANGED <<uses, side, last, raised, threads, queue, work, stats, log,
                 fate, failures>>

\* B: the question whether to end, and the answer.
PressB ==
  /\ pc = "input" /\ pc' = "dialog"
  /\ UNCHANGED <<uses, side, last, raised, threads, queue, work, paused, stats,
                 log, fate, failures>>

Answer ==
  /\ pc = "dialog" /\ pc' \in {"drain", "stop"}
  /\ UNCHANGED <<uses, side, last, raised, threads, queue, work, paused, stats,
                 log, fate, failures>>

\* Anything else in the loop that raises: saving the brightness (UP, DOWN) on a
\* full disk, drawing the HUD.
LoopRaises ==
  /\ pc \in {"input", "dialog"} /\ "other" \in Faults
  /\ Unwinds
  /\ failed' = failed \cup {"other"}
  /\ UNCHANGED <<uses, threads, queue, paused, stats, log, fate, rotateFails>>

-------------------------------------------------------------------------------
(* `finally`. *)

\* stop() of these scanners: it waits for the thread, but not for ever.
Stopped(ss) ==
  /\ runs' = runs \ ss
  /\ strays' \in {strays, strays \cup (runs \cap ss)}

\* Mutant of Stop: the last drain comes before BLE is stopped.
StopWifiOnly ==
  /\ pc = "stop"
  /\ Stopped({"wifi"})
  /\ pc' = "drain" /\ side' = "wifi" /\ last' = TRUE
  /\ UNCHANGED <<uses, raised, queue, work, paused, stats, log, fate,
                 failures>>

\* wifi.stop(), then ble.stop(), then the last drain.
Stop ==
  /\ pc = "stop"
  /\ IF "wifi" \in runs
     THEN Stopped({"wifi"}) /\ UNCHANGED <<pc, side, last>>
     ELSE Stopped({"ble"}) /\ pc' = "drain" /\ side' = "wifi" /\ last' = TRUE
  /\ UNCHANGED <<uses, raised, queue, work, paused, stats, log, fate,
                 failures>>

\* Mutant of Close: only on the way to the dialog, not in `finally`.
CloseIfSaved ==
  /\ pc = "close" /\ ~raised
  /\ file' = "none" /\ pc' = "saved"
  /\ UNCHANGED <<uses, side, last, raised, threads, queue, work, paused, seen,
                 rowsWritten, total, log, fate, failures>>

\* sess.close(); the SAVED dialog, unless an exception is on its way.
Close ==
  /\ pc = "close"
  /\ file' = "none"
  /\ pc' = IF raised THEN "crashed" ELSE "saved"
  /\ UNCHANGED <<uses, side, last, raised, threads, queue, work, paused, seen,
                 rowsWritten, total, log, fate, failures>>

LiveScan ==
  \/ \E s \in Sides : StartScanner(s)
  \/ OpenSession
  \/ OpenFails
  \/ Drain
  \/ ListDone
  \/ GateNoFix
  \/ GateDuplicate
  \/ WriteRow
  \/ WriteRaises
  \/ RotateRaises
  \/ NoButton
  \/ PressA
  \/ PressB
  \/ LoopRaises
  \/ Stop
  \/ Close

Next ==
  \/ \E s \in Sides, mac \in Macs : Hear(s, mac)
  \/ \E s \in Sides, mac \in Macs : HearFull(s, mac)
  \/ LiveScan
  \/ Answer

Spec == Init /\ [][Next]_vars

\* The loop runs, and stop() gives up on a thread that does not end; nobody has
\* to answer the question.
FairSpec == Spec /\ WF_vars(LiveScan)

-------------------------------------------------------------------------------
(* Properties. *)

\* More of this side was heard than its queue holds.
Crowded(s) == Cardinality({n \in Heard : log[n].side = s}) > QueueMax

\* The promise of a scan, from the air to the file: when it is saved and nothing
\* has failed, everything heard has been dealt with, and every device heard with
\* a fix has a row from then or before.  What is lost of it is what came during a
\* pause, what a queue had no room for, and what a thread put there after stop()
\* had given up on it.  The last drain, the pauses, the fix that comes and goes
\* and the dedup all have a chance to break it.
FixedHasRow ==
  pc = "saved" /\ failed = {} =>
    \A n \in Heard :
      \/ log[n].late
      \/ fate[n] = "discarded"
      \/ fate[n] = "dropped" /\ Crowded(log[n].side)
      \/ fate[n] = "noFix" /\ ~log[n].fix
      \/ /\ fate[n] \in {"row", "duplicate"}
         /\ \E m \in 1..n : Device(m) = Device(n) /\ fate[m] = "row"

\* The dedup entry is made before the row is written (session.py:144, 153): what
\* is refused as a duplicate has a row to be a duplicate of, or one that an
\* exception or a rotation has cost, and only a failure makes such a one.
DuplicateHasRow ==
  \A n \in Heard : fate[n] = "duplicate" =>
    \E m \in 1..n - 1 :
      /\ Device(m) = Device(n)
      /\ fate[m] = "row" \/ (fate[m] \in {"raised", "erased"} /\ failed # {})

\* "Refusing to write without a fix is the whole point" (session.py:140): with
\* require_fix no row is tagged with a position from before a dropout.
RowHadFix ==
  RequireFix => \A n \in Heard : fate[n] \in {"row", "erased"} => log[n].fix

\* The numbers of the SAVED dialog: the rows are those of WiFi and BLE together
\* and one for each rotation that failed after counting its row.  The exception
\* ends the loop, so that there are at most two of these, the second in the last
\* drain after a header that failed; only then is a row counted that the file
\* has lost.
CountersAgree ==
  /\ rowsWritten = Cardinality({n \in Heard : fate[n] \in {"row", "erased"}})
  /\ rowsWritten = total["wifi"] + total["ble"] + rotateFails
  /\ rotateFails <= 2
  /\ rotateFails = 0 => \A n \in Heard : fate[n] # "erased"

\* What has become of each sighting is what the file and the numbers say.
FatesAgree == TypeOK /\ DuplicateHasRow /\ RowHadFix /\ CountersAgree

\* However a scan ends, its scanners were told to stop and its file is closed,
\* unless the session's first file could not be opened: then the scanners go on
\* while the exception ends the program.
AllClosed == Over => file = "none" /\ (runs = {} \/ failed = {"session"})

\* Once it is to end, the scan ends, saved or with the error shown.
ScanEnds == pc = "stop" ~> Over

===============================================================================
