-------------------------------- MODULE LiveScan --------------------------------
(***************************************************************************)
(* The scan loop (App._live_scan) at the other end of the queue of module  *)
(* ScanQueue: it drains the queue, writes or (paused) discards what it     *)
(* drained, then looks at the buttons; B asks in a dialog, during which    *)
(* nothing is drained; the end stops the scanner, drains a last time and   *)
(* closes the session.  Writing a row is module SessionWriter's business.  *)
(***************************************************************************)
EXTENDS ScanQueue

CONSTANT JoinTimesOut  \* the backends whose thread stop() may give up on

ASSUME JoinAssumption == JoinTimesOut \subseteq AllBackends

VARIABLES
  main,       \* where the scan loop is
  paused,     \* st.paused
  out,        \* the list drain() has built so far
  written,    \* history: batches written, in the order written
  discarded,  \* history: batches drained while paused
  joined      \* history: stop() saw the thread end

loopVars == <<main, paused, out, written, discarded, joined>>
vars == <<scanVars, loopVars>>

TypeOK ==
  /\ ScanTypeOK
  /\ main \in {"drain", "input", "dialog", "stop", "clear", "join", "lastDrain",
               "closed"}
  /\ paused \in BOOLEAN /\ joined \in BOOLEAN
  /\ out \in Seq(Batches) /\ written \in Seq(Batches)
  /\ discarded \subseteq Batches

Init ==
  /\ ScanInit
  /\ main = "drain" /\ paused = FALSE /\ out = <<>>
  /\ written = <<>> /\ discarded = {} /\ joined = FALSE

-------------------------------------------------------------------------------

Hear(mac, rssi) == HearOf(mac, rssi) /\ UNCHANGED loopVars

Scanner == Scan /\ UNCHANGED loopVars

\* The queue, with everything else of the scanner left alone.
ScannerKeeps == UNCHANGED <<backend, stop, child, pc, ending, window, batch,
                            dropped, log, emitted, lost, gone>>

\* Mutant of Drain: the newest batch first.
DrainNewest ==
  /\ main \in {"drain", "lastDrain"} /\ q # <<>>
  /\ out' = Append(out, Last(q)) /\ q' = Front(q)
  /\ ScannerKeeps
  /\ UNCHANGED <<main, paused, written, discarded, joined>>

\* Mutant of Drain: the queue is cleared after a batch was taken.
DrainClears ==
  /\ main \in {"drain", "lastDrain"} /\ q # <<>>
  /\ out' = Append(out, Head(q)) /\ q' = <<>>
  /\ ScannerKeeps
  /\ UNCHANGED <<main, paused, written, discarded, joined>>

\* drain(): one get_nowait() that finds a batch.
Drain ==
  /\ main \in {"drain", "lastDrain"} /\ q # <<>>
  /\ out' = Append(out, Head(q)) /\ q' = Tail(q)
  /\ ScannerKeeps
  /\ UNCHANGED <<main, paused, written, discarded, joined>>

\* drain() that finds the queue empty: the list is written, or thrown away when
\* paused.
Drained ==
  /\ main = "drain" /\ q = <<>>
  /\ out' = <<>>
  /\ IF paused
     THEN discarded' = discarded \cup ToSet(out) /\ UNCHANGED written
     ELSE written' = written \o out /\ UNCHANGED discarded
  /\ main' = "input"
  /\ UNCHANGED <<scanVars, paused, joined>>

\* No button that matters here.
NoInput ==
  /\ main = "input" /\ main' = "drain"
  /\ UNCHANGED <<scanVars, paused, out, written, discarded, joined>>

\* A: pause or resume.
PressA ==
  /\ main = "input" /\ main' = "drain"
  /\ paused' = ~paused
  /\ UNCHANGED <<scanVars, out, written, discarded, joined>>

\* B: the END SESSION dialog, until it is answered yes or no.
PressB ==
  /\ main = "input" /\ main' = "dialog"
  /\ UNCHANGED <<scanVars, paused, out, written, discarded, joined>>

Answer ==
  /\ main = "dialog" /\ main' \in {"drain", "stop"}
  /\ UNCHANGED <<scanVars, paused, out, written, discarded, joined>>

\* stop(): the event first, then the child is terminated, and forgotten by the
\* BLE scanner, then the thread is waited for.
SetStop ==
  /\ main = "stop" /\ main' = "clear"
  /\ stop' = TRUE
  /\ UNCHANGED <<backend, child, pc, ending, window, batch, q, dropped, history>>
  /\ UNCHANGED <<paused, out, written, discarded, joined>>

ClearChild ==
  /\ main = "clear" /\ main' = "join"
  /\ child' = CASE backend = "ble" -> "none"
                [] backend = "monitor" -> "dead"
                [] backend = "iw" -> child
  /\ UNCHANGED <<backend, stop, pc, ending, window, batch, q, dropped, history>>
  /\ UNCHANGED <<paused, out, written, discarded, joined>>

Join ==
  /\ main = "join"
  /\ pc = "ended" \/ backend \in JoinTimesOut
  /\ main' = "lastDrain" /\ joined' = (pc = "ended")
  /\ UNCHANGED <<scanVars, paused, out, written, discarded>>

\* The last drain has emptied the queue: everything is written, paused or not,
\* and the session closed.
LastDrained ==
  /\ main = "lastDrain" /\ q = <<>>
  /\ written' = written \o out /\ out' = <<>>
  /\ main' = "closed"
  /\ UNCHANGED <<scanVars, paused, discarded, joined>>

Next ==
  \/ \E mac \in Macs, rssi \in Rssis : Hear(mac, rssi)
  \/ Scanner
  \/ Drain
  \/ Drained
  \/ NoInput
  \/ PressA
  \/ PressB
  \/ Answer
  \/ SetStop
  \/ ClearChild
  \/ Join
  \/ LastDrained

Spec == Init /\ [][Next]_vars

-------------------------------------------------------------------------------
(* Properties. *)

\* The windows in the order closed, as long as they are on their way or written.
Pipeline == written \o out \o q \o (IF batch = {} THEN <<>> ELSE <<batch>>)
WindowOf(b) == log[CHOOSE n \in b : TRUE].window

\* Batches are written in the order their windows were closed, none twice,
\* however the scan loop and the overflow of the queue interleave.
WrittenInOrder ==
  \A i, j \in DOMAIN Pipeline :
    i < j => WindowOf(Pipeline[i]) < WindowOf(Pipeline[j])

\* The queue's bookkeeping: it never holds more than it may, its counter tells what
\* it gave up, and what is left is in order.
QueueKept == TypeOK /\ DropsCounted /\ WrittenInOrder

\* Every window that was closed is on its way, written, discarded in a pause or
\* given up, and in one of these places only.
EveryWindowAccounted ==
  /\ emitted = Len(Pipeline) + Cardinality(discarded) + Cardinality(lost)
  /\ ToSet(Pipeline) \cap discarded = {}
  /\ (ToSet(Pipeline) \cup discarded) \cap lost = {}

\* "the closest approach" (monitor.py:561, ble.py:203): of everything the
\* windowed backends heard of a device in a window, the strongest is written.
StrongestWritten ==
  backend # "iw" =>
    \A i \in DOMAIN written : \A n \in written[i], m \in Heard :
      log[m].mac = log[n].mac /\ log[m].window = log[n].window
      => log[m].rssi <= log[n].rssi

\* When stop() has seen the thread end, the last drain leaves nothing behind: of
\* what the iw and monitor scanners have heard, nothing waits in the window, in
\* hand or in the queue once the session is closed.
NothingLeftBehind ==
  main = "closed" /\ joined => window = {} /\ batch = {} /\ q = <<>>

\* "Hand over whatever the last partial window collected" (ble.py:219): stopping
\* the scanner loses no window.
LastWindowHandedOver == gone = {}

===============================================================================
