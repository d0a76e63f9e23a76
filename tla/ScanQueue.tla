------------------------------- MODULE ScanQueue -------------------------------
(***************************************************************************)
(* A scanner thread and the queue it fills (scanners/wifi.py, monitor.py   *)
(* and ble.py).  The three backends share their shape: observations of a   *)
(* window are collected, the strongest sighting of each device is kept,    *)
(* and the window is put on a bounded queue as one batch.  A full queue    *)
(* gives up a batch in three calls, put_nowait, get_nowait, put_nowait,    *)
(* and the scan loop may run between any two of them.                      *)
(*                                                                         *)
(* An observation is the number it has in the log of everything heard.     *)
(* The consumer of the queue is module LiveScan.                           *)
(***************************************************************************)
EXTENDS Integers, SequencesExt

CONSTANTS
  Backends,  \* the backends the instance looks at, a subset of AllBackends
  Macs,      \* devices to be heard
  Rssis,     \* signal strengths
  QueueMax,  \* maxsize of the queue
  MaxHeard   \* bound: observations

AllBackends == {"iw", "monitor", "ble"}

ASSUME QueueAssumption ==
  /\ Backends \subseteq AllBackends
  /\ Rssis \subseteq Int
  /\ QueueMax \in Nat \ {0}
  /\ MaxHeard \in Nat

VARIABLES
  backend,  \* which scanner this is
  stop,     \* _stop is set
  child,    \* _proc: a running child, a dead one, or None
  pc,       \* where the scanner thread is
  ending,   \* the flush in progress is the thread's last
  window,   \* _pending, or what the sweep has found so far
  batch,    \* the batch in the hands of _flush or _ingest
  q,        \* _q: batches, oldest first
  dropped,  \* dropped_batches
  log,      \* history: everything heard, in the order heard
  emitted,  \* history: windows closed so far
  lost,     \* history: batches given up
  gone      \* history: observations that went with a sweep or the thread

thread == <<stop, child, pc, ending>>
history == <<log, emitted, lost, gone>>
scanVars == <<backend, stop, child, pc, ending, window, batch, q, dropped,
              log, emitted, lost, gone>>

Heard == DOMAIN log
Batches == SUBSET Heard

ScanTypeOK ==
  /\ backend \in Backends
  /\ stop \in BOOLEAN /\ ending \in BOOLEAN
  /\ child \in {"up", "dead", "none"}
  /\ pc \in {"top", "poll", "read", "put", "get", "again", "ended"}
  /\ window \in Batches /\ batch \in Batches
  /\ q \in Seq(Batches) /\ Len(q) <= QueueMax
  /\ dropped \in Nat /\ emitted \in Nat
  /\ log \in Seq([mac : Macs, rssi : Rssis, window : Nat])
  /\ lost \subseteq Batches /\ gone \in Batches

ScanInit ==
  /\ backend \in Backends
  /\ stop = FALSE /\ child = "up" /\ pc = "top" /\ ending = FALSE
  /\ window = {} /\ batch = {} /\ q = <<>> /\ dropped = 0
  /\ log = <<>> /\ emitted = 0 /\ lost = {} /\ gone = {}

-------------------------------------------------------------------------------
(* The window. *)

\* What the window holds of a device: nothing, or one observation.
Pending(mac) == {n \in window : log[n].mac = mac}

\* Mutant of Stronger: the latest sighting replaces the one before.
Later(n, rssi) == TRUE
Stronger(n, rssi) == rssi > log[n].rssi

\* Something is heard: by tcpdump or bluetoothctl, whose strongest sighting is
\* kept, or by the sweep, which lists a device once.
HearOf(mac, rssi) ==
  LET n == Len(log) + 1
  IN /\ pc = "read" /\ Len(log) < MaxHeard
     /\ backend = "iw" => Pending(mac) = {}
     /\ window' = IF \A p \in Pending(mac) : Stronger(p, rssi)
                  THEN (window \ Pending(mac)) \cup {n}
                  ELSE window
     /\ log' = Append(log, [mac |-> mac, rssi |-> rssi, window |-> emitted])
     /\ UNCHANGED <<backend, thread, batch, q, dropped, emitted, lost, gone>>

\* The thread goes on after a flush, or ends after its last.
After(last) == IF last THEN "ended" ELSE "top"

\* _flush(), _ingest(): an empty window is left alone, any other is closed and
\* taken in hand.
Close(last) ==
  /\ ending' = last
  /\ IF window = {}
     THEN pc' = After(last) /\ UNCHANGED <<window, batch, emitted>>
     ELSE pc' = "put" /\ batch' = window /\ window' = {}
          /\ emitted' = emitted + 1

\* The window, and the thread with it or not, is given up.
GiveUp(next) ==
  /\ gone' = gone \cup window /\ window' = {}
  /\ pc' = next
  /\ UNCHANGED <<backend, stop, child, ending, batch, q, dropped, log, emitted,
                 lost>>

-------------------------------------------------------------------------------
(* The thread's loop. *)

Unchanged == UNCHANGED <<backend, stop, child, q, dropped, log, lost, gone>>

\* Mutant of Top: the last flush is left out.
TopWithoutFlush ==
  /\ pc = "top"
  /\ pc' = IF stop THEN "ended" ELSE IF backend = "ble" THEN "poll" ELSE "read"
  /\ UNCHANGED <<window, batch, ending, emitted>>
  /\ Unchanged

\* Top of the loop: `while not stop`.  The windowed backends flush once more
\* when they leave it, the sweeping one has nothing left.
Top ==
  /\ pc = "top"
  /\ IF ~stop
     THEN pc' = (IF backend = "ble" THEN "poll" ELSE "read")
          /\ UNCHANGED <<window, batch, ending, emitted>>
     ELSE Close(TRUE)
  /\ Unchanged

\* ... `and self._proc.poll() is None`: stop() may have cleared _proc since the
\* first half of the condition was found true.  The exception ends the thread.
Poll ==
  /\ pc = "poll" /\ child # "none"
  /\ IF child = "up"
     THEN pc' = "read" /\ UNCHANGED <<window, batch, ending, emitted>>
     ELSE Close(TRUE)
  /\ Unchanged

PollRaises ==
  /\ pc = "poll" /\ child = "none"
  /\ GiveUp("ended")

\* The emit interval has passed, or the sweep is over.
Emit ==
  /\ pc = "read"
  /\ Close(FALSE)
  /\ Unchanged

\* The emit interval has not passed: the window stays open.
KeepOpen ==
  /\ pc = "read" /\ backend # "iw"
  /\ pc' = "top"
  /\ UNCHANGED <<window, batch, ending, emitted>>
  /\ Unchanged

\* The pipe or pty of the windowed backends is at its end.
SourceEnds ==
  /\ pc = "read" /\ backend # "iw" /\ child # "up"
  /\ Close(TRUE)
  /\ Unchanged

\* tcpdump's stream makes no sense (its magic, the length of a record): the
\* thread returns without a last flush.
StreamCorrupt ==
  /\ pc = "read" /\ backend = "monitor"
  /\ GiveUp("ended")

\* A sweep fails or times out: what it had heard is not reported.
SweepFails ==
  /\ pc = "read" /\ backend = "iw"
  /\ GiveUp("top")

\* tcpdump or bluetoothctl dies.
ChildDies ==
  /\ backend # "iw" /\ child = "up"
  /\ child' = "dead"
  /\ UNCHANGED <<backend, stop, pc, ending, window, batch, q, dropped, history>>

-------------------------------------------------------------------------------
(* Putting the batch on the queue. *)

\* Mutant of Room: a queue without a maxsize.
AlwaysRoom == TRUE
Room == Len(q) < QueueMax

PutDone == q' = Append(q, batch) /\ batch' = {} /\ pc' = After(ending)

\* put_nowait(): done, or Full.
Put ==
  /\ pc = "put"
  /\ IF Room THEN PutDone ELSE pc' = "get" /\ UNCHANGED <<q, batch>>
  /\ UNCHANGED <<backend, stop, child, ending, window, dropped, history>>

\* get_nowait(): the oldest batch is given up.
GetOldest ==
  /\ pc = "get" /\ q # <<>>
  /\ lost' = lost \cup {Head(q)} /\ q' = Tail(q)
  /\ pc' = "again"
  /\ UNCHANGED <<backend, stop, child, ending, window, batch, dropped, log,
                 emitted, gone>>

\* get_nowait() when the scan loop has emptied the queue in between: Empty is
\* swallowed and the batch in hand is given up.
GetEmpty ==
  /\ pc = "get" /\ q = <<>>
  /\ lost' = lost \cup {batch} /\ batch' = {}
  /\ dropped' = dropped + 1
  /\ pc' = After(ending)
  /\ UNCHANGED <<backend, stop, child, ending, window, q, log, emitted, gone>>

\* Mutant of PutAgain: the drop is forgotten.
PutAgainUncounted ==
  /\ pc = "again" /\ Room
  /\ PutDone
  /\ UNCHANGED <<backend, stop, child, ending, window, dropped, history>>

\* The second put_nowait(), which cannot find the queue full again: this thread
\* is the only one that fills it.
PutAgain ==
  /\ pc = "again" /\ Room
  /\ PutDone
  /\ dropped' = dropped + 1
  /\ UNCHANGED <<backend, stop, child, ending, window, history>>

Scan ==
  \/ Top
  \/ Poll
  \/ PollRaises
  \/ Emit
  \/ KeepOpen
  \/ SourceEnds
  \/ StreamCorrupt
  \/ SweepFails
  \/ ChildDies
  \/ Put
  \/ GetOldest
  \/ GetEmpty
  \/ PutAgain

-------------------------------------------------------------------------------
(* Properties of the queue. *)

\* dropped_batches tells how many batches were given up, between one flush and
\* the next: the race with the scan loop never makes it count one too many or
\* too few.
DropsCounted == pc \notin {"get", "again"} => dropped = Cardinality(lost)

\* "newer observations are the ones worth keeping" (wifi.py:488; monitor.py:578
\* says the same): the newest window is never the one that is given up.
NewestKept ==
  \A b \in lost : \A n \in b : log[n].window < emitted - 1
===============================================================================
