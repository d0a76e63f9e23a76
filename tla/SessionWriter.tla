----------------------------- MODULE SessionWriter -----------------------------
(***************************************************************************)
(* The CSV writer of one scan session (storage/session.py).                *)
(*                                                                         *)
(* A row passes through three places on its way to the flash: the Python   *)
(* file object, the page cache of the kernel, the disk.  The writer moves  *)
(* rows along when a row is written and a timer has run out, when the user *)
(* pauses or asks to end the session (flush), when a file reaches its size *)
(* limit (close, then open the next one: two steps, with room for a crash  *)
(* in between) and when the session ends (close).  The dedup and fix gate  *)
(* in front of _write_row is module GeoDedup; here every row has passed it.*)
(*                                                                         *)
(* The file object is two layers: the latest rows are pending text, a few  *)
(* KiB of it, the others are in the 64 KiB buffer.  The text goes into the *)
(* buffer when there is enough of it and with every flush, and if there is *)
(* no room left the buffer is written out first.  When that write fails    *)
(* ("room") the text is gone: CPython forgets it before it tries.  When a  *)
(* flush fails later ("flush") the buffer keeps what was not written.  How *)
(* much of the file object's rows is text is not followed: any end of them.*)
(*                                                                         *)
(* Environment: the monotonic clock, I/O calls that fail (the kinds in     *)
(* Faults), SIGKILL, and a power cut, which keeps of every file some       *)
(* beginning of what the kernel held.                                      *)
(***************************************************************************)
EXTENDS Integers, Sequences

CONSTANTS
  Sizes,        \* encoded lengths a CSV row can have
  HeaderBytes,  \* length of the two header lines
  MaxBytes,     \* max_bytes: the size at which a file is rotated
  FlushI,       \* flush_interval_s
  FsyncI,       \* fsync_interval_s
  Faults,       \* the I/O calls that may fail, a subset of FaultKinds
  MaxRows,      \* bound: rows written in a session
  MaxTime       \* bound: ticks of the monotonic clock

FaultKinds == {"room", "flush", "fsync", "open", "header"}

ASSUME ConstantsAssumption ==
  /\ Sizes \subseteq Nat \ {0}
  /\ HeaderBytes \in Nat
  /\ MaxBytes \in Nat /\ MaxBytes > HeaderBytes
  /\ FlushI \in Nat /\ FsyncI \in Nat
  /\ Faults \subseteq FaultKinds
  /\ MaxRows \in Nat /\ MaxTime \in Nat

VARIABLES
  now,        \* time.monotonic()
  fh,         \* _fh is not None
  cur,        \* index in the name of the file _fh writes to (_cur_path)
  files,      \* len(stats.files): files opened with their header written
  bytes,      \* _bytes: the size counter that decides about rotation
  lastFlush,  \* _last_flush
  lastFsync,  \* _last_fsync
  rows,       \* the rows in the order written; Len(rows) is rows_written
  step,       \* where a rotation is: none ("ready"), "close" or "open" is next
  mode,       \* the session runs, was closed, was killed, lost power
  fault,      \* history: the kinds of I/O calls that have failed
  lastWrite   \* history: time of the latest row

vars == <<now, fh, cur, files, bytes, lastFlush, lastFsync, rows, step, mode,
          fault, lastWrite>>

Places == {"buffer", "os", "disk", "lost"}
Row == [file : Nat, size : Sizes, stamp : Nat, at : Places]

TypeOK ==
  /\ now \in Nat /\ lastFlush \in Nat /\ lastFsync \in Nat /\ lastWrite \in Nat
  /\ fh \in BOOLEAN /\ fault \subseteq Faults
  /\ cur \in Nat /\ files \in Nat /\ bytes \in Nat
  /\ rows \in Seq(Row)
  /\ step \in {"ready", "close", "open"}
  /\ mode \in {"run", "closed", "killed", "cut"}

-------------------------------------------------------------------------------
(* Rows on the move. *)

\* The rows of rs that are at place p, by number.
At(rs, p) == {n \in DOMAIN rs : rs[n].at = p}

\* The rows S of rs are put to place p.
Moved(rs, S, p) ==
  [n \in DOMAIN rs |-> IF n \in S THEN [rs[n] EXCEPT !.at = p] ELSE rs[n]]

\* A flush that works hands the whole buffer to the kernel; one that fails has
\* handed over the buffered rows up to the k-th at most.  It keeps the rest, but
\* for the text behind row `kept` when there was no room for it.
Flushed(rs) == Moved(rs, At(rs, "buffer"), "os")
PartFlushed(rs, k) == Moved(rs, At(rs, "buffer") \cap 1..k, "os")
TextLost(rs, k, kept) ==
  Moved(PartFlushed(rs, k), {n \in At(rs, "buffer") : n > kept}, "lost")

\* fsync makes durable what the kernel holds of file f, and of no other.
Fsynced(rs, f) == Moved(rs, {n \in At(rs, "os") : rs[n].file = f}, "disk")

\* The file object is thrown away with what it still buffers.
Discarded(rs) == Moved(rs, At(rs, "buffer"), "lost")

\* Opening file f with mode "w" empties it.
Truncated(rs, f) == Moved(rs, {n \in DOMAIN rs : rs[n].file = f}, "lost")

-------------------------------------------------------------------------------
(* The pieces the operations are made of: each is the set of outcomes its  *)
(* I/O calls can have, with the errors the code swallows as outcomes.      *)

\* How many rows a call gets out that stops at some point: none, or those up to
\* some buffered row.
Cuts(rs) == {0} \cup At(rs, "buffer")
CutsIf(kind, rs) == IF kind \in Faults THEN Cuts(rs) ELSE {}

\* The rows after a failed flush, with the kind of the failure.
FailedFlush(rs) ==
  {[rows |-> PartFlushed(rs, k), failed |-> {"flush"}] : k \in CutsIf("flush", rs)}
    \cup {[rows |-> TextLost(rs, c[1], c[2]), failed |-> {"room"}] :
            c \in {p \in CutsIf("room", rs) \X Cuts(rs) : p[1] <= p[2]}}

\* Mutant of FlushOutcomes: an error empties the buffer instead of keeping it.
FlushDropsOnError(rs) ==
  {[rows |-> Fsynced(Flushed(rs), cur), failed |-> {}]}
    \cup {[rows |-> Flushed(rs), failed |-> {f}] : f \in Faults \cap {"fsync"}}
    \cup {[rows |-> Discarded(PartFlushed(rs, k)), failed |-> {"flush"}] :
            k \in CutsIf("flush", rs)}

\* flush(), both calls in one try.
FlushOutcomes(rs) ==
  {[rows |-> Fsynced(Flushed(rs), cur), failed |-> {}]}
    \cup {[rows |-> Flushed(rs), failed |-> {f}] : f \in Faults \cap {"fsync"}}
    \cup FailedFlush(rs)

\* Mutants of CloseOutcomes: the fsync, or all of the flush, is left out.
CloseWithoutSync(rs) == {[rows |-> Flushed(rs), failed |-> {}]}
CloseWithoutFlush(rs) == {[rows |-> Discarded(rs), failed |-> {}]}

\* close(): as flush(), but then the file object goes, and with it what its
\* own last attempt to write leaves behind.
CloseOutcomes(rs) ==
  {[rows |-> Discarded(o.rows), failed |-> o.failed] : o \in FlushOutcomes(rs)}

\* _maybe_flush(), which only _write_row calls.
FlushDue == now - lastFlush >= FlushI
FsyncDue == now - lastFsync >= FsyncI

TimerOutcomes(rs) ==
  LET Outcome(r, failed, flushed, synced) ==
        [rows |-> r, failed |-> failed,
         lastFlush |-> flushed, lastFsync |-> synced]
      Raised == {Outcome(o.rows, o.failed, lastFlush, lastFsync) :
                   o \in FailedFlush(rs)}
      Unsynced == {Outcome(Flushed(rs), {f}, now, lastFsync) :
                     f \in Faults \cap {"fsync"}}
  IN IF ~FlushDue
     THEN {Outcome(rs, {}, lastFlush, lastFsync)}
     ELSE IF ~FsyncDue
     THEN {Outcome(Flushed(rs), {}, now, lastFsync)} \cup Raised
     ELSE {Outcome(Fsynced(Flushed(rs), cur), {}, now, now)}
            \cup Unsynced \cup Raised

\* Mutants of OpenOutcomes: the header is not counted; the new file is not
\* counted, so that the next one gets its name.
OpenForgetsHeader ==
  {[rows |-> Truncated(rows, files), fh |-> TRUE, cur |-> files,
    files |-> files + 1, bytes |-> 0, lastFlush |-> now, failed |-> {}]}
OpenReusesName ==
  {[rows |-> Truncated(rows, files), fh |-> TRUE, cur |-> files,
    files |-> files, bytes |-> HeaderBytes, lastFlush |-> now, failed |-> {}]}

\* _open_file(): the path is named after len(stats.files), opened with mode
\* "w", and counted only once its header is out.  Either call may raise: open()
\* leaves no file object; the header's flush leaves one, on a path that the
\* next _open_file will open again; _bytes and _last_flush are then as before.
OpenOutcomes ==
  {[rows |-> Truncated(rows, files), fh |-> TRUE, cur |-> files,
    files |-> files + 1, bytes |-> HeaderBytes, lastFlush |-> now,
    failed |-> {}]}
    \cup {[rows |-> rows, fh |-> FALSE, cur |-> cur, files |-> files,
           bytes |-> bytes, lastFlush |-> lastFlush, failed |-> {f}] :
             f \in Faults \cap {"open"}}
    \cup {[rows |-> Truncated(rows, files), fh |-> TRUE, cur |-> files,
           files |-> files, bytes |-> bytes, lastFlush |-> lastFlush,
           failed |-> {f}] :
             f \in Faults \cap {"header"}}

-------------------------------------------------------------------------------
(* Operations. *)

Init ==
  /\ now = 0 /\ lastFlush = 0 /\ lastFsync = 0 /\ lastWrite = 0
  /\ fh = TRUE /\ cur = 0 /\ files = 1 /\ bytes = HeaderBytes
  /\ rows = <<>>
  /\ step = "ready" /\ mode = "run"
  /\ fault = {}

\* No call is in progress.
Ready == mode = "run" /\ step = "ready"

\* _write_row(): the file object may pass on what it buffers to make room
\* (spill); the row joins it and is counted; then the timers are looked at, and
\* at the size limit the file has to be rotated.
WriteRow(size) ==
  /\ Ready /\ fh
  /\ Len(rows) < MaxRows
  /\ \E spill \in Cuts(rows) :
       LET row == [file |-> cur, size |-> size, stamp |-> now, at |-> "buffer"]
       IN \E t \in TimerOutcomes(Append(PartFlushed(rows, spill), row)) :
            /\ rows' = t.rows
            /\ lastFlush' = t.lastFlush /\ lastFsync' = t.lastFsync
            /\ fault' = fault \cup t.failed
  /\ bytes' = bytes + size
  /\ step' = IF bytes' >= MaxBytes THEN "close" ELSE "ready"
  /\ lastWrite' = now
  /\ UNCHANGED <<now, fh, cur, files, mode>>

\* _maybe_rotate(): the full file is closed ...
RotateClose ==
  /\ mode = "run" /\ step = "close"
  /\ \E c \in CloseOutcomes(rows) :
       rows' = c.rows /\ fault' = fault \cup c.failed
  /\ fh' = FALSE /\ step' = "open"
  /\ UNCHANGED <<now, cur, files, bytes, lastFlush, lastFsync, mode, lastWrite>>

\* ... and the next one opened.
RotateOpen ==
  /\ mode = "run" /\ step = "open"
  /\ \E o \in OpenOutcomes :
       /\ rows' = o.rows /\ fh' = o.fh /\ cur' = o.cur /\ files' = o.files
       /\ bytes' = o.bytes /\ lastFlush' = o.lastFlush
       /\ fault' = fault \cup o.failed
  /\ step' = "ready"
  /\ UNCHANGED <<now, lastFsync, mode, lastWrite>>

\* _write_row() when the write itself raises because making room failed: the
\* exception leaves before the row is counted, and the pending text is gone.
WriteRowRaises ==
  /\ Ready /\ fh /\ "room" \in Faults
  /\ \E spill, kept \in Cuts(rows) :
       spill <= kept /\ rows' = TextLost(rows, spill, kept)
  /\ fault' = fault \cup {"room"}
  /\ UNCHANGED <<now, fh, cur, files, bytes, lastFlush, lastFsync, step, mode,
                 lastWrite>>

\* flush(), called when the user pauses or asks to end the session.  The timers
\* start again whether it worked or not.
Flush ==
  /\ Ready /\ fh
  /\ \E o \in FlushOutcomes(rows) :
       /\ rows' = o.rows
       /\ fault' = fault \cup o.failed
  /\ lastFlush' = now /\ lastFsync' = now
  /\ UNCHANGED <<now, fh, cur, files, bytes, step, mode, lastWrite>>

\* close() at the end of the session; nothing to do without a file object.
Close ==
  /\ Ready
  /\ IF fh
     THEN \E o \in CloseOutcomes(rows) :
            /\ rows' = o.rows
            /\ fault' = fault \cup o.failed
     ELSE UNCHANGED <<rows, fault>>
  /\ fh' = FALSE
  /\ mode' = "closed"
  /\ UNCHANGED <<now, cur, files, bytes, lastFlush, lastFsync, step, lastWrite>>

\* The process is killed: what Python buffered is gone.
Kill ==
  /\ mode = "run"
  /\ rows' = Discarded(rows)
  /\ fh' = FALSE
  /\ mode' = "killed"
  /\ UNCHANGED <<now, cur, files, bytes, lastFlush, lastFsync, step, fault,
                 lastWrite>>

\* The battery is pulled: of every file some beginning of what the kernel held
\* has reached the disk by itself, the rest is gone.
PowerCut ==
  /\ mode # "cut"
  /\ \E kept \in SUBSET At(rows, "os") :
       /\ \A m \in At(rows, "os"), n \in kept :
            rows[m].file = rows[n].file /\ m < n => m \in kept
       /\ rows' = Moved(Moved(rows, kept, "disk"),
                        {n \in DOMAIN rows : rows[n].at # "disk"} \ kept, "lost")
  /\ fh' = FALSE
  /\ mode' = "cut"
  /\ UNCHANGED <<now, cur, files, bytes, lastFlush, lastFsync, step, fault,
                 lastWrite>>

Tick ==
  /\ mode = "run" /\ now < MaxTime
  /\ now' = now + 1
  /\ UNCHANGED <<fh, cur, files, bytes, lastFlush, lastFsync, rows, step, mode,
                 fault, lastWrite>>

Next ==
  \/ \E size \in Sizes : WriteRow(size)
  \/ WriteRowRaises
  \/ RotateClose
  \/ RotateOpen
  \/ Flush
  \/ Close
  \/ Kill
  \/ PowerCut
  \/ Tick

Spec == Init /\ [][Next]_vars

-------------------------------------------------------------------------------
(* Properties. *)

Rows == 1..Len(rows)
OnDisk(n) == rows[n].at = "disk"

\* While no I/O call has failed, what is durable is a beginning of what was
\* written: rotation never lets a row of a later file become durable while
\* one of an earlier file is not, and a crash leaves no hole.
DurableIsBeginning ==
  fault = {} => \A m, n \in Rows : m < n /\ OnDisk(n) => OnDisk(m)

\* The durability the periodic fsync is there for: at the latest row, no row
\* that a power cut could take (or, after one, has taken) is older than the
\* two intervals together.  The fsync timer is only looked at when a flush is
\* due and the flush timer restarts at every rotation, so neither interval
\* bounds the loss alone.
LossIsBounded ==
  fault = {} => \A n \in Rows :
              ~OnDisk(n) => lastWrite - rows[n].stamp < FlushI + FsyncI

\* A killed process (not a power cut) loses at most the rows of one flush
\* interval before the latest row, and nothing is lost before that.
KillLossIsBounded ==
  fault = {} /\ mode # "cut" =>
    \A n \in Rows : rows[n].at = "lost" =>
      mode = "killed" /\ lastWrite - rows[n].stamp < FlushI

\* An orderly end leaves every counted row on the disk, in whichever file.
CloseKeepsAll ==
  mode = "closed" /\ fault = {} => \A n \in Rows : OnDisk(n)

\* A flush that fails half way is retried from where it stopped: as long as no text
\* had to be dropped for want of room and no header has failed, what a file holds
\* is a beginning of the rows written to it, before and after a crash.
FileHasNoHoles ==
  fault \cap {"room", "header"} = {} =>
    \A m, n \in Rows :
      /\ m < n /\ rows[m].file = rows[n].file
      /\ rows[n].at \in {"os", "disk"}
      => rows[m].at \in {"os", "disk"}

\* A step takes back no durable row, but for the latest one, when it was written to
\* a file whose header had failed: the next _open_file() empties that path again.
TakesBackOnlyLatest ==
  [][\A n \in Rows :
       OnDisk(n) /\ rows'[n].at # "disk" => "header" \in fault /\ n = Len(rows)]_vars

\* "a periodic `fsync` gives the durability the old code only appeared to have"
\* (session.py:7-9): what it made durable stays durable.
DurableStaysDurable ==
  [][\A n \in Rows : OnDisk(n) => rows'[n].at = "disk"]_vars

\* "rows that actually reached the CSV" (ui/status.py:24): after an orderly end the
\* files hold every row that was counted.
CountedReachedFile ==
  mode = "closed" => \A n \in Rows : rows[n].at \in {"os", "disk"}

\* The length of file f with the rows rs: the header and the rows written to it.
LengthOf(rs, f) ==
  LET upTo[n \in 0..Len(rs)] ==
        IF n = 0 THEN HeaderBytes
        ELSE IF rs[n].file = f THEN upTo[n - 1] + rs[n].size
        ELSE upTo[n - 1]
  IN upTo[Len(rs)]

\* Row n of rs is the last row of file f.
LastOf(rs, f, n) ==
  rs[n].file = f /\ \A m \in 1..Len(rs) : rs[m].file = f => m <= n

\* Rotation: the counter is the real length of the file being written, which
\* stays below the limit between calls, and a finished file has reached the
\* limit, and not before its last row.
FileLengths ==
  fault = {} /\ mode = "run" =>
    /\ bytes = LengthOf(rows, cur) /\ (step = "ready" => bytes < MaxBytes)
    /\ \A f \in 0..files - 2 :
         /\ MaxBytes <= LengthOf(rows, f)
         /\ \E n \in Rows :
              LastOf(rows, f, n) /\ LengthOf(rows, f) - rows[n].size < MaxBytes

-------------------------------------------------------------------------------
(* The log this is an implementation of, until an I/O call fails. *)

Log == INSTANCE DurableLog WITH
         written <- Len(rows),
         safe    <- {n \in Rows : OnDisk(n)},
         ended   <- mode # "run"

\* Every step up to the first failing call is a step of the log, or none: rows are
\* only appended, the durable part only grows, as a beginning, and close() makes
\* it all of them.
LogSpec == Log!Init /\ [][fault' = {} => [Log!Next]_(Log!vars)]_vars
===============================================================================
