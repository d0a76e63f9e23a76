-------------------------- MODULE SessionWriterProofs --------------------------
(***************************************************************************)
(* Theorems about SessionWriter, for every size of rows and files, every   *)
(* pair of intervals and every number of rows: type correctness, what a    *)
(* crash can take from a session whose I/O works, and that this session    *)
(* implements DurableLog.                                                  *)
(***************************************************************************)
EXTENDS SessionWriter, WellFoundedInduction, TLAPS

-------------------------------------------------------------------------------
(* Rows on the move. *)

\* Moving rows changes their place and nothing else about them.
LEMMA MovedFacts ==
  ASSUME NEW rs \in Seq(Row), NEW S, NEW p \in Places
  PROVE  /\ Moved(rs, S, p) \in Seq(Row)
         /\ Len(Moved(rs, S, p)) = Len(rs)
         /\ DOMAIN Moved(rs, S, p) = 1..Len(rs)
         /\ \A n \in 1..Len(rs) :
              /\ Moved(rs, S, p)[n].file = rs[n].file
              /\ Moved(rs, S, p)[n].size = rs[n].size
              /\ Moved(rs, S, p)[n].stamp = rs[n].stamp
              /\ n \in S => Moved(rs, S, p)[n].at = p
              /\ n \notin S => Moved(rs, S, p)[n].at = rs[n].at
<1> DEFINE q == Moved(rs, S, p)
<1>1. q = [n \in 1..Len(rs) |-> IF n \in S THEN [rs[n] EXCEPT !.at = p] ELSE rs[n]]
  BY DEF Moved
<1>2. \A n \in 1..Len(rs) : rs[n] \in Row
  OBVIOUS
<1>3. \A n \in 1..Len(rs) : q[n] = IF n \in S THEN [rs[n] EXCEPT !.at = p] ELSE rs[n]
  BY <1>1
<1>4. \A n \in 1..Len(rs) : q[n] \in Row
  BY <1>2, <1>3 DEF Row
<1>5. q \in Seq(Row) /\ Len(q) = Len(rs) /\ DOMAIN q = 1..Len(rs)
  <2>1. Len(rs) \in Nat
    OBVIOUS
  <2>2. q \in [1..Len(rs) -> Row]
    BY <1>1, <1>4
  <2>3. q \in Seq(Row)
    BY <2>1, <2>2
  <2> QED
    BY <2>1, <2>2, <2>3
<1> QED
  BY <1>2, <1>3, <1>5 DEF Row

\* The rows qs are the rows rs, apart from their places.
SameRows(rs, qs) ==
  /\ qs \in Seq(Row)
  /\ Len(qs) = Len(rs)
  /\ \A n \in 1..Len(rs) :
       /\ qs[n].file = rs[n].file
       /\ qs[n].size = rs[n].size
       /\ qs[n].stamp = rs[n].stamp

\* Every piece of an operation keeps the rows and puts them where its name says.
LEMMA FlushedFacts ==
  ASSUME NEW rs \in Seq(Row)
  PROVE  /\ SameRows(rs, Flushed(rs))
         /\ \A n \in 1..Len(rs) :
              Flushed(rs)[n].at = IF rs[n].at = "buffer" THEN "os" ELSE rs[n].at
<1>1. "os" \in Places
  BY DEF Places
<1> QED
  BY <1>1, MovedFacts DEF Flushed, SameRows, At

LEMMA PartFlushedFacts ==
  ASSUME NEW rs \in Seq(Row), NEW k
  PROVE  /\ SameRows(rs, PartFlushed(rs, k))
         /\ \A n \in 1..Len(rs) :
              PartFlushed(rs, k)[n].at =
                IF rs[n].at = "buffer" /\ n \in 1..k THEN "os" ELSE rs[n].at
<1>1. "os" \in Places
  BY DEF Places
<1> QED
  BY <1>1, MovedFacts DEF PartFlushed, SameRows, At

LEMMA FsyncedFacts ==
  ASSUME NEW rs \in Seq(Row), NEW f
  PROVE  /\ SameRows(rs, Fsynced(rs, f))
         /\ \A n \in 1..Len(rs) :
              Fsynced(rs, f)[n].at =
                IF rs[n].at = "os" /\ rs[n].file = f THEN "disk" ELSE rs[n].at
<1>1. "disk" \in Places
  BY DEF Places
<1> QED
  BY <1>1, MovedFacts DEF Fsynced, SameRows, At

LEMMA DiscardedFacts ==
  ASSUME NEW rs \in Seq(Row)
  PROVE  /\ SameRows(rs, Discarded(rs))
         /\ \A n \in 1..Len(rs) :
              Discarded(rs)[n].at =
                IF rs[n].at = "buffer" THEN "lost" ELSE rs[n].at
<1>1. "lost" \in Places
  BY DEF Places
<1> QED
  BY <1>1, MovedFacts DEF Discarded, SameRows, At

LEMMA TruncatedFacts ==
  ASSUME NEW rs \in Seq(Row), NEW f
  PROVE  /\ SameRows(rs, Truncated(rs, f))
         /\ \A n \in 1..Len(rs) :
              Truncated(rs, f)[n].at =
                IF rs[n].file = f THEN "lost" ELSE rs[n].at
<1>1. "lost" \in Places
  BY DEF Places
<1> QED
  BY <1>1, MovedFacts DEF Truncated, SameRows

LEMMA SameRowsTransitive ==
  ASSUME NEW rs, NEW qs, NEW ps, SameRows(rs, qs), SameRows(qs, ps)
  PROVE  SameRows(rs, ps)
BY DEF SameRows

LEMMA SyncedFacts ==
  ASSUME NEW rs \in Seq(Row), NEW f
  PROVE  /\ SameRows(rs, Fsynced(Flushed(rs), f))
         /\ \A n \in 1..Len(rs) :
              Fsynced(Flushed(rs), f)[n].at =
                IF rs[n].at \in {"buffer", "os"} /\ rs[n].file = f THEN "disk"
                ELSE IF rs[n].at = "buffer" THEN "os"
                ELSE rs[n].at
<1> DEFINE qs == Flushed(rs)
<1>1. /\ SameRows(rs, qs)
      /\ \A n \in 1..Len(rs) :
           qs[n].at = IF rs[n].at = "buffer" THEN "os" ELSE rs[n].at
  BY FlushedFacts
<1>2. qs \in Seq(Row) /\ Len(qs) = Len(rs)
  BY <1>1 DEF SameRows
<1> HIDE DEF qs
<1>3. /\ SameRows(qs, Fsynced(qs, f))
      /\ \A n \in 1..Len(qs) :
           Fsynced(qs, f)[n].at =
             IF qs[n].at = "os" /\ qs[n].file = f THEN "disk" ELSE qs[n].at
  BY <1>2, FsyncedFacts
<1>4. SameRows(rs, Fsynced(qs, f))
  BY <1>1, <1>3, SameRowsTransitive
<1>5. \A n \in 1..Len(rs) :
        Fsynced(qs, f)[n].at =
          IF rs[n].at \in {"buffer", "os"} /\ rs[n].file = f THEN "disk"
          ELSE IF rs[n].at = "buffer" THEN "os"
          ELSE rs[n].at
  BY <1>1, <1>2, <1>3 DEF SameRows
<1> QED
  BY <1>4, <1>5 DEF qs

-------------------------------------------------------------------------------
(* What is durable, or lost, stays so while rows only move along. *)

KeepsSettled(rs, qs) ==
  /\ SameRows(rs, qs)
  /\ \A n \in 1..Len(rs) : rs[n].at \in {"disk", "lost"} => qs[n].at = rs[n].at

LEMMA KeepsSettledTransitive ==
  ASSUME NEW rs, NEW qs, NEW ps, KeepsSettled(rs, qs), KeepsSettled(qs, ps)
  PROVE  KeepsSettled(rs, ps)
BY SameRowsTransitive DEF KeepsSettled, SameRows

LEMMA FlushesKeepSettled ==
  ASSUME NEW rs \in Seq(Row)
  PROVE  /\ KeepsSettled(rs, rs)
         /\ KeepsSettled(rs, Flushed(rs))
         /\ \A k : KeepsSettled(rs, PartFlushed(rs, k))
         /\ \A f : KeepsSettled(rs, Fsynced(Flushed(rs), f))
         /\ KeepsSettled(rs, Discarded(rs))
<1>1. KeepsSettled(rs, rs)
  BY DEF KeepsSettled, SameRows
<1>2. KeepsSettled(rs, Flushed(rs))
  BY FlushedFacts DEF KeepsSettled, SameRows
<1>3. \A k : KeepsSettled(rs, PartFlushed(rs, k))
  BY PartFlushedFacts DEF KeepsSettled, SameRows
<1>4. \A f : KeepsSettled(rs, Fsynced(Flushed(rs), f))
  BY SyncedFacts DEF KeepsSettled, SameRows
<1>5. KeepsSettled(rs, Discarded(rs))
  BY DiscardedFacts DEF KeepsSettled, SameRows
<1> QED
  BY <1>1, <1>2, <1>3, <1>4, <1>5

\* Text that is lost for want of room was in the buffer.
LEMMA TextLostKeepsSettled ==
  ASSUME NEW rs \in Seq(Row), NEW k, NEW kept
  PROVE  KeepsSettled(rs, TextLost(rs, k, kept))
<1> DEFINE ps == PartFlushed(rs, k)
           G == {n \in At(rs, "buffer") : n > kept}
<1>1. KeepsSettled(rs, ps)
  BY FlushesKeepSettled
<1>2. \A n \in G : n \in 1..Len(rs) /\ rs[n].at = "buffer"
  BY DEF At
<1>3. TextLost(rs, k, kept) = Moved(ps, G, "lost")
  BY DEF TextLost
<1>4. ps \in Seq(Row) /\ "lost" \in Places
  BY <1>1 DEF KeepsSettled, SameRows, Places
<1> HIDE DEF ps, G
<1> DEFINE qs == Moved(ps, G, "lost")
<1>5. SameRows(ps, qs) /\ \A n \in 1..Len(ps) : n \notin G => qs[n].at = ps[n].at
  BY <1>4, MovedFacts DEF SameRows
<1> HIDE DEF qs
<1>6. KeepsSettled(rs, qs)
  BY <1>1, <1>2, <1>5, SameRowsTransitive DEF KeepsSettled, SameRows
<1> QED
  BY <1>3, <1>6 DEF qs

-------------------------------------------------------------------------------
(* The outcomes of the pieces are well formed, whatever fails. *)

LEMMA FailedFlushFacts ==
  ASSUME NEW rs \in Seq(Row), NEW o \in FailedFlush(rs)
  PROVE  /\ KeepsSettled(rs, o.rows) /\ o.failed \subseteq Faults /\ o.failed # {}
         /\ "room" \notin o.failed => \E k \in Cuts(rs) : o.rows = PartFlushed(rs, k)
<1>1. CASE \E k \in CutsIf("flush", rs) :
             o = [rows |-> PartFlushed(rs, k), failed |-> {"flush"}]
  <2>1. PICK k \in CutsIf("flush", rs) :
          o = [rows |-> PartFlushed(rs, k), failed |-> {"flush"}]
    BY <1>1
  <2>2. k \in Cuts(rs) /\ "flush" \in Faults
    BY DEF CutsIf
  <2>3. o.rows = PartFlushed(rs, k) /\ o.failed = {"flush"}
    BY <2>1
  <2> QED
    BY <2>2, <2>3, FlushesKeepSettled
<1>2. CASE \E c \in {p \in CutsIf("room", rs) \X Cuts(rs) : p[1] <= p[2]} :
             o = [rows |-> TextLost(rs, c[1], c[2]), failed |-> {"room"}]
  <2>1. PICK c \in {p \in CutsIf("room", rs) \X Cuts(rs) : p[1] <= p[2]} :
          o = [rows |-> TextLost(rs, c[1], c[2]), failed |-> {"room"}]
    BY <1>2
  <2>2. c[1] \in CutsIf("room", rs)
    OBVIOUS
  <2>3. "room" \in Faults
    BY <2>2 DEF CutsIf
  <2>4. o.rows = TextLost(rs, c[1], c[2]) /\ o.failed = {"room"}
    BY <2>1
  <2> QED
    BY <2>3, <2>4, TextLostKeepsSettled
<1> QED
  BY <1>1, <1>2, Zenon DEF FailedFlush

\* What flush() can lead to, outcome by outcome.
LEMMA FlushOutcomesAre ==
  ASSUME NEW rs, NEW o \in FlushOutcomes(rs)
  PROVE  \/ o.rows = Fsynced(Flushed(rs), cur) /\ o.failed = {}
         \/ o.rows = Flushed(rs) /\ o.failed = {"fsync"} /\ "fsync" \in Faults
         \/ o \in FailedFlush(rs)
<1>1. ASSUME o = [rows |-> Fsynced(Flushed(rs), cur), failed |-> {}]
      PROVE  o.rows = Fsynced(Flushed(rs), cur) /\ o.failed = {}
  BY <1>1
<1>2. ASSUME NEW f \in Faults \cap {"fsync"},
             o = [rows |-> Flushed(rs), failed |-> {f}]
      PROVE  o.rows = Flushed(rs) /\ o.failed = {"fsync"} /\ "fsync" \in Faults
  BY <1>2
<1>3. \/ o = [rows |-> Fsynced(Flushed(rs), cur), failed |-> {}]
      \/ \E f \in Faults \cap {"fsync"} : o = [rows |-> Flushed(rs), failed |-> {f}]
      \/ o \in FailedFlush(rs)
  BY Zenon DEF FlushOutcomes
<1> QED
  BY <1>1, <1>2, <1>3, Zenon

LEMMA FlushOutcomesFacts ==
  ASSUME NEW rs \in Seq(Row), NEW o \in FlushOutcomes(rs)
  PROVE  KeepsSettled(rs, o.rows) /\ SameRows(rs, o.rows) /\ o.failed \subseteq Faults
<1>1. KeepsSettled(rs, o.rows) /\ o.failed \subseteq Faults
  BY FlushOutcomesAre, FlushesKeepSettled, FailedFlushFacts
<1> QED
  BY <1>1 DEF KeepsSettled

LEMMA CloseOutcomesFacts ==
  ASSUME NEW rs \in Seq(Row), NEW c \in CloseOutcomes(rs)
  PROVE  KeepsSettled(rs, c.rows) /\ SameRows(rs, c.rows) /\ c.failed \subseteq Faults
<1>1. PICK o \in FlushOutcomes(rs) :
        c = [rows |-> Discarded(o.rows), failed |-> o.failed]
  BY DEF CloseOutcomes
<1>2. KeepsSettled(rs, o.rows) /\ o.failed \subseteq Faults
  BY FlushOutcomesFacts
<1>3. KeepsSettled(o.rows, Discarded(o.rows))
  BY <1>2, FlushesKeepSettled DEF KeepsSettled, SameRows
<1>4. KeepsSettled(rs, c.rows)
  BY <1>1, <1>2, <1>3, KeepsSettledTransitive
<1> QED
  BY <1>1, <1>2, <1>4 DEF KeepsSettled

\* What the timers can lead to, outcome by outcome.
LEMMA TimerOutcomesAre ==
  ASSUME NEW rs, NEW t \in TimerOutcomes(rs)
  PROVE  \/ /\ ~FlushDue /\ t.failed = {}
            /\ t.rows = rs /\ t.lastFlush = lastFlush /\ t.lastFsync = lastFsync
         \/ /\ FlushDue /\ ~FsyncDue /\ t.failed = {}
            /\ t.rows = Flushed(rs) /\ t.lastFlush = now
            /\ t.lastFsync = lastFsync
         \/ /\ FlushDue /\ FsyncDue /\ t.failed = {}
            /\ t.rows = Fsynced(Flushed(rs), cur)
            /\ t.lastFlush = now /\ t.lastFsync = now
         \/ /\ t.failed = {"fsync"} /\ "fsync" \in Faults
            /\ t.rows = Flushed(rs) /\ t.lastFlush = now
            /\ t.lastFsync = lastFsync
         \/ \E o \in FailedFlush(rs) :
              /\ t.failed = o.failed /\ t.rows = o.rows
              /\ t.lastFlush = lastFlush /\ t.lastFsync = lastFsync
<1> DEFINE Out(r, x, a, b) ==
             [rows |-> r, failed |-> x, lastFlush |-> a, lastFsync |-> b]
<1>1. \/ ~FlushDue /\ t = Out(rs, {}, lastFlush, lastFsync)
      \/ FlushDue /\ ~FsyncDue /\ t = Out(Flushed(rs), {}, now, lastFsync)
      \/ FlushDue /\ FsyncDue /\ t = Out(Fsynced(Flushed(rs), cur), {}, now, now)
      \/ \E f \in Faults \cap {"fsync"} : t = Out(Flushed(rs), {f}, now, lastFsync)
      \/ \E o \in FailedFlush(rs) : t = Out(o.rows, o.failed, lastFlush, lastFsync)
  BY Zenon DEF TimerOutcomes
<1>2. \A r, x, a, b : t = Out(r, x, a, b) =>
        t.rows = r /\ t.failed = x /\ t.lastFlush = a /\ t.lastFsync = b
  OBVIOUS
<1>3. \A f \in Faults \cap {"fsync"} : f = "fsync" /\ "fsync" \in Faults
  OBVIOUS
<1> HIDE DEF Out
<1>4. CASE \/ ~FlushDue /\ t = Out(rs, {}, lastFlush, lastFsync)
           \/ FlushDue /\ ~FsyncDue /\ t = Out(Flushed(rs), {}, now, lastFsync)
           \/ /\ FlushDue /\ FsyncDue
              /\ t = Out(Fsynced(Flushed(rs), cur), {}, now, now)
  BY <1>2, <1>4
<1>5. ASSUME NEW f \in Faults \cap {"fsync"},
             t = Out(Flushed(rs), {f}, now, lastFsync)
      PROVE  /\ t.failed = {"fsync"} /\ "fsync" \in Faults
             /\ t.rows = Flushed(rs) /\ t.lastFlush = now
             /\ t.lastFsync = lastFsync
  BY <1>2, <1>3, <1>5
<1>6. ASSUME NEW o \in FailedFlush(rs),
             t = Out(o.rows, o.failed, lastFlush, lastFsync)
      PROVE  \E p \in FailedFlush(rs) :
               /\ t.failed = p.failed /\ t.rows = p.rows
               /\ t.lastFlush = lastFlush /\ t.lastFsync = lastFsync
  BY <1>2, <1>6
<1> QED
  BY <1>1, <1>4, <1>5, <1>6

LEMMA TimerOutcomesFacts ==
  ASSUME TypeOK, NEW rs \in Seq(Row), NEW t \in TimerOutcomes(rs)
  PROVE  /\ KeepsSettled(rs, t.rows) /\ SameRows(rs, t.rows)
         /\ t.failed \subseteq Faults
         /\ t.lastFlush \in Nat /\ t.lastFsync \in Nat
<1>1. /\ now \in Nat /\ lastFlush \in Nat /\ lastFsync \in Nat
  BY DEF TypeOK
<1>2. \A o \in FailedFlush(rs) : KeepsSettled(rs, o.rows) /\ o.failed \subseteq Faults
  BY FailedFlushFacts
<1>3. /\ KeepsSettled(rs, t.rows) /\ t.failed \subseteq Faults
      /\ t.lastFlush \in Nat /\ t.lastFsync \in Nat
  BY <1>1, <1>2, TimerOutcomesAre, FlushesKeepSettled
<1> QED
  BY <1>3 DEF KeepsSettled

\* What opening the next file can lead to, outcome by outcome.
LEMMA OpenOutcomesAre ==
  ASSUME NEW o \in OpenOutcomes
  PROVE  \/ /\ o.rows = Truncated(rows, files) /\ o.fh = TRUE /\ o.cur = files
            /\ o.files = files + 1 /\ o.bytes = HeaderBytes /\ o.lastFlush = now
            /\ o.failed = {}
         \/ /\ o.rows = rows /\ o.fh = FALSE /\ o.cur = cur /\ o.files = files
            /\ o.bytes = bytes /\ o.lastFlush = lastFlush
            /\ o.failed = {"open"} /\ "open" \in Faults
         \/ /\ o.rows = Truncated(rows, files) /\ o.fh = TRUE /\ o.cur = files
            /\ o.files = files /\ o.bytes = bytes /\ o.lastFlush = lastFlush
            /\ o.failed = {"header"} /\ "header" \in Faults
<1> DEFINE Out(r, h, c, k, b, l, x) ==
             [rows |-> r, fh |-> h, cur |-> c, files |-> k, bytes |-> b,
              lastFlush |-> l, failed |-> x]
<1>1. \/ o = Out(Truncated(rows, files), TRUE, files, files + 1, HeaderBytes, now, {})
      \/ \E f \in Faults \cap {"open"} :
           o = Out(rows, FALSE, cur, files, bytes, lastFlush, {f})
      \/ \E f \in Faults \cap {"header"} :
           o = Out(Truncated(rows, files), TRUE, files, files, bytes, lastFlush, {f})
  BY Zenon DEF OpenOutcomes
<1>2. \A r, h, c, k, b, l, x : o = Out(r, h, c, k, b, l, x) =>
        /\ o.rows = r /\ o.fh = h /\ o.cur = c /\ o.files = k /\ o.bytes = b
        /\ o.lastFlush = l /\ o.failed = x
  OBVIOUS
<1> HIDE DEF Out
<1>3. ASSUME NEW f \in Faults \cap {"open"},
             o = Out(rows, FALSE, cur, files, bytes, lastFlush, {f})
      PROVE  /\ o.rows = rows /\ o.fh = FALSE /\ o.cur = cur /\ o.files = files
             /\ o.bytes = bytes /\ o.lastFlush = lastFlush
             /\ o.failed = {"open"} /\ "open" \in Faults
  <2>1. f = "open" /\ "open" \in Faults
    OBVIOUS
  <2> QED
    BY <1>2, <1>3, <2>1
<1>4. ASSUME NEW f \in Faults \cap {"header"},
             o = Out(Truncated(rows, files), TRUE, files, files, bytes, lastFlush, {f})
      PROVE  /\ o.rows = Truncated(rows, files) /\ o.fh = TRUE /\ o.cur = files
             /\ o.files = files /\ o.bytes = bytes /\ o.lastFlush = lastFlush
             /\ o.failed = {"header"} /\ "header" \in Faults
  <2>1. f = "header" /\ "header" \in Faults
    OBVIOUS
  <2> QED
    BY <1>2, <1>4, <2>1
<1>5. ASSUME o = Out(Truncated(rows, files), TRUE, files, files + 1, HeaderBytes,
                     now, {})
      PROVE  /\ o.rows = Truncated(rows, files) /\ o.fh = TRUE /\ o.cur = files
             /\ o.files = files + 1 /\ o.bytes = HeaderBytes /\ o.lastFlush = now
             /\ o.failed = {}
  BY <1>2, <1>5
<1> QED
  BY <1>1, <1>3, <1>4, <1>5, Zenon


-------------------------------------------------------------------------------
(* Types. *)

LEMMA SizesAreNat == \A size \in Sizes : size \in Nat
BY ConstantsAssumption DEF ConstantsAssumption

LEMMA InitTypeOK == Init => TypeOK
<1>1. <<>> \in Seq(Row)
  OBVIOUS
<1> QED
  BY <1>1, ConstantsAssumption DEF Init, TypeOK, ConstantsAssumption

\* The row joins the buffer behind whatever beginning of it was passed on.
Buffering(size, spill) ==
  Append(PartFlushed(rows, spill),
         [file |-> cur, size |-> size, stamp |-> now, at |-> "buffer"])

LEMMA BufferingFacts ==
  ASSUME TypeOK, NEW size \in Sizes, NEW spill
  PROVE  /\ Buffering(size, spill) \in Seq(Row)
         /\ Len(Buffering(size, spill)) = Len(rows) + 1
         /\ \A n \in 1..Len(rows) :
              Buffering(size, spill)[n] = PartFlushed(rows, spill)[n]
         /\ Buffering(size, spill)[Len(rows) + 1] =
              [file |-> cur, size |-> size, stamp |-> now, at |-> "buffer"]
<1> DEFINE ps == PartFlushed(rows, spill)
           row == [file |-> cur, size |-> size, stamp |-> now, at |-> "buffer"]
<1>1. ps \in Seq(Row) /\ Len(ps) = Len(rows)
  BY PartFlushedFacts DEF SameRows, TypeOK
<1>2. row \in Row
  BY DEF Row, Places, TypeOK
<1> HIDE DEF ps, row
<1>3. /\ Append(ps, row) \in Seq(Row)
      /\ Len(Append(ps, row)) = Len(rows) + 1
      /\ \A n \in 1..Len(rows) : Append(ps, row)[n] = ps[n]
      /\ Append(ps, row)[Len(rows) + 1] = row
  BY <1>1, <1>2
<1> QED
  BY <1>3 DEF Buffering, ps, row

\* The outcome of the timers a row comes out with.
LEMMA WriteRowDoes ==
  ASSUME NEW size \in Sizes, WriteRow(size)
  PROVE  \E spill \in Cuts(rows) : \E t \in TimerOutcomes(Buffering(size, spill)) :
           /\ rows' = t.rows
           /\ lastFlush' = t.lastFlush /\ lastFsync' = t.lastFsync
           /\ fault' = fault \cup t.failed
BY DEF WriteRow, Buffering

LEMMA WriteRowTypeOK ==
  ASSUME TypeOK, NEW size \in Sizes, WriteRow(size)
  PROVE  TypeOK'
<1>0. PICK spill \in Cuts(rows) : \E t \in TimerOutcomes(Buffering(size, spill)) :
        /\ rows' = t.rows
        /\ lastFlush' = t.lastFlush /\ lastFsync' = t.lastFsync
        /\ fault' = fault \cup t.failed
  BY WriteRowDoes
<1>1. PICK t \in TimerOutcomes(Buffering(size, spill)) :
        /\ rows' = t.rows
        /\ lastFlush' = t.lastFlush /\ lastFsync' = t.lastFsync
        /\ fault' = fault \cup t.failed
  BY <1>0
<1>2. Buffering(size, spill) \in Seq(Row)
  BY BufferingFacts
<1>3. /\ t.rows \in Seq(Row) /\ t.failed \subseteq Faults
      /\ t.lastFlush \in Nat /\ t.lastFsync \in Nat
  BY <1>2, TimerOutcomesFacts DEF SameRows
<1>4. /\ lastWrite' = now /\ UNCHANGED <<now, fh, cur, files, mode>>
      /\ bytes' = bytes + size /\ step' \in {"ready", "close", "open"}
  BY DEF WriteRow
<1>5. bytes' \in Nat
  BY <1>4, SizesAreNat DEF TypeOK
<1> QED
  BY <1>1, <1>3, <1>4, <1>5 DEF TypeOK

LEMMA RotateOpenTypeOK ==
  ASSUME TypeOK, RotateOpen
  PROVE  TypeOK'
<1>1. PICK o \in OpenOutcomes :
        /\ rows' = o.rows /\ fh' = o.fh /\ cur' = o.cur /\ files' = o.files
        /\ bytes' = o.bytes /\ lastFlush' = o.lastFlush
        /\ fault' = fault \cup o.failed
  BY DEF RotateOpen
<1>2. Truncated(rows, files) \in Seq(Row)
  BY TruncatedFacts DEF SameRows, TypeOK
<1>4. /\ rows \in Seq(Row) /\ cur \in Nat /\ files \in Nat /\ files + 1 \in Nat
      /\ bytes \in Nat /\ HeaderBytes \in Nat /\ lastFlush \in Nat /\ now \in Nat
  BY ConstantsAssumption DEF TypeOK, ConstantsAssumption
<1>5. /\ o.rows \in Seq(Row) /\ o.fh \in BOOLEAN /\ o.cur \in Nat /\ o.files \in Nat
      /\ o.bytes \in Nat /\ o.lastFlush \in Nat
  BY <1>2, <1>4, OpenOutcomesAre
<1>6. o.failed \subseteq Faults
  BY OpenOutcomesAre
<1>3. /\ rows' \in Seq(Row) /\ fh' \in BOOLEAN /\ cur' \in Nat /\ files' \in Nat
      /\ bytes' \in Nat /\ lastFlush' \in Nat /\ fault' \subseteq Faults
  BY <1>1, <1>5, <1>6 DEF TypeOK
<1> QED
  BY <1>3 DEF RotateOpen, TypeOK

LEMMA NextTypeOK ==
  ASSUME TypeOK, [Next]_vars
  PROVE  TypeOK'
<1>1. ASSUME NEW size \in Sizes, WriteRow(size)
      PROVE  TypeOK'
  BY <1>1, WriteRowTypeOK
<1>2. CASE WriteRowRaises
  <2>1. PICK spill \in Cuts(rows), kept \in Cuts(rows) :
          rows' = TextLost(rows, spill, kept)
    BY <1>2 DEF WriteRowRaises
  <2>2. rows' \in Seq(Row)
    BY <2>1, TextLostKeepsSettled DEF KeepsSettled, SameRows, TypeOK
  <2> QED
    BY <1>2, <2>2 DEF WriteRowRaises, TypeOK
<1>9. CASE RotateClose
  <2>1. PICK c \in CloseOutcomes(rows) :
          rows' = c.rows /\ fault' = fault \cup c.failed
    BY <1>9 DEF RotateClose
  <2>2. c.rows \in Seq(Row) /\ c.failed \subseteq Faults
    BY CloseOutcomesFacts DEF SameRows, TypeOK
  <2> QED
    BY <1>9, <2>1, <2>2 DEF RotateClose, TypeOK
<1>10. CASE RotateOpen
  BY <1>10, RotateOpenTypeOK
<1>3. CASE Flush
  <2>1. PICK o \in FlushOutcomes(rows) :
          rows' = o.rows /\ fault' = fault \cup o.failed
    BY <1>3 DEF Flush
  <2>2. o.rows \in Seq(Row) /\ o.failed \subseteq Faults
    BY FlushOutcomesFacts DEF SameRows, TypeOK
  <2> QED
    BY <1>3, <2>1, <2>2 DEF Flush, TypeOK
<1>4. CASE Close
  <2>1. rows' \in Seq(Row) /\ fault' \subseteq Faults
    <3>1. CASE fh
      <4>1. PICK o \in CloseOutcomes(rows) :
              rows' = o.rows /\ fault' = fault \cup o.failed
        BY <1>4, <3>1 DEF Close
      <4>2. o.rows \in Seq(Row) /\ o.failed \subseteq Faults
        BY CloseOutcomesFacts DEF SameRows, TypeOK
      <4> QED
        BY <4>1, <4>2 DEF TypeOK
    <3>2. CASE ~fh
      BY <1>4, <3>2 DEF Close, TypeOK
    <3> QED
      BY <3>1, <3>2
  <2> QED
    BY <1>4, <2>1 DEF Close, TypeOK
<1>5. CASE Kill
  <2>1. Discarded(rows) \in Seq(Row)
    BY DiscardedFacts DEF SameRows, TypeOK
  <2> QED
    BY <1>5, <2>1 DEF Kill, TypeOK
<1>6. CASE PowerCut
  <2>1. PICK kept :
          rows' = Moved(Moved(rows, kept, "disk"),
                        {n \in DOMAIN rows : rows[n].at # "disk"} \ kept, "lost")
    BY <1>6 DEF PowerCut
  <2>2. Moved(rows, kept, "disk") \in Seq(Row) /\ "lost" \in Places
    BY MovedFacts DEF TypeOK, Places
  <2>3. rows' \in Seq(Row)
    BY <2>1, <2>2, MovedFacts
  <2> QED
    BY <1>6, <2>3 DEF PowerCut, TypeOK
<1>7. CASE Tick
  BY <1>7 DEF Tick, TypeOK
<1>8. CASE UNCHANGED vars
  BY <1>8 DEF vars, TypeOK
<1> QED
  BY <1>1, <1>2, <1>3, <1>4, <1>5, <1>6, <1>7, <1>8, <1>9, <1>10 DEF Next

\* The writer's variables keep their types, whatever fails (all of session.py's
\* Session).
THEOREM WriterTypeOK == Spec => []TypeOK
BY InitTypeOK, NextTypeOK, PTL DEF Spec

-------------------------------------------------------------------------------
(***************************************************************************)
(* What a crash can take.  None of DurableIsBeginning, LossIsBounded,      *)
(* KillLossIsBounded and CloseKeepsAll is inductive: each needs to know    *)
(* where the rows can be while the session runs, how their ages relate to  *)
(* the two timers, and that only the file being written has rows that are  *)
(* not durable.  CrashInv says that.                                       *)
(***************************************************************************)

\* Rows go out in the order written.
Ordered(rs) ==
  \A m, n \in 1..Len(rs) : m < n =>
    /\ rs[n].at \in {"os", "disk"} => rs[m].at \in {"os", "disk"}
    /\ rs[n].at = "disk" => rs[m].at = "disk"

\* A running session that writes to file f, whose timers stand at flushed and
\* synced: what is buffered was written since the flush; what is not durable
\* is in file f, was written since the fsync, and, if it is older than the
\* flush timer, was no older than FsyncI when that was set.
Live(rs, f, flushed, synced) ==
  \A n \in 1..Len(rs) :
    /\ rs[n].file <= f
    /\ rs[n].at \in {"buffer", "os", "disk"}
    /\ rs[n].at = "buffer" => flushed <= rs[n].stamp
    /\ rs[n].at # "disk" =>
         /\ rs[n].file = f
         /\ synced <= rs[n].stamp
         /\ flushed <= rs[n].stamp \/ flushed - rs[n].stamp < FsyncI

\* The age at the latest row of what is not durable, or not with the kernel.
Lag(rs, at) ==
  \A n \in 1..Len(rs) :
    /\ rs[n].stamp <= at
    /\ rs[n].at # "disk" => at - rs[n].stamp < FlushI + FsyncI
BufferLag(rs, at) ==
  \A n \in 1..Len(rs) :
    rs[n].at \in {"buffer", "lost"} => at - rs[n].stamp < FlushI

CrashInv ==
  fault = {} =>
    /\ lastWrite <= now /\ lastFlush <= now /\ lastFsync <= now
    /\ Ordered(rows) /\ Lag(rows, lastWrite)
    /\ mode # "cut" => BufferLag(rows, lastWrite)
    /\ mode = "run" =>
         /\ fh <=> step # "open"
         /\ cur = files - 1
         /\ Live(rows, cur, lastFlush, lastFsync)
         /\ step = "open" => \A n \in Rows : OnDisk(n)
    /\ mode = "closed" => \A n \in Rows : OnDisk(n)
    /\ mode = "killed" => \A n \in Rows :
         /\ rows[n].at # "buffer"
         /\ rows[n].at = "os" => rows[n].file = cur
    /\ mode = "cut" => \A n \in Rows : rows[n].at \in {"disk", "lost"}

\* CrashInv is what the four properties need.
LEMMA CrashInvImplies ==
  ASSUME TypeOK, CrashInv
  PROVE  DurableIsBeginning /\ LossIsBounded /\ KillLossIsBounded /\ CloseKeepsAll
<1>1. DurableIsBeginning
  BY DEF CrashInv, DurableIsBeginning, Ordered, Rows, OnDisk
<1>2. LossIsBounded
  BY DEF CrashInv, LossIsBounded, Lag, Rows, OnDisk
<1>3. KillLossIsBounded
  BY DEF CrashInv, KillLossIsBounded, BufferLag, Live, Rows, OnDisk, TypeOK
<1>4. CloseKeepsAll
  BY DEF CrashInv, CloseKeepsAll
<1> QED
  BY <1>1, <1>2, <1>3, <1>4

LEMMA InitCrashInv == Init => CrashInv
BY ConstantsAssumption
   DEF Init, CrashInv, Ordered, Lag, BufferLag, Live, Rows, ConstantsAssumption

\* What a row finds when it joins the buffer of a running session: the session
\* as it was, with some beginning of the buffer passed on.
LEMMA BufferingLive ==
  ASSUME TypeOK, CrashInv, fault = {}, mode = "run",
         NEW size \in Sizes, NEW spill \in Cuts(rows)
  PROVE  LET qs == Buffering(size, spill) IN
           /\ qs \in Seq(Row)
           /\ Ordered(qs) /\ Live(qs, cur, lastFlush, lastFsync)
           /\ \A n \in 1..Len(qs) : qs[n].stamp <= now
<1> DEFINE qs == Buffering(size, spill)
           ps == PartFlushed(rows, spill)
           row == [file |-> cur, size |-> size, stamp |-> now, at |-> "buffer"]
<1>1. /\ qs \in Seq(Row) /\ Len(qs) = Len(rows) + 1
      /\ \A n \in 1..Len(rows) : qs[n] = ps[n]
      /\ qs[Len(rows) + 1] = row
  BY BufferingFacts
<1>2. \A n \in 1..Len(rows) :
        /\ ps[n].file = rows[n].file /\ ps[n].stamp = rows[n].stamp
        /\ ps[n].at = IF rows[n].at = "buffer" /\ n \in 1..spill
                      THEN "os" ELSE rows[n].at
  BY PartFlushedFacts DEF SameRows, TypeOK
<1>3. /\ row.file = cur /\ row.stamp = now /\ row.at = "buffer"
      /\ Len(rows) \in Nat /\ spill \in Nat
  BY DEF TypeOK, Cuts, At
<1>4. /\ \A n \in 1..Len(rows) : rows[n].stamp \in Nat
      /\ now \in Nat /\ lastWrite \in Nat
  <2>1. \A n \in 1..Len(rows) : rows[n] \in Row
    BY DEF TypeOK
  <2> QED
    BY <2>1 DEF Row, TypeOK
<1>5. Ordered(rows) /\ Live(rows, cur, lastFlush, lastFsync)
      /\ Lag(rows, lastWrite) /\ lastWrite <= now /\ lastFlush <= now
      /\ lastFsync <= now
  BY DEF CrashInv
<1> HIDE DEF qs, ps, row
<1>6. \A n \in 1..Len(qs) :
        \/ n \in 1..Len(rows) /\ qs[n] = ps[n]
        \/ n = Len(rows) + 1 /\ qs[n] = row
  BY <1>1, <1>3
<1>7. Ordered(qs)
  <2> SUFFICES ASSUME NEW m \in 1..Len(qs), NEW n \in 1..Len(qs), m < n
               PROVE  /\ qs[n].at \in {"os", "disk"} => qs[m].at \in {"os", "disk"}
                      /\ qs[n].at = "disk" => qs[m].at = "disk"
    BY DEF Ordered
  <2>1. m \in 1..Len(rows) /\ qs[m] = ps[m]
    BY <1>1, <1>3
  <2>2. CASE n = Len(rows) + 1
    BY <2>2, <1>1, <1>3
  <2>3. CASE n \in 1..Len(rows) /\ qs[n] = ps[n]
    BY <2>1, <2>3, <1>2, <1>3, <1>5 DEF Ordered, Live
  <2> QED
    BY <1>6, <2>2, <2>3
<1>8. Live(qs, cur, lastFlush, lastFsync)
  <2> SUFFICES ASSUME NEW n \in 1..Len(qs)
               PROVE  /\ qs[n].file <= cur
                      /\ qs[n].at \in {"buffer", "os", "disk"}
                      /\ qs[n].at = "buffer" => lastFlush <= qs[n].stamp
                      /\ qs[n].at # "disk" =>
                           /\ qs[n].file = cur
                           /\ lastFsync <= qs[n].stamp
                           /\ \/ lastFlush <= qs[n].stamp
                              \/ lastFlush - qs[n].stamp < FsyncI
    BY DEF Live
  <2>1. CASE n = Len(rows) + 1 /\ qs[n] = row
    BY <2>1, <1>3, <1>5 DEF TypeOK
  <2>2. CASE n \in 1..Len(rows) /\ qs[n] = ps[n]
    BY <2>2, <1>2, <1>5 DEF Live
  <2> QED
    BY <1>6, <2>1, <2>2
<1>9. \A n \in 1..Len(qs) : qs[n].stamp <= now
  BY <1>2, <1>3, <1>4, <1>5, <1>6 DEF Lag
<1> QED
  BY <1>1, <1>7, <1>8, <1>9 DEF qs


\* The outcome of a flush in which nothing fails.
LEMMA FlushSucceeds ==
  ASSUME NEW rs \in Seq(Row), NEW o \in FlushOutcomes(rs), o.failed = {}
  PROVE  o.rows = Fsynced(Flushed(rs), cur)
BY FlushOutcomesAre, FailedFlushFacts

\* The outcomes of the timers in which nothing fails.
LEMMA TimerSucceeds ==
  ASSUME NEW rs \in Seq(Row), NEW t \in TimerOutcomes(rs), t.failed = {}
  PROVE  \/ /\ ~FlushDue
            /\ t.rows = rs /\ t.lastFlush = lastFlush /\ t.lastFsync = lastFsync
         \/ /\ FlushDue /\ ~FsyncDue
            /\ t.rows = Flushed(rs) /\ t.lastFlush = now
            /\ t.lastFsync = lastFsync
         \/ /\ FlushDue /\ FsyncDue
            /\ t.rows = Fsynced(Flushed(rs), cur)
            /\ t.lastFlush = now /\ t.lastFsync = now
<1>1. ~ \E o \in FailedFlush(rs) : t.failed = o.failed
  BY FailedFlushFacts
<1>2. t.failed # {"fsync"}
  OBVIOUS
<1> QED
  BY <1>1, <1>2, TimerOutcomesAre

\* The timers keep a session live, and leave nothing too old behind.
LEMMA TimerLive ==
  ASSUME TypeOK, fault = {}, lastFlush <= now, lastFsync <= now,
         NEW qs \in Seq(Row), Ordered(qs), Live(qs, cur, lastFlush, lastFsync),
         \A n \in 1..Len(qs) : qs[n].stamp <= now,
         NEW t \in TimerOutcomes(qs), t.failed = {}
  PROVE  /\ t.rows \in Seq(Row)
         /\ t.lastFlush \in Nat /\ t.lastFsync \in Nat
         /\ t.lastFlush <= now /\ t.lastFsync <= now
         /\ Ordered(t.rows) /\ Live(t.rows, cur, t.lastFlush, t.lastFsync)
         /\ Lag(t.rows, now) /\ BufferLag(t.rows, now)
<1> USE ConstantsAssumption DEF ConstantsAssumption
<1>1. t.rows \in Seq(Row) /\ t.lastFlush \in Nat /\ t.lastFsync \in Nat
  BY TimerOutcomesFacts DEF SameRows
<1>2. \/ /\ ~FlushDue
         /\ t.rows = qs /\ t.lastFlush = lastFlush /\ t.lastFsync = lastFsync
      \/ /\ FlushDue /\ ~FsyncDue
         /\ t.rows = Flushed(qs) /\ t.lastFlush = now /\ t.lastFsync = lastFsync
      \/ /\ FlushDue /\ FsyncDue
         /\ t.rows = Fsynced(Flushed(qs), cur)
         /\ t.lastFlush = now /\ t.lastFsync = now
  BY TimerSucceeds
<1>3. /\ \A n \in 1..Len(qs) : qs[n].stamp \in Nat
      /\ now \in Nat /\ lastFlush \in Nat /\ lastFsync \in Nat
  <2>1. \A n \in 1..Len(qs) : qs[n] \in Row
    OBVIOUS
  <2> QED
    BY <2>1 DEF Row, TypeOK
<1>4. CASE ~FlushDue /\ t.rows = qs /\ t.lastFlush = lastFlush
           /\ t.lastFsync = lastFsync
  <2>1. Ordered(t.rows) /\ Live(t.rows, cur, t.lastFlush, t.lastFsync)
    BY <1>4
  <2>2. Lag(t.rows, now)
    BY SMTT(30), <1>1, <1>3, <1>4 DEF FlushDue, Live, Lag
  <2>3. BufferLag(t.rows, now)
    BY <1>1, <1>3, <1>4 DEF FlushDue, Live, BufferLag
  <2> QED
    BY <1>1, <1>4, <2>1, <2>2, <2>3
<1>5. CASE FlushDue /\ ~FsyncDue /\ t.rows = Flushed(qs) /\ t.lastFlush = now
           /\ t.lastFsync = lastFsync
  <2>1. /\ Len(t.rows) = Len(qs)
        /\ \A n \in 1..Len(qs) :
             /\ t.rows[n].file = qs[n].file /\ t.rows[n].stamp = qs[n].stamp
             /\ t.rows[n].at = IF qs[n].at = "buffer" THEN "os" ELSE qs[n].at
    BY <1>5, FlushedFacts DEF SameRows
  <2>2. Ordered(t.rows)
    BY <2>1 DEF Ordered, Live
  <2>3. Live(t.rows, cur, t.lastFlush, t.lastFsync)
    BY <2>1, <1>3, <1>5 DEF Live, FsyncDue
  <2>4. Lag(t.rows, now)
    BY <2>1, <1>3, <1>5 DEF Live, Lag, FsyncDue
  <2>5. BufferLag(t.rows, now)
    BY <2>1, <1>3, <1>5 DEF Live, BufferLag
  <2> QED
    BY <1>1, <1>3, <1>5, <2>2, <2>3, <2>4, <2>5
<1>6. CASE FlushDue /\ FsyncDue /\ t.rows = Fsynced(Flushed(qs), cur)
           /\ t.lastFlush = now /\ t.lastFsync = now
  <2>1. /\ Len(t.rows) = Len(qs)
        /\ \A n \in 1..Len(qs) :
             /\ t.rows[n].file = qs[n].file /\ t.rows[n].stamp = qs[n].stamp
             /\ t.rows[n].at = "disk"
    BY <1>6, SyncedFacts DEF SameRows, Live
  <2>2. Ordered(t.rows) /\ Live(t.rows, cur, t.lastFlush, t.lastFsync)
        /\ Lag(t.rows, now) /\ BufferLag(t.rows, now)
    BY <2>1 DEF Ordered, Live, Lag, BufferLag
  <2> QED
    BY <1>1, <1>3, <1>6, <2>2
<1> QED
  BY <1>2, <1>4, <1>5, <1>6

\* A close that works leaves nothing behind.
LEMMA CloseDurable ==
  ASSUME NEW f, NEW s,
         NEW rs \in Seq(Row), Live(rs, cur, f, s),
         NEW c \in CloseOutcomes(rs), c.failed = {}
  PROVE  /\ SameRows(rs, c.rows)
         /\ \A n \in 1..Len(rs) : c.rows[n].at = "disk"
<1> DEFINE ds == Fsynced(Flushed(rs), cur)
<1>1. c.rows = Discarded(ds)
  <2>1. PICK o \in FlushOutcomes(rs) :
          c = [rows |-> Discarded(o.rows), failed |-> o.failed]
    BY DEF CloseOutcomes
  <2> QED
    BY <2>1, FlushSucceeds
<1>2. SameRows(rs, ds) /\ \A n \in 1..Len(rs) : ds[n].at = "disk"
  BY SyncedFacts DEF Live
<1> HIDE DEF ds
<1>3. /\ SameRows(ds, Discarded(ds))
      /\ \A n \in 1..Len(ds) :
           Discarded(ds)[n].at = IF ds[n].at = "buffer" THEN "lost" ELSE ds[n].at
  BY <1>2, DiscardedFacts DEF SameRows
<1>4. SameRows(rs, c.rows)
  BY <1>1, <1>2, <1>3, SameRowsTransitive
<1> QED
  BY <1>1, <1>2, <1>3, <1>4 DEF SameRows

\* A row that is written without a fault keeps CrashInv.
LEMMA WriteRowCrashInv ==
  ASSUME TypeOK, CrashInv, NEW size \in Sizes, WriteRow(size), TypeOK'
  PROVE  CrashInv'
<1> SUFFICES ASSUME fault' = {} PROVE CrashInv'
  BY DEF CrashInv
<1> USE ConstantsAssumption DEF ConstantsAssumption
<1>0. PICK spill \in Cuts(rows) : \E t \in TimerOutcomes(Buffering(size, spill)) :
        /\ rows' = t.rows
        /\ lastFlush' = t.lastFlush /\ lastFsync' = t.lastFsync
        /\ fault' = fault \cup t.failed
  BY WriteRowDoes
<1> DEFINE qs == Buffering(size, spill)
<1>1. PICK t \in TimerOutcomes(qs) :
        /\ rows' = t.rows
        /\ lastFlush' = t.lastFlush /\ lastFsync' = t.lastFsync
        /\ fault' = fault \cup t.failed
  BY <1>0
<1>2. /\ lastWrite' = now /\ now' = now /\ mode = "run" /\ mode' = "run"
      /\ fh /\ fh' = fh /\ cur' = cur /\ files' = files /\ step' # "open"
  BY DEF WriteRow, Ready
<1>3. fault = {} /\ t.failed = {}
  BY <1>1
<1>4. /\ qs \in Seq(Row) /\ Ordered(qs) /\ Live(qs, cur, lastFlush, lastFsync)
      /\ \A n \in 1..Len(qs) : qs[n].stamp <= now
  BY <1>2, <1>3, BufferingLive
<1>5. /\ cur = files - 1 /\ lastFlush <= now /\ lastFsync <= now /\ now \in Nat
  BY <1>2, <1>3 DEF CrashInv, TypeOK
<1> HIDE DEF qs
<1>6. /\ t.rows \in Seq(Row)
      /\ t.lastFlush \in Nat /\ t.lastFsync \in Nat
      /\ t.lastFlush <= now /\ t.lastFsync <= now
      /\ Ordered(t.rows) /\ Live(t.rows, cur, t.lastFlush, t.lastFsync)
      /\ Lag(t.rows, now) /\ BufferLag(t.rows, now)
  BY <1>3, <1>4, <1>5, TimerLive
<1>7. fh' <=> step' # "open"
  BY <1>2
<1> QED
  BY <1>1, <1>2, <1>5, <1>6, <1>7 DEF CrashInv

\* The full file is closed: nothing is left to lose ...
LEMMA RotateCloseCrashInv ==
  ASSUME TypeOK, CrashInv, RotateClose, TypeOK'
  PROVE  CrashInv'
<1> SUFFICES ASSUME fault' = {} PROVE CrashInv'
  BY DEF CrashInv
<1>1. PICK c \in CloseOutcomes(rows) : rows' = c.rows /\ fault' = fault \cup c.failed
  BY DEF RotateClose
<1>2. /\ fault = {} /\ c.failed = {} /\ mode = "run" /\ mode' = "run"
      /\ fh' = FALSE /\ step' = "open"
      /\ UNCHANGED <<now, cur, files, lastFlush, lastFsync, lastWrite>>
  BY <1>1 DEF RotateClose
<1>3. /\ Live(rows, cur, lastFlush, lastFsync) /\ Lag(rows, lastWrite)
      /\ cur = files - 1
      /\ lastWrite <= now /\ lastFlush <= now /\ lastFsync <= now
  BY <1>2 DEF CrashInv
<1>4. SameRows(rows, rows') /\ \A n \in 1..Len(rows) : rows'[n].at = "disk"
  BY <1>1, <1>2, <1>3, CloseDurable DEF TypeOK
<1>5. /\ Len(rows') = Len(rows)
      /\ \A n \in 1..Len(rows) :
           /\ rows'[n].at = "disk" /\ rows'[n].stamp <= lastWrite
           /\ rows'[n].file <= cur
  BY <1>3, <1>4 DEF SameRows, Lag, Live
<1>6. /\ Ordered(rows') /\ Lag(rows', lastWrite) /\ BufferLag(rows', lastWrite)
      /\ Live(rows', cur, lastFlush, lastFsync)
      /\ \A n \in 1..Len(rows') : rows'[n].at = "disk"
  BY <1>5 DEF Ordered, Lag, BufferLag, Live
<1> QED
  BY <1>2, <1>3, <1>6 DEF CrashInv, Rows, OnDisk

\* ... and the next one has no rows yet.
LEMMA RotateOpenCrashInv ==
  ASSUME TypeOK, CrashInv, RotateOpen, TypeOK'
  PROVE  CrashInv'
<1> SUFFICES ASSUME fault' = {} PROVE CrashInv'
  BY DEF CrashInv
<1>1. PICK o \in OpenOutcomes :
        /\ rows' = o.rows /\ fh' = o.fh /\ cur' = o.cur /\ files' = o.files
        /\ lastFlush' = o.lastFlush /\ fault' = fault \cup o.failed
  BY DEF RotateOpen
<1>2. /\ fault = {} /\ o.failed = {} /\ mode = "run" /\ mode' = "run"
      /\ step = "open" /\ step' = "ready"
      /\ UNCHANGED <<now, lastFsync, lastWrite>>
  BY <1>1 DEF RotateOpen
<1>3. /\ rows' = Truncated(rows, files) /\ fh' = TRUE /\ cur' = files
      /\ files' = files + 1 /\ lastFlush' = now
  BY <1>1, <1>2, OpenOutcomesAre
<1>4. /\ Live(rows, cur, lastFlush, lastFsync) /\ Lag(rows, lastWrite)
      /\ cur = files - 1 /\ \A n \in 1..Len(rows) : rows[n].at = "disk"
      /\ lastWrite <= now /\ lastFlush <= now /\ lastFsync <= now
  BY <1>2 DEF CrashInv, Rows, OnDisk
<1>5. \A n \in 1..Len(rows) : rows[n].file # files /\ rows[n].file <= files
  <2>1. \A n \in 1..Len(rows) : rows[n] \in Row
    BY DEF TypeOK
  <2>2. \A n \in 1..Len(rows) : rows[n].file \in Nat /\ rows[n].file <= cur
    BY <2>1, <1>4 DEF Row, Live
  <2>3. \A f \in Nat : f <= cur => f # files /\ f <= files
    BY <1>4 DEF TypeOK
  <2> QED
    BY <2>2, <2>3
<1>6. /\ Len(rows') = Len(rows)
      /\ \A n \in 1..Len(rows) :
           /\ rows'[n].file = rows[n].file /\ rows'[n].stamp = rows[n].stamp
           /\ rows'[n].at = "disk"
  <2>1. rows \in Seq(Row) /\ files \in Nat
    BY DEF TypeOK
  <2>2. /\ SameRows(rows, rows')
        /\ \A n \in 1..Len(rows) :
             rows'[n].at = IF rows[n].file = files THEN "lost" ELSE rows[n].at
    BY <1>3, <2>1, TruncatedFacts
  <2> QED
    BY <1>4, <1>5, <2>2 DEF SameRows
<1>7. Ordered(rows') /\ BufferLag(rows', lastWrite)
  BY <1>6 DEF Ordered, BufferLag
<1>8. Lag(rows', lastWrite)
  BY <1>4, <1>6 DEF Lag
<1>9. Live(rows', files, now, lastFsync)
  BY <1>5, <1>6 DEF Live
<1>10. files = (files + 1) - 1 /\ now <= now
  BY DEF TypeOK
<1> QED
  BY <1>2, <1>3, <1>4, <1>7, <1>8, <1>9, <1>10 DEF CrashInv

LEMMA NextCrashInv ==
  ASSUME TypeOK, CrashInv, [Next]_vars, TypeOK'
  PROVE  CrashInv'
<1> USE ConstantsAssumption DEF ConstantsAssumption
<1>1. ASSUME NEW size \in Sizes, WriteRow(size)
      PROVE  CrashInv'
  BY <1>1, WriteRowCrashInv
<1>2. CASE WriteRowRaises
  <2>1. "room" \in fault'
    BY <1>2 DEF WriteRowRaises
  <2> QED
    BY <2>1 DEF CrashInv
<1>9. CASE RotateClose
  BY <1>9, RotateCloseCrashInv
<1>10. CASE RotateOpen
  BY <1>10, RotateOpenCrashInv
<1>3. CASE Flush
  <2> SUFFICES ASSUME fault' = {} PROVE CrashInv'
    BY DEF CrashInv
  <2>1. PICK o \in FlushOutcomes(rows) :
          rows' = o.rows /\ fault' = fault \cup o.failed
    BY <1>3 DEF Flush
  <2>2. fault = {} /\ rows' = Fsynced(Flushed(rows), cur)
    BY <2>1, FlushSucceeds DEF TypeOK
  <2>3. mode = "run" /\ mode' = "run" /\ Live(rows, cur, lastFlush, lastFsync)
    BY <1>3, <2>2 DEF Flush, Ready, CrashInv
  <2>4. /\ Len(rows') = Len(rows)
        /\ \A n \in 1..Len(rows) :
             /\ rows'[n].file = rows[n].file /\ rows'[n].stamp = rows[n].stamp
             /\ rows'[n].at = "disk"
    BY SMTT(30), <2>2, <2>3, SyncedFacts DEF SameRows, Live, TypeOK
  <2>5. /\ Ordered(rows') /\ Lag(rows', lastWrite) /\ BufferLag(rows', lastWrite)
        /\ Live(rows', cur, now, now)
    <3>1. Lag(rows, lastWrite) /\ \A n \in 1..Len(rows) : rows[n].file <= cur
      BY <2>2, <2>3 DEF CrashInv, Live
    <3>2. Ordered(rows')
      BY <2>4 DEF Ordered
    <3>3. Lag(rows', lastWrite) /\ BufferLag(rows', lastWrite)
      BY <2>4, <3>1 DEF Lag, BufferLag
    <3>4. Live(rows', cur, now, now)
      BY <2>4, <3>1 DEF Live
    <3> QED
      BY <3>2, <3>3, <3>4
  <2> QED
    BY <1>3, <2>2, <2>3, <2>5 DEF Flush, Ready, CrashInv, TypeOK
<1>4. CASE Close
  <2> SUFFICES ASSUME fault' = {} PROVE CrashInv'
    BY DEF CrashInv
  <2>1. fault = {} /\ mode = "run" /\ mode' = "closed" /\ step = "ready"
    BY <1>4 DEF Close, Ready
  <2>2. fh /\ Live(rows, cur, lastFlush, lastFsync)
    BY <2>1 DEF CrashInv
  <2>3. PICK c \in CloseOutcomes(rows) :
          rows' = c.rows /\ fault' = fault \cup c.failed
    BY <1>4, <2>2 DEF Close
  <2>4. SameRows(rows, rows') /\ \A n \in 1..Len(rows) : rows'[n].at = "disk"
    BY <2>2, <2>3, CloseDurable DEF TypeOK
  <2>5. Ordered(rows') /\ Lag(rows', lastWrite) /\ BufferLag(rows', lastWrite)
    BY <2>1, <2>4 DEF CrashInv, Ordered, Lag, BufferLag, SameRows
  <2>6. \A n \in 1..Len(rows') : rows'[n].at = "disk"
    BY <2>4 DEF SameRows
  <2> QED
    BY <1>4, <2>1, <2>5, <2>6 DEF Close, CrashInv, Rows, OnDisk
<1>5. CASE Kill
  <2> SUFFICES ASSUME fault' = {} PROVE CrashInv'
    BY DEF CrashInv
  <2>1. /\ fault = {} /\ mode = "run" /\ mode' = "killed"
        /\ rows' = Discarded(rows)
    BY <1>5 DEF Kill
  <2>2. /\ Len(rows') = Len(rows)
        /\ \A n \in 1..Len(rows) :
             /\ rows'[n].file = rows[n].file /\ rows'[n].stamp = rows[n].stamp
             /\ rows'[n].at = IF rows[n].at = "buffer" THEN "lost" ELSE rows[n].at
    BY <2>1, DiscardedFacts DEF SameRows, TypeOK
  <2>3. Ordered(rows') /\ Lag(rows', lastWrite) /\ BufferLag(rows', lastWrite)
    <3>1. Ordered(rows) /\ Lag(rows, lastWrite) /\ BufferLag(rows, lastWrite)
      BY <2>1 DEF CrashInv
    <3>2. Ordered(rows')
      BY <2>2, <3>1 DEF Ordered
    <3>3. Lag(rows', lastWrite)
      BY <2>2, <3>1 DEF Lag
    <3>4. BufferLag(rows', lastWrite)
      BY <2>2, <3>1 DEF BufferLag
    <3> QED
      BY <3>2, <3>3, <3>4
  <2>4. \A n \in 1..Len(rows') :
          /\ rows'[n].at # "buffer"
          /\ rows'[n].at = "os" => rows'[n].file = cur
    BY <2>1, <2>2 DEF CrashInv, Live
  <2> QED
    BY <1>5, <2>1, <2>3, <2>4 DEF Kill, CrashInv, Rows
<1>6. CASE PowerCut
  <2> SUFFICES ASSUME fault' = {} PROVE CrashInv'
    BY DEF CrashInv
  <2>1. PICK kept \in SUBSET At(rows, "os") :
          /\ \A m \in At(rows, "os"), n \in kept :
               rows[m].file = rows[n].file /\ m < n => m \in kept
          /\ rows' = Moved(Moved(rows, kept, "disk"),
                           {n \in DOMAIN rows : rows[n].at # "disk"} \ kept,
                           "lost")
    BY <1>6 DEF PowerCut
  <2>2. fault = {} /\ mode # "cut" /\ mode' = "cut"
    BY <1>6 DEF PowerCut
  <2> DEFINE ds == Moved(rows, kept, "disk")
  <2>3. /\ ds \in Seq(Row) /\ Len(ds) = Len(rows) /\ DOMAIN ds = 1..Len(rows)
        /\ \A n \in 1..Len(rows) :
             /\ ds[n].stamp = rows[n].stamp
             /\ n \in kept => ds[n].at = "disk"
             /\ n \notin kept => ds[n].at = rows[n].at
    BY MovedFacts DEF TypeOK, Places
  <2>4. rows' = Moved(ds, {n \in DOMAIN rows : rows[n].at # "disk"} \ kept, "lost")
    BY <2>1
  <2> HIDE DEF ds
  <2>5. /\ Len(rows') = Len(rows)
        /\ \A n \in 1..Len(rows) :
             /\ rows'[n].stamp = rows[n].stamp
             /\ rows'[n].at = IF rows[n].at = "disk" \/ n \in kept
                              THEN "disk" ELSE "lost"
    <3>1. "lost" \in Places
      BY DEF Places
    <3>2. DOMAIN rows = 1..Len(rows)
      BY DEF TypeOK
    <3>3. \A n \in kept : n \in 1..Len(rows) /\ rows[n].at = "os"
      BY <3>2 DEF At
    <3> DEFINE G == {n \in DOMAIN rows : rows[n].at # "disk"} \ kept
    <3>4. \A n \in 1..Len(rows) : n \in G <=> rows[n].at # "disk" /\ n \notin kept
      BY <3>2
    <3> HIDE DEF G
    <3>5. /\ Len(rows') = Len(ds)
          /\ \A n \in 1..Len(ds) :
               /\ rows'[n].stamp = ds[n].stamp
               /\ n \in G => rows'[n].at = "lost"
               /\ n \notin G => rows'[n].at = ds[n].at
      BY <2>3, <2>4, <3>1, MovedFacts DEF G
    <3> QED
      BY <2>3, <3>3, <3>4, <3>5
  <2>6. \A m, n \in 1..Len(rows) :
          m < n /\ n \in kept => rows[m].at = "disk" \/ m \in kept
    <3> SUFFICES ASSUME NEW m \in 1..Len(rows), NEW n \in 1..Len(rows),
                        m < n, n \in kept, rows[m].at # "disk"
                 PROVE  m \in kept
      OBVIOUS
    <3>1. DOMAIN rows = 1..Len(rows)
      BY DEF TypeOK
    <3>2. rows[n].at = "os"
      BY DEF At
    <3>3. rows[m].at = "os"
      BY <2>2, <3>2 DEF CrashInv, Ordered
    <3>4. mode \in {"run", "killed"}
      BY <2>2, <3>2 DEF CrashInv, Rows, OnDisk, TypeOK
    <3>5. rows[m].file = cur /\ rows[n].file = cur
      BY <2>2, <3>2, <3>3, <3>4 DEF CrashInv, Live, Rows
    <3> QED
      BY <2>1, <3>1, <3>3, <3>5 DEF At
  <2>7. Ordered(rows') /\ Lag(rows', lastWrite)
    BY <2>2, <2>5, <2>6 DEF CrashInv, Ordered, Lag
  <2>8. \A n \in 1..Len(rows') : rows'[n].at \in {"disk", "lost"}
    BY <2>5
  <2> QED
    BY <1>6, <2>2, <2>7, <2>8 DEF PowerCut, CrashInv, Rows
<1>7. CASE Tick
  BY <1>7 DEF Tick, TypeOK, CrashInv, Rows, OnDisk
<1>8. CASE UNCHANGED vars
  BY <1>8 DEF vars, CrashInv, Rows, OnDisk
<1> QED
  BY <1>1, <1>2, <1>3, <1>4, <1>5, <1>6, <1>7, <1>8, <1>9, <1>10 DEF Next

\* The inductive invariant of the writer.
THEOREM WriterCrashInv == Spec => []CrashInv
<1>1. Init => CrashInv
  BY InitCrashInv
<1>2. TypeOK /\ TypeOK' /\ CrashInv /\ [Next]_vars => CrashInv'
  BY NextCrashInv
<1> QED
  BY <1>1, <1>2, WriterTypeOK, PTL DEF Spec

\* A crash leaves a beginning of what _write_row took (rotation included).
THEOREM WriterDurableIsBeginning == Spec => []DurableIsBeginning
BY CrashInvImplies, WriterTypeOK, WriterCrashInv, PTL

\* A power cut takes no row older than the two intervals of _maybe_flush.
THEOREM WriterLossIsBounded == Spec => []LossIsBounded
BY CrashInvImplies, WriterTypeOK, WriterCrashInv, PTL

\* A kill takes no row older than the flush interval, anything else takes none.
THEOREM WriterKillLossIsBounded == Spec => []KillLossIsBounded
BY CrashInvImplies, WriterTypeOK, WriterCrashInv, PTL

\* After close() every row counted is on the disk.
THEOREM WriterCloseKeepsAll == Spec => []CloseKeepsAll
BY CrashInvImplies, WriterTypeOK, WriterCrashInv, PTL

-------------------------------------------------------------------------------

-------------------------------------------------------------------------------
(***************************************************************************)
(* What a step takes back.  The danger is _open_file, which empties the    *)
(* path it opens: after a header that did not get out the path of the next *)
(* file is already in use.  OpenInv says which rows can be durable there:  *)
(* such a file is full at once, so that the row which finds this out is    *)
(* the only one close() can save in it before it is emptied.               *)
(***************************************************************************)

OpenInv ==
  /\ cur <= files
  /\ cur = files => "header" \in fault
  /\ \A n \in Rows : rows[n].file <= cur
  /\ mode = "run" /\ step = "ready" /\ fh =>
       /\ cur = files => bytes >= MaxBytes
       /\ \A n \in Rows : rows[n].file = files => rows[n].at = "lost"
  /\ mode = "run" /\ step # "ready" =>
       /\ bytes >= MaxBytes
       /\ \A n \in Rows :
            n < Len(rows) /\ rows[n].file = files => rows[n].at = "lost"

\* What OpenInv says of the rows a step takes back.
TakesBack ==
  \A n \in Rows :
    OnDisk(n) /\ rows'[n].at # "disk" => "header" \in fault /\ n = Len(rows)

\* The rows there were before, seen from the row that joins them.
LEMMA BufferingKeepsSettled ==
  ASSUME TypeOK, NEW size \in Sizes, NEW spill
  PROVE  \A n \in Rows :
           /\ Buffering(size, spill)[n].file = rows[n].file
           /\ rows[n].at \in {"disk", "lost"} =>
                Buffering(size, spill)[n].at = rows[n].at
<1> DEFINE qs == Buffering(size, spill)
           ps == PartFlushed(rows, spill)
<1>1. \A n \in 1..Len(rows) : qs[n] = ps[n]
  BY BufferingFacts
<1>2. \A n \in 1..Len(rows) :
        /\ ps[n].file = rows[n].file
        /\ rows[n].at \in {"disk", "lost"} => ps[n].at = rows[n].at
  BY PartFlushedFacts DEF SameRows, TypeOK
<1> HIDE DEF qs, ps
<1>3. \A n \in 1..Len(rows) :
        /\ qs[n].file = rows[n].file
        /\ rows[n].at \in {"disk", "lost"} => qs[n].at = rows[n].at
  BY <1>1, <1>2
<1> QED
  BY <1>3 DEF Rows, qs

LEMMA WriteRowOpenInv ==
  ASSUME TypeOK, OpenInv, NEW size \in Sizes, WriteRow(size), TypeOK'
  PROVE  OpenInv' /\ TakesBack
<1>0. PICK spill \in Cuts(rows) : \E t \in TimerOutcomes(Buffering(size, spill)) :
        rows' = t.rows /\ fault' = fault \cup t.failed
  BY WriteRowDoes
<1> DEFINE qs == Buffering(size, spill)
<1>1. PICK t \in TimerOutcomes(qs) : rows' = t.rows /\ fault' = fault \cup t.failed
  BY <1>0
<1>2. /\ qs \in Seq(Row) /\ Len(qs) = Len(rows) + 1
      /\ qs[Len(rows) + 1].file = cur
      /\ \A n \in 1..Len(rows) :
           /\ qs[n].file = rows[n].file
           /\ rows[n].at \in {"disk", "lost"} => qs[n].at = rows[n].at
  <2>1. /\ qs \in Seq(Row) /\ Len(qs) = Len(rows) + 1
        /\ qs[Len(rows) + 1] =
             [file |-> cur, size |-> size, stamp |-> now, at |-> "buffer"]
    BY BufferingFacts
  <2>2. \A n \in Rows :
          /\ qs[n].file = rows[n].file
          /\ rows[n].at \in {"disk", "lost"} => qs[n].at = rows[n].at
    BY BufferingKeepsSettled
  <2> HIDE DEF qs
  <2> QED
    BY <2>1, <2>2 DEF Rows
<1> HIDE DEF qs
<1>3. KeepsSettled(qs, rows')
  BY <1>1, <1>2, TimerOutcomesFacts
<1>4. /\ Ready /\ fh /\ fh' = fh /\ cur' = cur /\ files' = files /\ mode' = mode
      /\ bytes' = bytes + size
      /\ step' = IF bytes' >= MaxBytes THEN "close" ELSE "ready"
      /\ Len(rows) \in Nat /\ cur \in Nat /\ files \in Nat
      /\ bytes \in Nat /\ size \in Nat /\ MaxBytes \in Nat
  BY SizesAreNat, ConstantsAssumption
     DEF WriteRow, TypeOK, ConstantsAssumption
<1>5. /\ Len(rows') = Len(rows) + 1
      /\ rows'[Len(rows) + 1].file = cur
      /\ \A n \in 1..Len(rows) :
           /\ rows'[n].file = rows[n].file
           /\ rows[n].at \in {"disk", "lost"} => rows'[n].at = rows[n].at
  <2>1. \A n \in 1..Len(rows) : n \in 1..Len(rows) + 1
    BY <1>4
  <2>2. Len(rows) + 1 \in 1..Len(rows) + 1
    BY <1>4
  <2> QED
    BY <1>2, <1>3, <2>1, <2>2 DEF KeepsSettled, SameRows
<1>6. \A n \in 1..Len(rows') : n \in 1..Len(rows) \/ n = Len(rows) + 1
  BY <1>4, <1>5
<1>7. \A n \in 1..Len(rows') : rows'[n].file <= cur
  BY <1>4, <1>5, <1>6 DEF OpenInv, Rows
<1>8. \A n \in 1..Len(rows) : rows'[n].file = files => rows'[n].at = "lost"
  BY <1>4, <1>5 DEF OpenInv, Rows, Ready
<1>9. cur' <= files' /\ cur' = files' => "header" \in fault'
  BY <1>1, <1>4 DEF OpenInv
<1>10. CASE step' = "ready"
  <2>1. cur # files
    <3>1. bytes + size < MaxBytes
      BY <1>4, <1>10
    <3>2. cur = files => bytes >= MaxBytes
      BY <1>4 DEF OpenInv, Ready
    <3> QED
      BY <1>4, <3>1, <3>2
  <2>2. \A n \in 1..Len(rows') : rows'[n].file = files => rows'[n].at = "lost"
    BY <1>4, <1>5, <1>6, <1>8, <2>1
  <2> QED
    BY <1>4, <1>5, <1>7, <1>9, <1>10, <2>1, <2>2 DEF OpenInv, TakesBack, Rows, OnDisk
<1>11. CASE step' = "close"
  <2>1. \A n \in 1..Len(rows') :
          n < Len(rows') /\ rows'[n].file = files => rows'[n].at = "lost"
    BY <1>4, <1>5, <1>6, <1>8
  <2> QED
    BY <1>4, <1>5, <1>7, <1>9, <1>11, <2>1 DEF OpenInv, TakesBack, Rows, OnDisk
<1> QED
  BY <1>4, <1>10, <1>11

LEMMA RotateOpenOpenInv ==
  ASSUME TypeOK, OpenInv, RotateOpen, TypeOK'
  PROVE  OpenInv' /\ TakesBack
<1>1. PICK o \in OpenOutcomes :
        /\ rows' = o.rows /\ fh' = o.fh /\ cur' = o.cur /\ files' = o.files
        /\ bytes' = o.bytes /\ fault' = fault \cup o.failed
  BY DEF RotateOpen
<1>2. /\ mode = "run" /\ step = "open" /\ step' = "ready" /\ mode' = mode
      /\ cur \in Nat /\ files \in Nat /\ Len(rows) \in Nat
      /\ \A n \in 1..Len(rows) : rows[n].file \in Nat
  <2>1. \A n \in 1..Len(rows) : rows[n] \in Row
    BY DEF TypeOK
  <2> QED
    BY <2>1 DEF RotateOpen, TypeOK, Row
<1>3. CASE o.rows = rows /\ o.fh = FALSE /\ o.cur = cur /\ o.files = files
  BY <1>1, <1>2, <1>3 DEF OpenInv, TakesBack, Rows, OnDisk
<1>4. CASE o.rows = Truncated(rows, files) /\ o.cur = files
  <2>1. /\ Len(rows') = Len(rows)
        /\ \A n \in 1..Len(rows) :
             /\ rows'[n].file = rows[n].file
             /\ rows'[n].at = IF rows[n].file = files THEN "lost" ELSE rows[n].at
    BY <1>1, <1>4, TruncatedFacts DEF SameRows, TypeOK
  <2>2. \A n \in 1..Len(rows) : rows'[n].file <= files
    <3>1. \A f \in Nat : f <= cur => f <= files
      BY <1>2 DEF OpenInv
    <3> QED
      BY <1>2, <2>1, <3>1 DEF OpenInv, Rows
  \* A durable row that is taken back is in the file opened again.
  <2>3. TakesBack
    <3> SUFFICES ASSUME NEW n \in 1..Len(rows), rows[n].at = "disk",
                        rows'[n].at # "disk"
                 PROVE  "header" \in fault /\ n = Len(rows)
      BY DEF TakesBack, Rows, OnDisk
    <3>1. rows[n].file = files
      BY <2>1
    <3>2. files <= cur
      BY <3>1 DEF OpenInv, Rows
    <3>3. "header" \in fault
      BY <1>2, <3>2 DEF OpenInv
    <3>4. ~(n < Len(rows))
      BY <1>2, <3>1 DEF OpenInv, Rows
    <3> QED
      BY <1>2, <3>3, <3>4
  <2>4. CASE o.files = files + 1 /\ o.failed = {}
    <3>1. cur' = files /\ files' = files + 1
      BY <1>1, <1>4, <2>4
    <3>2. \A n \in 1..Len(rows) : rows'[n].file # files'
      <4>1. \A f \in Nat : f <= files => f # files + 1
        BY <1>2
      <4> QED
        BY <1>2, <2>1, <2>2, <3>1, <4>1
    <3>3. cur' <= files' /\ cur' # files'
      BY <1>2, <3>1
    <3> QED
      BY <1>2, <2>1, <2>2, <2>3, <3>1, <3>2, <3>3 DEF OpenInv, Rows
  <2>5. CASE o.files = files /\ o.bytes = bytes /\ o.failed = {"header"}
    <3>1. /\ cur' = files /\ files' = files /\ bytes' = bytes /\ "header" \in fault'
          /\ files <= files
      BY <1>1, <1>2, <1>4, <2>5
    <3>2. bytes >= MaxBytes
      BY <1>2 DEF OpenInv
    <3> QED
      BY <1>2, <2>1, <2>2, <2>3, <3>1, <3>2 DEF OpenInv, Rows
  <2> QED
    BY <1>3, <1>4, <2>4, <2>5, OpenOutcomesAre
<1> QED
  BY <1>3, <1>4, OpenOutcomesAre

LEMMA NextOpenInv ==
  ASSUME TypeOK, OpenInv, [Next]_vars, TypeOK'
  PROVE  OpenInv' /\ TakesBack
<1>1. ASSUME NEW size \in Sizes, WriteRow(size)
      PROVE  OpenInv' /\ TakesBack
  BY <1>1, WriteRowOpenInv
\* Every other step settles rows and opens nothing.
<1>2. ASSUME KeepsSettled(rows, rows'), cur' = cur, files' = files,
             bytes' = bytes, fault \subseteq fault',
             mode' = "run" => /\ mode = "run"
                              /\ \/ fh' = fh /\ step' = step
                                 \/ ~fh' /\ step = "close"
      PROVE  OpenInv' /\ TakesBack
  <2>1. /\ Len(rows') = Len(rows)
        /\ \A n \in Rows : rows'[n].file = rows[n].file
        /\ \A n \in Rows :
             rows[n].at \in {"disk", "lost"} => rows'[n].at = rows[n].at
    BY <1>2 DEF KeepsSettled, SameRows, Rows
  <2> QED
    BY <1>2, <2>1 DEF OpenInv, TakesBack, Rows, OnDisk
<1>10. CASE RotateClose
  <2>1. PICK c \in CloseOutcomes(rows) : rows' = c.rows /\ fault' = fault \cup c.failed
    BY <1>10 DEF RotateClose
  <2>2. KeepsSettled(rows, rows')
    BY <2>1, CloseOutcomesFacts DEF TypeOK
  <2> QED
    BY <1>2, <1>10, <2>1, <2>2 DEF RotateClose
<1>11. CASE RotateOpen
  BY <1>11, RotateOpenOpenInv
<1>3. CASE WriteRowRaises
  <2>1. PICK spill \in Cuts(rows), kept \in Cuts(rows) :
          rows' = TextLost(rows, spill, kept)
    BY <1>3 DEF WriteRowRaises
  <2>2. KeepsSettled(rows, rows')
    BY <2>1, TextLostKeepsSettled DEF TypeOK
  <2> QED
    BY <1>2, <1>3, <2>2 DEF WriteRowRaises
<1>4. CASE Flush
  <2>1. PICK o \in FlushOutcomes(rows) : rows' = o.rows /\ fault' = fault \cup o.failed
    BY <1>4 DEF Flush
  <2>2. KeepsSettled(rows, rows')
    BY <2>1, FlushOutcomesFacts DEF TypeOK
  <2> QED
    BY <1>2, <1>4, <2>1, <2>2 DEF Flush
<1>5. CASE Close
  <2>1. KeepsSettled(rows, rows') /\ fault \subseteq fault'
    BY <1>5, CloseOutcomesFacts, FlushesKeepSettled DEF Close, TypeOK
  <2> QED
    BY <1>2, <1>5, <2>1 DEF Close
<1>6. CASE Kill
  <2>1. KeepsSettled(rows, rows')
    BY <1>6, FlushesKeepSettled DEF Kill, TypeOK
  <2> QED
    BY <1>2, <1>6, <2>1 DEF Kill
<1>7. CASE PowerCut
  <2>1. PICK kept \in SUBSET At(rows, "os") :
          rows' = Moved(Moved(rows, kept, "disk"),
                        {n \in DOMAIN rows : rows[n].at # "disk"} \ kept, "lost")
    BY <1>7 DEF PowerCut
  <2> DEFINE ds == Moved(rows, kept, "disk")
             G == {n \in DOMAIN rows : rows[n].at # "disk"} \ kept
  <2>2. /\ SameRows(rows, ds)
        /\ \A n \in 1..Len(rows) : n \notin kept => ds[n].at = rows[n].at
    BY MovedFacts DEF SameRows, TypeOK, Places
  <2>3. rows' = Moved(ds, G, "lost") /\ "lost" \in Places /\ ds \in Seq(Row)
    BY <2>1, <2>2 DEF Places, SameRows
  <2>4. \A n \in 1..Len(rows) : n \in G => rows[n].at # "disk"
    OBVIOUS
  <2>5. \A n \in kept : rows[n].at = "os"
    BY DEF At
  <2> HIDE DEF ds, G
  <2>6. /\ SameRows(ds, rows')
        /\ \A n \in 1..Len(ds) :
             /\ n \in G => rows'[n].at = "lost"
             /\ n \notin G => rows'[n].at = ds[n].at
    BY <2>3, MovedFacts DEF SameRows
  <2>7. KeepsSettled(rows, rows')
    <3>1. SameRows(rows, rows')
      BY <2>2, <2>6, SameRowsTransitive
    <3>2. ASSUME NEW n \in 1..Len(rows), rows[n].at \in {"disk", "lost"}
          PROVE  rows'[n].at = rows[n].at
      <4>1. n \in 1..Len(ds) /\ ds[n].at = rows[n].at
        BY <2>2, <2>5, <3>2 DEF SameRows
      <4> QED
        BY <2>4, <2>6, <3>2, <4>1
    <3> QED
      BY <3>1, <3>2 DEF KeepsSettled
  <2> QED
    BY <1>2, <1>7, <2>7 DEF PowerCut
<1>8. CASE Tick
  <2>1. KeepsSettled(rows, rows')
    BY <1>8, FlushesKeepSettled DEF Tick, TypeOK
  <2> QED
    BY <1>2, <1>8, <2>1 DEF Tick
<1>9. CASE UNCHANGED vars
  <2>1. KeepsSettled(rows, rows')
    BY <1>9, FlushesKeepSettled DEF vars, TypeOK
  <2> QED
    BY <1>2, <1>9, <2>1 DEF vars
<1> QED
  BY <1>1, <1>3, <1>4, <1>5, <1>6, <1>7, <1>8, <1>9, <1>10, <1>11 DEF Next

\* A row that fsync made durable stays durable under every fault, every crash

\* No step takes back a durable row, whatever fails, but for the latest one when
\* a header has failed (_maybe_rotate's close() and the "w" of _open_file).
THEOREM WriterTakesBackOnlyLatest == Spec => TakesBackOnlyLatest
<1>1. Init => OpenInv
  BY ConstantsAssumption DEF Init, OpenInv, Rows, ConstantsAssumption
<1>2. TypeOK /\ TypeOK' /\ OpenInv /\ [Next]_vars => OpenInv'
  BY NextOpenInv
<1>3. TypeOK /\ TypeOK' /\ OpenInv /\ [Next]_vars => [TakesBack]_vars
  BY NextOpenInv
<1>4. [TakesBack]_vars <=>
        [\A n \in Rows : OnDisk(n) /\ rows'[n].at # "disk" =>
                           "header" \in fault /\ n = Len(rows)]_vars
  BY DEF TakesBack
<1> QED
  BY <1>1, <1>2, <1>3, <1>4, WriterTypeOK, PTL DEF Spec, TakesBackOnlyLatest

(* What a file holds is a beginning of the rows written to it, as long as  *)
(* no header and no write for want of room has failed.  FileHasNoHoles is not inductive:    *)
(* Filing adds that what is durable of a file comes before what the kernel *)
(* holds, that only the file being written has buffered rows, and that it  *)
(* has lost none, so that the row a flush moves never overtakes another.   *)
(***************************************************************************)

\* Within each file the rows go out in the order written.
FileOrdered(rs) ==
  \A m, n \in 1..Len(rs) : m < n /\ rs[m].file = rs[n].file =>
    /\ rs[n].at \in {"os", "disk"} => rs[m].at \in {"os", "disk"}
    /\ rs[n].at = "disk" => rs[m].at = "disk"

\* A session that writes to file f.
Filing(rs, f) ==
  /\ FileOrdered(rs)
  /\ \A n \in 1..Len(rs) :
       /\ rs[n].file <= f
       /\ rs[n].at = "buffer" => rs[n].file = f
       /\ rs[n].at = "lost" => rs[n].file # f

HoleInv ==
  fault \cap {"room", "header"} = {} =>
    /\ FileOrdered(rows)
    /\ mode = "run" /\ (fh \/ step # "ready") => cur = files - 1
    /\ mode = "run" /\ fh => Filing(rows, cur)
    /\ mode = "run" /\ step = "close" => fh
    /\ mode = "run" /\ step = "open" =>
         ~fh /\ \A n \in Rows : rows[n].file <= cur /\ rows[n].at # "buffer"

LEMMA HoleInvImplies == HoleInv => FileHasNoHoles
BY DEF HoleInv, FileHasNoHoles, FileOrdered, Rows

\* Passing on a beginning of the buffer, all of it, or all of it to the disk,
\* leaves a file in order.
LEMMA PartFlushedFiling ==
  ASSUME NEW rs \in Seq(Row), NEW f, Filing(rs, f), NEW k \in Nat
  PROVE  Filing(PartFlushed(rs, k), f)
<1> DEFINE ps == PartFlushed(rs, k)
<1>1. /\ Len(ps) = Len(rs)
      /\ \A n \in 1..Len(rs) :
           /\ ps[n].file = rs[n].file
           /\ ps[n].at = IF rs[n].at = "buffer" /\ n \in 1..k
                         THEN "os" ELSE rs[n].at
  BY PartFlushedFacts DEF SameRows
<1>2. \A n \in 1..Len(rs) : rs[n].at \in Places
  <2>1. \A n \in 1..Len(rs) : rs[n] \in Row
    OBVIOUS
  <2> QED
    BY <2>1 DEF Row
<1> HIDE DEF ps
<1>3. FileOrdered(ps)
  <2> SUFFICES ASSUME NEW m \in 1..Len(rs), NEW n \in 1..Len(rs), m < n,
                      rs[m].file = rs[n].file
               PROVE  /\ ps[n].at \in {"os", "disk"} => ps[m].at \in {"os", "disk"}
                      /\ ps[n].at = "disk" => ps[m].at = "disk"
    BY <1>1 DEF FileOrdered
  <2>1. n \in 1..k => m \in 1..k
    OBVIOUS
  <2>2. rs[n].at = "buffer" => rs[m].at # "lost"
    BY DEF Filing
  <2> QED
    BY <1>1, <1>2, <2>1, <2>2 DEF Filing, FileOrdered, Places
<1>4. \A n \in 1..Len(ps) :
        /\ ps[n].file <= f
        /\ ps[n].at = "buffer" => ps[n].file = f
        /\ ps[n].at = "lost" => ps[n].file # f
  BY <1>1 DEF Filing
<1> QED
  BY <1>3, <1>4 DEF Filing, ps

LEMMA FlushedFiling ==
  ASSUME NEW rs \in Seq(Row), NEW f, Filing(rs, f)
  PROVE  Filing(Flushed(rs), f)
<1> DEFINE fs == Flushed(rs)
<1>1. /\ Len(fs) = Len(rs)
      /\ \A n \in 1..Len(rs) :
           /\ fs[n].file = rs[n].file
           /\ fs[n].at = IF rs[n].at = "buffer" THEN "os" ELSE rs[n].at
  BY FlushedFacts DEF SameRows
<1>2. \A n \in 1..Len(rs) : rs[n].at \in Places
  <2>1. \A n \in 1..Len(rs) : rs[n] \in Row
    OBVIOUS
  <2> QED
    BY <2>1 DEF Row
<1> HIDE DEF fs
<1>3. FileOrdered(fs)
  <2> SUFFICES ASSUME NEW m \in 1..Len(rs), NEW n \in 1..Len(rs), m < n,
                      rs[m].file = rs[n].file
               PROVE  /\ fs[n].at \in {"os", "disk"} => fs[m].at \in {"os", "disk"}
                      /\ fs[n].at = "disk" => fs[m].at = "disk"
    BY <1>1 DEF FileOrdered
  <2>1. rs[n].at = "buffer" => rs[m].at # "lost"
    BY DEF Filing
  <2> QED
    BY <1>1, <1>2, <2>1 DEF Filing, FileOrdered, Places
<1>4. \A n \in 1..Len(fs) :
        /\ fs[n].file <= f
        /\ fs[n].at = "buffer" => fs[n].file = f
        /\ fs[n].at = "lost" => fs[n].file # f
  BY <1>1 DEF Filing
<1> QED
  BY <1>3, <1>4 DEF Filing, fs

LEMMA SyncedFiling ==
  ASSUME NEW rs \in Seq(Row), NEW f, Filing(rs, f)
  PROVE  Filing(Fsynced(Flushed(rs), f), f)
<1> DEFINE ds == Fsynced(Flushed(rs), f)
<1>1. /\ Len(ds) = Len(rs)
      /\ \A n \in 1..Len(rs) :
           /\ ds[n].file = rs[n].file
           /\ ds[n].at = IF rs[n].at \in {"buffer", "os"} /\ rs[n].file = f
                         THEN "disk"
                         ELSE IF rs[n].at = "buffer" THEN "os" ELSE rs[n].at
  BY SyncedFacts DEF SameRows
<1>2. \A n \in 1..Len(rs) : rs[n].at \in Places
  <2>1. \A n \in 1..Len(rs) : rs[n] \in Row
    OBVIOUS
  <2> QED
    BY <2>1 DEF Row
<1> HIDE DEF ds
<1>3. FileOrdered(ds)
  <2> SUFFICES ASSUME NEW m \in 1..Len(rs), NEW n \in 1..Len(rs), m < n,
                      rs[m].file = rs[n].file
               PROVE  /\ ds[n].at \in {"os", "disk"} => ds[m].at \in {"os", "disk"}
                      /\ ds[n].at = "disk" => ds[m].at = "disk"
    BY <1>1 DEF FileOrdered
  <2>1. CASE rs[n].file = f
    <3>1. rs[m].at # "lost"
      BY <2>1 DEF Filing
    <3> QED
      BY <1>1, <1>2, <2>1, <3>1 DEF Places
  <2>2. CASE rs[n].file # f
    <3>1. rs[m].at # "buffer" /\ rs[n].at # "buffer"
      BY <2>2 DEF Filing
    <3> QED
      BY <1>1, <2>2, <3>1 DEF Filing, FileOrdered
  <2> QED
    BY <2>1, <2>2
<1>4. \A n \in 1..Len(ds) :
        /\ ds[n].file <= f
        /\ ds[n].at = "buffer" => ds[n].file = f
        /\ ds[n].at = "lost" => ds[n].file # f
  BY <1>1 DEF Filing
<1> QED
  BY <1>3, <1>4 DEF Filing, ds

LEMMA FailedFlushFiling ==
  ASSUME NEW rs \in Seq(Row), Filing(rs, cur), NEW o \in FailedFlush(rs),
         "room" \notin o.failed
  PROVE  Filing(o.rows, cur)
<1>1. PICK k \in Cuts(rs) : o.rows = PartFlushed(rs, k)
  BY FailedFlushFacts
<1>2. k \in Nat
  BY DEF Cuts, At
<1> QED
  BY <1>1, <1>2, PartFlushedFiling

LEMMA FlushOutcomesFiling ==
  ASSUME NEW rs \in Seq(Row), Filing(rs, cur), NEW o \in FlushOutcomes(rs),
         "room" \notin o.failed
  PROVE  Filing(o.rows, cur)
BY FlushOutcomesAre, FailedFlushFiling, FlushedFiling, SyncedFiling

LEMMA TimerOutcomesFiling ==
  ASSUME NEW rs \in Seq(Row), Filing(rs, cur), NEW t \in TimerOutcomes(rs),
         "room" \notin t.failed
  PROVE  Filing(t.rows, cur)
<1>1. \A o \in FailedFlush(rs) : t.failed = o.failed => Filing(o.rows, cur)
  BY FailedFlushFiling
<1> QED
  BY <1>1, TimerOutcomesAre, FlushedFiling, SyncedFiling

LEMMA DiscardedFileOrdered ==
  ASSUME NEW rs \in Seq(Row), FileOrdered(rs)
  PROVE  FileOrdered(Discarded(rs))
<1> DEFINE ds == Discarded(rs)
<1>1. /\ Len(ds) = Len(rs)
      /\ \A n \in 1..Len(rs) :
           /\ ds[n].file = rs[n].file
           /\ ds[n].at = IF rs[n].at = "buffer" THEN "lost" ELSE rs[n].at
  BY DiscardedFacts DEF SameRows
<1> HIDE DEF ds
<1>2. FileOrdered(ds)
  BY <1>1 DEF FileOrdered
<1> QED
  BY <1>2 DEF ds

\* close() leaves the files in order and nothing buffered, if it had room.
LEMMA CloseOutcomesFiling ==
  ASSUME NEW rs \in Seq(Row), Filing(rs, cur), NEW c \in CloseOutcomes(rs),
         "room" \notin c.failed
  PROVE  /\ FileOrdered(c.rows)
         /\ \A n \in 1..Len(c.rows) : c.rows[n].file <= cur /\ c.rows[n].at # "buffer"
<1>1. PICK o \in FlushOutcomes(rs) :
        c = [rows |-> Discarded(o.rows), failed |-> o.failed]
  BY DEF CloseOutcomes
<1>2. o.rows \in Seq(Row) /\ Filing(o.rows, cur)
  <2>1. "room" \notin o.failed
    BY <1>1
  <2> QED
    BY <2>1, FlushOutcomesFacts, FlushOutcomesFiling DEF SameRows
<1>3. FileOrdered(c.rows)
  BY <1>1, <1>2, DiscardedFileOrdered DEF Filing
<1>4. /\ Len(c.rows) = Len(o.rows)
      /\ \A n \in 1..Len(o.rows) :
           /\ c.rows[n].file = o.rows[n].file
           /\ c.rows[n].at = IF o.rows[n].at = "buffer"
                             THEN "lost" ELSE o.rows[n].at
  BY <1>1, <1>2, DiscardedFacts DEF SameRows
<1> QED
  BY <1>2, <1>3, <1>4 DEF Filing

LEMMA BufferingFiling ==
  ASSUME TypeOK, Filing(rows, cur), NEW size \in Sizes, NEW spill \in Cuts(rows)
  PROVE  Filing(Buffering(size, spill), cur)
<1> DEFINE qs == Buffering(size, spill)
           ps == PartFlushed(rows, spill)
           row == [file |-> cur, size |-> size, stamp |-> now, at |-> "buffer"]
<1>1. /\ qs \in Seq(Row) /\ Len(qs) = Len(rows) + 1
      /\ \A n \in 1..Len(rows) : qs[n] = ps[n]
      /\ qs[Len(rows) + 1] = row
  BY BufferingFacts
<1>2. spill \in Nat /\ Len(ps) = Len(rows) /\ Len(rows) \in Nat
  BY PartFlushedFacts DEF SameRows, TypeOK, Cuts, At
<1>3. Filing(ps, cur)
  BY <1>2, PartFlushedFiling DEF TypeOK
<1>4. row.file = cur /\ row.at = "buffer" /\ cur <= cur
  BY DEF TypeOK
<1> HIDE DEF qs, ps, row
<1>5. \A n \in 1..Len(qs) :
        \/ n \in 1..Len(rows) /\ qs[n] = ps[n]
        \/ n = Len(rows) + 1 /\ qs[n] = row
  BY <1>1, <1>2
<1>6. FileOrdered(qs)
  <2> SUFFICES ASSUME NEW m \in 1..Len(qs), NEW n \in 1..Len(qs), m < n,
                      qs[m].file = qs[n].file
               PROVE  /\ qs[n].at \in {"os", "disk"} => qs[m].at \in {"os", "disk"}
                      /\ qs[n].at = "disk" => qs[m].at = "disk"
    BY DEF FileOrdered
  <2>1. m \in 1..Len(rows) /\ qs[m] = ps[m]
    BY <1>1, <1>2
  <2>2. CASE n = Len(rows) + 1 /\ qs[n] = row
    BY <1>4, <2>2
  <2>3. CASE n \in 1..Len(rows) /\ qs[n] = ps[n]
    BY <1>2, <1>3, <2>1, <2>3 DEF Filing, FileOrdered
  <2> QED
    BY <1>5, <2>2, <2>3
<1>7. \A n \in 1..Len(qs) :
        /\ qs[n].file <= cur
        /\ qs[n].at = "buffer" => qs[n].file = cur
        /\ qs[n].at = "lost" => qs[n].file # cur
  BY <1>2, <1>3, <1>4, <1>5 DEF Filing
<1> QED
  BY <1>6, <1>7 DEF Filing, qs

LEMMA WriteRowHoleInv ==
  ASSUME TypeOK, HoleInv, NEW size \in Sizes, WriteRow(size)
  PROVE  HoleInv'
<1> SUFFICES ASSUME fault' \cap {"room", "header"} = {} PROVE HoleInv'
  BY DEF HoleInv
<1>0. PICK spill \in Cuts(rows) : \E t \in TimerOutcomes(Buffering(size, spill)) :
        rows' = t.rows /\ fault' = fault \cup t.failed
  BY WriteRowDoes
<1> DEFINE qs == Buffering(size, spill)
<1>1. PICK t \in TimerOutcomes(qs) : rows' = t.rows /\ fault' = fault \cup t.failed
  BY <1>0
<1>2. fault \cap {"room", "header"} = {} /\ "room" \notin t.failed
  BY <1>1
<1>3. mode = "run" /\ fh /\ cur = files - 1 /\ Filing(rows, cur)
  BY <1>2 DEF WriteRow, Ready, HoleInv
<1>4. qs \in Seq(Row) /\ Filing(qs, cur)
  BY <1>3, BufferingFacts, BufferingFiling
<1> HIDE DEF qs
<1>5. Filing(rows', cur)
  BY <1>1, <1>2, <1>4, TimerOutcomesFiling
<1>6. cur' = cur /\ files' = files
  BY DEF WriteRow
<1>7. fh' /\ step' # "open"
  BY DEF WriteRow
<1> QED
  BY <1>3, <1>5, <1>6, <1>7 DEF HoleInv, Filing

LEMMA RotateCloseHoleInv ==
  ASSUME TypeOK, HoleInv, RotateClose
  PROVE  HoleInv'
<1> SUFFICES ASSUME fault' \cap {"room", "header"} = {} PROVE HoleInv'
  BY DEF HoleInv
<1>1. PICK c \in CloseOutcomes(rows) : rows' = c.rows /\ fault' = fault \cup c.failed
  BY DEF RotateClose
<1>2. fault \cap {"room", "header"} = {} /\ "room" \notin c.failed
  BY <1>1
<1>3. /\ step = "close" /\ mode = "run" /\ fh' = FALSE /\ step' = "open"
      /\ cur' = cur /\ files' = files
  BY DEF RotateClose
<1>4. cur = files - 1 /\ Filing(rows, cur)
  BY <1>2, <1>3 DEF HoleInv
<1>5. /\ FileOrdered(rows')
      /\ \A n \in 1..Len(rows') : rows'[n].file <= cur /\ rows'[n].at # "buffer"
  BY <1>1, <1>2, <1>4, CloseOutcomesFiling DEF TypeOK
<1> QED
  BY <1>3, <1>4, <1>5 DEF HoleInv, Rows

LEMMA RotateOpenHoleInv ==
  ASSUME TypeOK, HoleInv, RotateOpen
  PROVE  HoleInv'
<1> SUFFICES ASSUME fault' \cap {"room", "header"} = {} PROVE HoleInv'
  BY DEF HoleInv
<1>1. PICK o \in OpenOutcomes :
        /\ rows' = o.rows /\ fh' = o.fh /\ cur' = o.cur /\ files' = o.files
        /\ fault' = fault \cup o.failed
  BY DEF RotateOpen
<1>2. fault \cap {"room", "header"} = {} /\ "header" \notin o.failed
  BY <1>1
<1>3. /\ mode = "run" /\ step = "open" /\ step' = "ready"
      /\ files \in Nat /\ cur \in Nat
      /\ \A n \in 1..Len(rows) : rows[n].file \in Nat
  <2>1. \A n \in 1..Len(rows) : rows[n] \in Row
    BY DEF TypeOK
  <2> QED
    BY <2>1 DEF RotateOpen, TypeOK, Row
<1>4. /\ FileOrdered(rows) /\ cur = files - 1
      /\ \A n \in 1..Len(rows) : rows[n].file <= cur /\ rows[n].at # "buffer"
  BY <1>2, <1>3 DEF HoleInv, Rows
<1>5. CASE o.rows = rows /\ o.fh = FALSE
  BY <1>1, <1>3, <1>4, <1>5 DEF HoleInv
<1>6. CASE o.rows = Truncated(rows, files) /\ o.cur = files /\ o.files = files + 1
  <2>1. \A n \in 1..Len(rows) : rows[n].file # files /\ rows[n].file <= files
    <3>1. \A f \in Nat : f <= cur => f # files /\ f <= files
      BY <1>3, <1>4
    <3> QED
      BY <1>3, <1>4, <3>1
  <2>2. /\ Len(rows') = Len(rows)
        /\ \A n \in 1..Len(rows) :
             rows'[n].file = rows[n].file /\ rows'[n].at = rows[n].at
    BY <1>1, <1>6, <2>1, TruncatedFacts DEF SameRows, TypeOK
  <2>3. FileOrdered(rows')
    BY <1>4, <2>2 DEF FileOrdered
  <2>4. Filing(rows', files)
    BY <1>4, <2>1, <2>2, <2>3 DEF Filing
  <2>5. files = (files + 1) - 1
    BY <1>3
  <2> QED
    BY <1>1, <1>3, <1>6, <2>3, <2>4, <2>5 DEF HoleInv
<1> QED
  BY <1>2, <1>5, <1>6, OpenOutcomesAre

LEMMA NextHoleInv ==
  ASSUME TypeOK, HoleInv, [Next]_vars
  PROVE  HoleInv'
<1>1. ASSUME NEW size \in Sizes, WriteRow(size)
      PROVE  HoleInv'
  BY <1>1, WriteRowHoleInv
<1>2. CASE WriteRowRaises
  <2>1. "room" \in fault'
    BY <1>2 DEF WriteRowRaises
  <2> QED
    BY <2>1 DEF HoleInv
<1>9. CASE RotateClose
  BY <1>9, RotateCloseHoleInv
<1>10. CASE RotateOpen
  BY <1>10, RotateOpenHoleInv
<1>3. CASE Flush
  <2> SUFFICES ASSUME fault' \cap {"room", "header"} = {} PROVE HoleInv'
    BY DEF HoleInv
  <2>1. PICK o \in FlushOutcomes(rows) :
          rows' = o.rows /\ fault' = fault \cup o.failed
    BY <1>3 DEF Flush
  <2>2. cur = files - 1 /\ Filing(rows, cur)
    BY <1>3, <2>1 DEF Flush, Ready, HoleInv
  <2>3. Filing(rows', cur)
    BY <2>1, <2>2, FlushOutcomesFiling DEF TypeOK
  <2>4. cur' = cur /\ files' = files
    BY <1>3 DEF Flush
  <2> QED
    BY <1>3, <2>2, <2>3, <2>4 DEF HoleInv, Filing, Flush, Ready
<1>4. CASE Close
  <2> SUFFICES ASSUME fault' \cap {"room", "header"} = {} PROVE HoleInv'
    BY DEF HoleInv
  <2>1. fh' = FALSE /\ mode = "run" /\ mode' = "closed"
    BY <1>4 DEF Close, Ready
  <2>2. CASE fh
    <3>1. PICK c \in CloseOutcomes(rows) :
            rows' = c.rows /\ fault' = fault \cup c.failed
      BY <1>4, <2>2 DEF Close
    <3>2. Filing(rows, cur)
      BY <2>1, <2>2, <3>1 DEF HoleInv
    <3>3. "room" \notin c.failed
      BY <3>1
    <3>4. FileOrdered(rows')
      BY <3>1, <3>2, <3>3, CloseOutcomesFiling DEF TypeOK
    <3> QED
      BY <2>1, <3>4 DEF HoleInv
  <2>3. CASE ~fh
    BY <1>4, <2>1, <2>3 DEF Close, HoleInv
  <2> QED
    BY <2>2, <2>3
<1>5. CASE Kill
  BY <1>5, DiscardedFileOrdered DEF Kill, HoleInv, TypeOK
<1>6. CASE PowerCut
  <2> SUFFICES ASSUME fault' \cap {"room", "header"} = {} PROVE HoleInv'
    BY DEF HoleInv
  <2>1. PICK kept \in SUBSET At(rows, "os") :
          /\ \A m \in At(rows, "os"), n \in kept :
               rows[m].file = rows[n].file /\ m < n => m \in kept
          /\ rows' = Moved(Moved(rows, kept, "disk"),
                           {n \in DOMAIN rows : rows[n].at # "disk"} \ kept,
                           "lost")
    BY <1>6 DEF PowerCut
  <2> DEFINE ds == Moved(rows, kept, "disk")
             G == {n \in DOMAIN rows : rows[n].at # "disk"} \ kept
  <2>2. FileOrdered(rows) /\ fh' = FALSE
    BY <1>6 DEF PowerCut, HoleInv
  <2>3. /\ ds \in Seq(Row) /\ Len(ds) = Len(rows)
        /\ \A n \in 1..Len(rows) :
             /\ ds[n].file = rows[n].file
             /\ n \in kept => ds[n].at = "disk"
             /\ n \notin kept => ds[n].at = rows[n].at
    BY MovedFacts DEF TypeOK, Places
  <2>4. rows' = Moved(ds, G, "lost") /\ "lost" \in Places
    BY <2>1 DEF Places
  <2>5. /\ DOMAIN rows = 1..Len(rows)
        /\ \A n \in 1..Len(rows) : n \in G <=> rows[n].at # "disk" /\ n \notin kept
        /\ \A n \in kept : n \in 1..Len(rows) /\ rows[n].at = "os"
    BY DEF At, TypeOK
  <2> HIDE DEF ds, G
  <2>6. /\ Len(rows') = Len(ds)
        /\ \A n \in 1..Len(ds) :
             /\ rows'[n].file = ds[n].file
             /\ n \in G => rows'[n].at = "lost"
             /\ n \notin G => rows'[n].at = ds[n].at
    BY <2>3, <2>4, MovedFacts
  <2>7. \A n \in 1..Len(rows) :
          /\ rows'[n].file = rows[n].file
          /\ rows'[n].at = IF rows[n].at = "disk" \/ n \in kept
                           THEN "disk" ELSE "lost"
    BY <2>3, <2>5, <2>6
  <2>8. ASSUME NEW m \in 1..Len(rows), NEW n \in 1..Len(rows), m < n,
               rows[m].file = rows[n].file, rows[n].at = "disk" \/ n \in kept
        PROVE  rows[m].at = "disk" \/ m \in kept
    <3>1. CASE rows[n].at = "disk"
      BY <2>2, <2>8, <3>1 DEF FileOrdered
    <3>2. CASE n \in kept
      <4>1. rows[m].at \in {"os", "disk"}
        BY <2>2, <2>5, <2>8, <3>2 DEF FileOrdered
      <4>2. rows[m].at = "os" => m \in At(rows, "os")
        BY <2>5 DEF At
      <4> QED
        BY <2>1, <2>8, <3>2, <4>1, <4>2
    <3> QED
      BY <2>8, <3>1, <3>2
  <2>9. FileOrdered(rows')
    <3>1. Len(rows') = Len(rows)
      BY <2>3, <2>6
    <3> SUFFICES ASSUME NEW m \in 1..Len(rows), NEW n \in 1..Len(rows), m < n,
                        rows'[m].file = rows'[n].file
                 PROVE  /\ rows'[n].at \in {"os", "disk"} =>
                             rows'[m].at \in {"os", "disk"}
                        /\ rows'[n].at = "disk" => rows'[m].at = "disk"
      BY <3>1 DEF FileOrdered
    <3> QED
      BY <2>7, <2>8
  <2> QED
    BY <1>6, <2>2, <2>9 DEF HoleInv, PowerCut
<1>7. CASE Tick
  BY <1>7 DEF Tick, HoleInv, Rows
<1>8. CASE UNCHANGED vars
  BY <1>8 DEF vars, HoleInv, Rows
<1> QED
  BY <1>1, <1>2, <1>3, <1>4, <1>5, <1>6, <1>7, <1>8, <1>9, <1>10 DEF Next

\* As long as only open, fsync and flushes that had room fail, a file holds a beginning of the
\* rows _write_row put into it: a flush that stops half way is taken up where
\* it stopped, and a crash cuts only the end (_maybe_flush, flush, close).
THEOREM WriterFileHasNoHoles == Spec => []FileHasNoHoles
<1>1. Init => HoleInv
  BY ConstantsAssumption
     DEF Init, HoleInv, Filing, FileOrdered, ConstantsAssumption
<1>2. TypeOK /\ HoleInv /\ [Next]_vars => HoleInv'
  BY NextHoleInv
<1> QED
  BY <1>1, <1>2, HoleInvImplies, WriterTypeOK, PTL DEF Spec


-------------------------------------------------------------------------------
(***************************************************************************)
(* Rotation.  The counter _bytes decides on it, and the file is never      *)
(* looked at: that the two agree needs the length of a file, a recursion   *)
(* over the rows, to be followed through the step that writes one.         *)
(***************************************************************************)

LEMMA NatSetInduction ==
  ASSUME NEW P, 0 \in P, \A n \in Nat : n \in P => n + 1 \in P
  PROVE  Nat \subseteq P
<1> SUFFICES ASSUME Nat \ P # {} PROVE FALSE
  OBVIOUS
<1>1. \E n \in Nat \ P : \A m \in Nat \ P : ~(<<m, n>> \in OpToRel(<, Nat))
  BY NatLessThanWellFounded, WFMin, Zenon
<1>2. \A m, n \in Nat : m < n => <<m, n>> \in OpToRel(<, Nat)
  BY DEF OpToRel
<1>3. PICK n \in Nat \ P : \A m \in Nat \ P : ~(m < n)
  BY <1>1, <1>2, Zenon
<1>4. n - 1 \in Nat /\ n - 1 < n
  BY <1>3
<1> QED
  BY <1>3, <1>4

\* The recursion behind LengthOf, up to row k, and that a function satisfies it.
UpTo(up, k, rs, f) ==
  up = [n \in 0..k |->
          IF n = 0 THEN HeaderBytes
          ELSE IF rs[n].file = f THEN up[n - 1] + rs[n].size
          ELSE up[n - 1]]

LEMMA UpToExists ==
  ASSUME NEW rs \in Seq(Row), NEW f
  PROVE  \E up \in [0..Len(rs) -> Nat] : UpTo(up, Len(rs), rs, f)
<1> DEFINE P == {k \in Nat : k <= Len(rs) =>
                   \E up \in [0..k -> Nat] : UpTo(up, k, rs, f)}
<1>1. Len(rs) \in Nat /\ HeaderBytes \in Nat
  BY ConstantsAssumption DEF ConstantsAssumption
<1>2. \A n \in 1..Len(rs) : rs[n].size \in Nat
  <2>1. \A n \in 1..Len(rs) : rs[n] \in Row
    OBVIOUS
  <2> QED
    BY <2>1, SizesAreNat DEF Row
<1>3. 0 \in P
  <2> DEFINE up == [n \in 0..0 |-> HeaderBytes]
  <2>1. up \in [0..0 -> Nat]
    BY <1>1
  <2>2. up = [n \in 0..0 |-> IF n = 0 THEN HeaderBytes
                             ELSE IF rs[n].file = f THEN up[n - 1] + rs[n].size
                             ELSE up[n - 1]]
    OBVIOUS
  <2> QED
    BY <2>1, <2>2 DEF UpTo
<1>4. ASSUME NEW k \in Nat, k \in P
      PROVE  k + 1 \in P
  <2> SUFFICES ASSUME k + 1 <= Len(rs)
               PROVE  \E up \in [0..k + 1 -> Nat] : UpTo(up, k + 1, rs, f)
    OBVIOUS
  <2>0. k <= Len(rs) /\ k + 1 \in 1..Len(rs)
    BY <1>1
  <2>1. PICK u \in [0..k -> Nat] : UpTo(u, k, rs, f)
    BY <1>4, <2>0
  <2> DEFINE new == IF rs[k + 1].file = f THEN u[k] + rs[k + 1].size ELSE u[k]
             up == [n \in 0..k + 1 |-> IF n <= k THEN u[n] ELSE new]
  <2>2. u[k] \in Nat /\ rs[k + 1].size \in Nat
    BY <1>2, <2>0, <2>1
  <2>3. new \in Nat
    BY <2>2
  <2> HIDE DEF new
  <2>4. \A n \in 0..k : up[n] = u[n] /\ u[n] \in Nat
    BY <2>1
  <2>5. up[k + 1] = new
    OBVIOUS
  <2>6. up \in [0..k + 1 -> Nat]
    BY <2>3, <2>4
  <2>7. ASSUME NEW n \in 0..k + 1
        PROVE  up[n] = IF n = 0 THEN HeaderBytes
                       ELSE IF rs[n].file = f THEN up[n - 1] + rs[n].size
                       ELSE up[n - 1]
    <3>1. CASE n <= k
      <4>1. n \in 0..k /\ (n # 0 => n - 1 \in 0..k)
        BY <3>1
      <4>2. u[n] = IF n = 0 THEN HeaderBytes
                   ELSE IF rs[n].file = f THEN u[n - 1] + rs[n].size
                   ELSE u[n - 1]
        BY <2>1, <4>1 DEF UpTo
      <4> HIDE DEF up
      <4> QED
        BY <2>4, <4>1, <4>2
    <3>2. CASE n = k + 1
      <4>1. n # 0 /\ n - 1 = k /\ k \in 0..k
        BY <3>2
      <4>2. up[n - 1] = u[k]
        BY <2>4, <4>1
      <4> HIDE DEF up
      <4> QED
        BY <2>5, <3>2, <4>1, <4>2 DEF new
    <3> QED
      BY <3>1, <3>2
  <2>8. UpTo(up, k + 1, rs, f)
    BY <2>7 DEF UpTo
  <2> HIDE DEF up
  <2> QED
    BY <2>6, <2>8
<1>5. Len(rs) \in P
  <2> HIDE DEF P
  <2> QED
    BY <1>1, <1>3, <1>4, NatSetInduction
<1> QED
  BY <1>5

\* Two lists of rows that put the same into a file up to row k make it as long.
LEMMA UpToAgree ==
  ASSUME NEW u, NEW v, NEW i \in Nat, NEW j \in Nat, NEW rs, NEW qs, NEW f,
         UpTo(u, i, rs, f), UpTo(v, j, qs, f), NEW k \in Nat, k <= i, k <= j,
         \A n \in 1..k : rs[n].file = qs[n].file /\ rs[n].size = qs[n].size
  PROVE  u[k] = v[k]
<1> DEFINE P == {n \in Nat : n <= k => u[n] = v[n]}
<1>1. 0 \in P
  BY DEF UpTo
<1>2. ASSUME NEW n \in Nat, n \in P
      PROVE  n + 1 \in P
  <2> SUFFICES ASSUME n + 1 <= k
               PROVE  u[n + 1] = v[n + 1]
    OBVIOUS
  <2>1. /\ n + 1 \in 0..i /\ n + 1 \in 0..j /\ n + 1 \in 1..k
        /\ n + 1 # 0 /\ (n + 1) - 1 = n
    OBVIOUS
  <2>2. u[n] = v[n]
    BY <1>2
  <2>3. u[n + 1] = IF rs[n + 1].file = f THEN u[n] + rs[n + 1].size ELSE u[n]
    BY <2>1 DEF UpTo
  <2>4. v[n + 1] = IF qs[n + 1].file = f THEN v[n] + qs[n + 1].size ELSE v[n]
    BY <2>1 DEF UpTo
  <2> QED
    BY <2>1, <2>2, <2>3, <2>4
<1>3. k \in P
  <2> HIDE DEF P
  <2> QED
    BY <1>1, <1>2, NatSetInduction
<1> QED
  BY <1>3

LEMMA LengthIs ==
  ASSUME NEW rs \in Seq(Row), NEW f
  PROVE  \E up \in [0..Len(rs) -> Nat] :
           UpTo(up, Len(rs), rs, f) /\ LengthOf(rs, f) = up[Len(rs)]
<1> DEFINE up == CHOOSE u : UpTo(u, Len(rs), rs, f)
<1>1. PICK w \in [0..Len(rs) -> Nat] : UpTo(w, Len(rs), rs, f)
  BY UpToExists
<1>2. UpTo(up, Len(rs), rs, f)
  BY <1>1
<1>3. LengthOf(rs, f) = up[Len(rs)]
  BY DEF LengthOf, UpTo
<1> HIDE DEF up
<1>4. \A n \in 0..Len(rs) : up[n] = w[n]
  <2> TAKE n \in 0..Len(rs)
  <2>1. n \in Nat /\ n <= Len(rs) /\ Len(rs) \in Nat
    OBVIOUS
  <2> QED
    BY <1>1, <1>2, <2>1, UpToAgree
<1>5. up \in [0..Len(rs) -> Nat]
  <2>1. up = [n \in 0..Len(rs) |-> up[n]]
    BY <1>2 DEF UpTo
  <2> QED
    BY <1>1, <1>4, <2>1
<1> QED
  BY <1>2, <1>3, <1>5

\* qs are the rows rs, wherever they are, and one more, of file f.
Adds(rs, qs, f, size) ==
  /\ qs \in Seq(Row) /\ Len(qs) = Len(rs) + 1
  /\ \A n \in 1..Len(rs) :
       qs[n].file = rs[n].file /\ qs[n].size = rs[n].size
  /\ qs[Len(rs) + 1].file = f /\ qs[Len(rs) + 1].size = size

LEMMA LengthGrows ==
  ASSUME NEW rs \in Seq(Row), NEW qs, NEW f, NEW size, Adds(rs, qs, f, size)
  PROVE  /\ LengthOf(qs, f) = LengthOf(rs, f) + size
         /\ \A g : g # f => LengthOf(qs, g) = LengthOf(rs, g)
<1> DEFINE k == Len(rs)
<1>1. /\ k \in Nat /\ k + 1 \in 0..k + 1 /\ k + 1 # 0 /\ (k + 1) - 1 = k
      /\ k <= k /\ k <= k + 1 /\ k + 1 \in Nat
  OBVIOUS
<1>2. qs \in Seq(Row) /\ Len(qs) = k + 1
  BY DEF Adds
<1>3. \A n \in 1..k : rs[n].file = qs[n].file /\ rs[n].size = qs[n].size
  BY DEF Adds
<1>4. ASSUME NEW g
      PROVE  LengthOf(qs, g) = IF g = f THEN LengthOf(rs, g) + size
                               ELSE LengthOf(rs, g)
  <2>1. PICK u : UpTo(u, k, rs, g) /\ LengthOf(rs, g) = u[k]
    BY LengthIs
  <2>2. PICK v : UpTo(v, k + 1, qs, g) /\ LengthOf(qs, g) = v[k + 1]
    BY <1>2, LengthIs
  <2>3. u[k] = v[k]
    <3> HIDE DEF k
    <3> QED
      BY <1>1, <1>3, <2>1, <2>2, UpToAgree
  <2>4. v[k + 1] = IF qs[k + 1].file = g THEN v[k] + qs[k + 1].size ELSE v[k]
    <3> HIDE DEF k
    <3> QED
      BY <1>1, <2>2 DEF UpTo
  <2> QED
    BY <2>1, <2>2, <2>3, <2>4 DEF Adds
<1> QED
  BY <1>4

\* Where the rows are does not matter to the lengths.
LEMMA LengthKept ==
  ASSUME NEW rs \in Seq(Row), NEW qs, SameRows(rs, qs), NEW f
  PROVE  LengthOf(qs, f) = LengthOf(rs, f)
<1> DEFINE k == Len(rs)
<1>1. k \in Nat /\ k <= k
  OBVIOUS
<1>2. /\ qs \in Seq(Row) /\ Len(qs) = k
      /\ \A n \in 1..k : rs[n].file = qs[n].file /\ rs[n].size = qs[n].size
  BY DEF SameRows
<1>3. PICK u : UpTo(u, k, rs, f) /\ LengthOf(rs, f) = u[k]
  BY LengthIs
<1>4. PICK v : UpTo(v, k, qs, f) /\ LengthOf(qs, f) = v[k]
  BY <1>2, LengthIs
<1>5. u[k] = v[k]
  <2> HIDE DEF k
  <2> QED
    BY <1>1, <1>2, <1>3, <1>4, UpToAgree
<1> QED
  BY <1>3, <1>4, <1>5

\* A file without rows is its header.
LEMMA LengthEmpty ==
  ASSUME NEW rs \in Seq(Row), NEW f, \A n \in 1..Len(rs) : rs[n].file # f
  PROVE  LengthOf(rs, f) = HeaderBytes
<1> DEFINE k == Len(rs)
<1>1. PICK u : UpTo(u, k, rs, f) /\ LengthOf(rs, f) = u[k]
  BY LengthIs
<1>2. k \in Nat /\ \A n \in 1..k : rs[n].file # f
  OBVIOUS
<1> HIDE DEF k
<1> DEFINE P == {n \in Nat : n <= k => u[n] = HeaderBytes}
<1>3. 0 \in P
  BY <1>1, <1>2 DEF UpTo
<1>4. ASSUME NEW n \in Nat, n \in P
      PROVE  n + 1 \in P
  <2> SUFFICES ASSUME n + 1 <= k
               PROVE  u[n + 1] = HeaderBytes
    OBVIOUS
  <2>1. n + 1 \in 0..k /\ n + 1 \in 1..k /\ n + 1 # 0 /\ (n + 1) - 1 = n /\ n <= k
    BY <1>2
  <2>2. u[n + 1] = u[n]
    BY <1>1, <1>2, <2>1 DEF UpTo
  <2> QED
    BY <1>4, <2>1, <2>2
<1>5. k \in P
  <2> HIDE DEF P
  <2> QED
    BY <1>2, <1>3, <1>4, NatSetInduction
<1> QED
  BY <1>1, <1>5

\* A file that is done: it has reached the limit, and not before its last row.
Finished(rs, f) ==
  /\ MaxBytes <= LengthOf(rs, f)
  /\ \E n \in 1..Len(rs) :
       LastOf(rs, f, n) /\ LengthOf(rs, f) - rs[n].size < MaxBytes

\* FileLengths, with what a rotation in progress knows of the file it closes.
LengthInv ==
  fault = {} /\ mode = "run" =>
    /\ bytes = LengthOf(rows, cur)
    /\ step = "ready" => bytes < MaxBytes
    /\ step # "ready" => Finished(rows, cur)
    /\ \A f \in 0..files - 2 : Finished(rows, f)

LEMMA LengthInvImplies == LengthInv => FileLengths
BY DEF LengthInv, FileLengths, Finished, Rows

LEMMA FinishedKept ==
  ASSUME NEW rs \in Seq(Row), NEW qs, SameRows(rs, qs), NEW f, Finished(rs, f)
  PROVE  Finished(qs, f)
<1>1. LengthOf(qs, f) = LengthOf(rs, f)
  BY LengthKept
<1>2. PICK n \in 1..Len(rs) :
        LastOf(rs, f, n) /\ LengthOf(rs, f) - rs[n].size < MaxBytes
  BY DEF Finished
<1>3. n \in 1..Len(qs) /\ qs[n].size = rs[n].size /\ LastOf(qs, f, n)
  BY <1>2 DEF SameRows, LastOf
<1> QED
  BY <1>1, <1>2, <1>3 DEF Finished

\* A row of another file leaves a finished file as it is.
LEMMA FinishedStays ==
  ASSUME NEW rs \in Seq(Row), NEW qs, NEW f, NEW size, Adds(rs, qs, f, size),
         NEW g, g # f, Finished(rs, g)
  PROVE  Finished(qs, g)
<1>1. LengthOf(qs, g) = LengthOf(rs, g)
  BY LengthGrows
<1>2. PICK n \in 1..Len(rs) :
        LastOf(rs, g, n) /\ LengthOf(rs, g) - rs[n].size < MaxBytes
  BY DEF Finished
<1>3. /\ Len(rs) \in Nat /\ Len(qs) = Len(rs) + 1 /\ qs[Len(rs) + 1].file = f
      /\ \A m \in 1..Len(rs) : qs[m].file = rs[m].file /\ qs[m].size = rs[m].size
  BY DEF Adds
<1>4. n \in 1..Len(qs) /\ qs[n].size = rs[n].size /\ qs[n].file = g
  BY <1>2, <1>3 DEF LastOf
<1>5. ASSUME NEW m \in 1..Len(qs), qs[m].file = g
      PROVE  m <= n
  <2>1. m \in 1..Len(rs) \/ m = Len(rs) + 1
    BY <1>3
  <2>2. m # Len(rs) + 1
    BY <1>3, <1>5
  <2> QED
    BY <1>2, <1>3, <1>5, <2>1, <2>2 DEF LastOf
<1> QED
  BY <1>1, <1>2, <1>4, <1>5 DEF Finished, LastOf

\* The row that reaches the limit finishes its file.
LEMMA FinishedNow ==
  ASSUME NEW rs \in Seq(Row), NEW qs, NEW f, NEW size \in Nat, Adds(rs, qs, f, size),
         NEW length \in Nat, LengthOf(rs, f) = length,
         length < MaxBytes, MaxBytes <= length + size
  PROVE  Finished(qs, f)
<1> DEFINE n == Len(rs) + 1
<1>1. /\ n \in 1..Len(qs) /\ qs[n].file = f /\ qs[n].size = size
      /\ \A m \in 1..Len(qs) : m <= n
  BY DEF Adds
<1>2. LengthOf(qs, f) = length + size
  BY LengthGrows
<1>3. (length + size) - size = length
  OBVIOUS
<1>4. LastOf(qs, f, n)
  BY <1>1 DEF LastOf
<1>5. MaxBytes <= LengthOf(qs, f) /\ LengthOf(qs, f) - qs[n].size < MaxBytes
  BY <1>1, <1>2, <1>3
<1> HIDE DEF n
<1> QED
  BY <1>1, <1>4, <1>5 DEF Finished

\* What a row does to the rows, whatever fails.
LEMMA WriteRowAdds ==
  ASSUME TypeOK, NEW size \in Sizes, WriteRow(size)
  PROVE  Adds(rows, rows', cur, size)
<1>0. PICK spill \in Cuts(rows) : \E t \in TimerOutcomes(Buffering(size, spill)) :
        rows' = t.rows
  BY WriteRowDoes
<1> DEFINE qs == Buffering(size, spill)
<1>1. PICK t \in TimerOutcomes(qs) : rows' = t.rows
  BY <1>0
<1>2. Adds(rows, qs, cur, size)
  <2>1. /\ qs \in Seq(Row) /\ Len(qs) = Len(rows) + 1
        /\ \A n \in 1..Len(rows) : qs[n] = PartFlushed(rows, spill)[n]
        /\ qs[Len(rows) + 1] =
             [file |-> cur, size |-> size, stamp |-> now, at |-> "buffer"]
    BY BufferingFacts
  <2>2. SameRows(rows, PartFlushed(rows, spill))
    BY PartFlushedFacts DEF TypeOK
  <2> HIDE DEF qs
  <2>3. qs[Len(rows) + 1].file = cur /\ qs[Len(rows) + 1].size = size
    BY <2>1
  <2> QED
    BY <2>1, <2>2, <2>3 DEF Adds, SameRows
<1> HIDE DEF qs
<1>3. SameRows(qs, rows')
  BY <1>1, <1>2, TimerOutcomesFacts DEF Adds
<1>4. Len(rows) \in Nat /\ Len(rows) + 1 \in 1..Len(rows) + 1
      /\ \A n \in 1..Len(rows) : n \in 1..Len(rows) + 1
  BY DEF TypeOK
<1> QED
  BY <1>2, <1>3, <1>4 DEF Adds, SameRows

LEMMA WriteRowLengthInv ==
  ASSUME TypeOK, TypeOK', CrashInv, LengthInv, NEW size \in Sizes, WriteRow(size)
  PROVE  LengthInv'
<1> SUFFICES ASSUME fault' = {} PROVE LengthInv'
  BY DEF LengthInv
<1>1. mode = "run" /\ step = "ready" /\ fault = {}
  <2>1. fault \subseteq fault'
    BY WriteRowDoes
  <2> QED
    BY <2>1 DEF WriteRow, Ready
<1>2. /\ cur = files - 1 /\ cur \in Nat /\ files \in Nat
      /\ rows \in Seq(Row) /\ bytes \in Nat /\ size \in Nat
  BY <1>1, SizesAreNat DEF CrashInv, TypeOK
<1>3. /\ bytes = LengthOf(rows, cur) /\ bytes < MaxBytes
      /\ \A f \in 0..files - 2 : Finished(rows, f)
  BY <1>1 DEF LengthInv
<1>4. Adds(rows, rows', cur, size)
  BY WriteRowAdds
<1>5. /\ bytes' = bytes + size /\ cur' = cur /\ files' = files
      /\ step' = IF bytes' >= MaxBytes THEN "close" ELSE "ready"
  BY DEF WriteRow
<1>6. bytes' = LengthOf(rows', cur)
  BY <1>2, <1>3, <1>4, <1>5, LengthGrows
<1>7. \A f \in 0..files - 2 : Finished(rows', f)
  <2>1. \A f \in 0..files - 2 : f # cur
    BY <1>2
  <2> QED
    BY <1>2, <1>3, <1>4, <2>1, FinishedStays
<1>8. bytes' >= MaxBytes => Finished(rows', cur)
  <2>1. bytes' >= MaxBytes => MaxBytes <= bytes + size
    BY <1>2, <1>5, ConstantsAssumption DEF ConstantsAssumption
  <2> QED
    BY <1>2, <1>3, <1>4, <2>1, FinishedNow
<1>9. step' = "ready" => bytes' < MaxBytes
  BY <1>2, <1>5, ConstantsAssumption DEF ConstantsAssumption
<1>10. step' # "ready" => bytes' >= MaxBytes
  BY <1>5
<1> QED
  BY <1>5, <1>6, <1>7, <1>8, <1>9, <1>10 DEF LengthInv

\* Rows that only move leave the lengths as they are.
LEMMA MoveLengthInv ==
  ASSUME TypeOK, LengthInv, SameRows(rows, rows'), fault' = {} => fault = {},
         mode = "run", bytes' = bytes, cur' = cur, files' = files,
         step' = step \/ (step # "ready" /\ step' # "ready")
  PROVE  LengthInv'
<1> SUFFICES ASSUME fault' = {} PROVE LengthInv'
  BY DEF LengthInv
<1>1. rows \in Seq(Row)
  BY DEF TypeOK
<1>2. \A f : LengthOf(rows', f) = LengthOf(rows, f)
  BY <1>1, LengthKept
<1>3. \A f : Finished(rows, f) => Finished(rows', f)
  BY <1>1, FinishedKept
<1> QED
  BY <1>2, <1>3 DEF LengthInv

LEMMA RotateOpenLengthInv ==
  ASSUME TypeOK, TypeOK', CrashInv, LengthInv, RotateOpen
  PROVE  LengthInv'
<1> SUFFICES ASSUME fault' = {} PROVE LengthInv'
  BY DEF LengthInv
<1>1. PICK o \in OpenOutcomes :
        /\ rows' = o.rows /\ cur' = o.cur /\ files' = o.files /\ bytes' = o.bytes
        /\ fault' = fault \cup o.failed
  BY DEF RotateOpen
<1>2. /\ fault = {} /\ o.failed = {} /\ mode = "run"
      /\ step = "open" /\ step' = "ready"
  BY <1>1 DEF RotateOpen
<1>3. /\ rows' = Truncated(rows, files) /\ cur' = files
      /\ files' = files + 1 /\ bytes' = HeaderBytes
  BY <1>1, <1>2, OpenOutcomesAre
<1>4. SameRows(rows, rows') /\ rows \in Seq(Row) /\ rows' \in Seq(Row)
  BY <1>3, TruncatedFacts DEF TypeOK, SameRows
<1>5. /\ cur = files - 1 /\ files \in Nat /\ cur \in Nat
      /\ \A n \in 1..Len(rows) : rows[n].file \in Nat /\ rows[n].file <= cur
  <2>1. \A n \in 1..Len(rows) : rows[n] \in Row
    BY <1>4
  <2> QED
    BY <1>2, <2>1 DEF CrashInv, Live, Row, TypeOK
<1>6. \A n \in 1..Len(rows') : rows'[n].file # files
  <2>1. \A f \in Nat : f <= cur => f # files
    BY <1>5
  <2> QED
    BY <1>4, <1>5, <2>1 DEF SameRows
<1>7. bytes' = LengthOf(rows', cur')
  BY <1>3, <1>4, <1>6, LengthEmpty
<1>8. \A f \in 0..files' - 2 : f \in 0..files - 2 \/ f = cur
  BY <1>3, <1>5
<1>9. \A f \in 0..files' - 2 : Finished(rows', f)
  <2>1. Finished(rows, cur) /\ \A f \in 0..files - 2 : Finished(rows, f)
    BY <1>2 DEF LengthInv
  <2> QED
    BY <1>4, <1>8, <2>1, FinishedKept
<1>10. bytes' < MaxBytes
  BY <1>3, ConstantsAssumption DEF ConstantsAssumption
<1> QED
  BY <1>2, <1>7, <1>9, <1>10 DEF LengthInv

LEMMA NextLengthInv ==
  ASSUME TypeOK, TypeOK', CrashInv, LengthInv, [Next]_vars
  PROVE  LengthInv'
<1>0. rows \in Seq(Row)
  BY DEF TypeOK
<1>1. ASSUME NEW size \in Sizes, WriteRow(size)
      PROVE  LengthInv'
  BY <1>1, WriteRowLengthInv
<1>2. CASE WriteRowRaises
  <2>1. "room" \in fault'
    BY <1>2 DEF WriteRowRaises
  <2> QED
    BY <2>1 DEF LengthInv
<1>3. CASE RotateClose
  <2>1. SameRows(rows, rows') /\ fault \subseteq fault'
    BY <1>0, <1>3, CloseOutcomesFacts DEF RotateClose
  <2> QED
    BY <1>3, <2>1, MoveLengthInv DEF RotateClose
<1>4. CASE RotateOpen
  BY <1>4, RotateOpenLengthInv
<1>5. CASE Flush
  <2>1. SameRows(rows, rows') /\ fault \subseteq fault'
    BY <1>0, <1>5, FlushOutcomesFacts DEF Flush
  <2>2. /\ mode = "run" /\ bytes' = bytes /\ cur' = cur /\ files' = files
        /\ step' = step
    BY <1>5 DEF Flush, Ready
  <2>3. fault' = {} => fault = {}
    BY <2>1
  <2> QED
    BY <2>1, <2>2, <2>3, MoveLengthInv
<1>6. CASE Close \/ Kill \/ PowerCut
  BY <1>6 DEF Close, Kill, PowerCut, LengthInv
<1>7. CASE Tick
  BY <1>7 DEF Tick, LengthInv
<1>8. CASE UNCHANGED vars
  BY <1>8 DEF vars, LengthInv
<1> QED
  BY <1>1, <1>2, <1>3, <1>4, <1>5, <1>6, <1>7, <1>8 DEF Next

\* While no I/O call fails, _bytes is the length of the file being written, and
\* a file is finished with the row that reaches max_bytes (_write_row,
\* _maybe_rotate, _open_file).
THEOREM WriterFileLengths == Spec => []FileLengths
<1>1. Init => LengthInv
  <2> SUFFICES ASSUME Init PROVE LengthInv
    OBVIOUS
  <2>1. /\ rows \in Seq(Row) /\ Len(rows) = 0 /\ cur = 0 /\ files = 1
        /\ step = "ready" /\ bytes = HeaderBytes
    BY DEF Init
  <2>2. LengthOf(rows, cur) = HeaderBytes
    <3>1. \A n \in 1..Len(rows) : rows[n].file # cur
      BY <2>1
    <3> QED
      BY <2>1, <3>1, LengthEmpty
  <2> QED
    BY <2>1, <2>2, ConstantsAssumption DEF LengthInv, ConstantsAssumption
<1>2. TypeOK /\ TypeOK' /\ CrashInv /\ LengthInv /\ [Next]_vars => LengthInv'
  BY NextLengthInv
<1> QED
  BY <1>1, <1>2, LengthInvImplies, WriterTypeOK, WriterCrashInv, PTL DEF Spec

-------------------------------------------------------------------------------
(* A session implements DurableLog until an I/O call fails. *)

Safe == {n \in Rows : OnDisk(n)}

LEMMA StepRefines ==
  ASSUME fault' = {}, TypeOK, TypeOK', CrashInv', [Next]_vars,
         TakesBack
  PROVE  [Log!Next]_(Log!vars)
<1>0. fault \subseteq fault'
  <2>1. \A size \in Sizes : WriteRow(size) => fault \subseteq fault'
    BY WriteRowDoes
  <2>2. \/ RotateClose \/ RotateOpen \/ WriteRowRaises \/ Flush \/ Close \/ Kill
        \/ PowerCut \/ Tick \/ UNCHANGED vars
        => fault \subseteq fault'
    BY DEF RotateClose, RotateOpen, WriteRowRaises, Flush, Close, Kill, PowerCut,
           Tick, vars
  <2> QED
    BY <2>1, <2>2 DEF Next
<1>1. /\ fault' = {} /\ Len(rows) \in Nat
      /\ \A n \in Rows : OnDisk(n) => rows'[n].at = "disk"
  BY <1>0 DEF TypeOK, TakesBack
\* The durable part only grows, to a beginning of the log.
<1>2. ASSUME Len(rows') >= Len(rows)
      PROVE  Log!Harden
  <2>1. Safe \subseteq Safe'
    <3> SUFFICES ASSUME NEW n \in Rows, OnDisk(n)
                 PROVE  n \in 1..Len(rows') /\ rows'[n].at = "disk"
      BY DEF Safe, Rows, OnDisk
    <3>1. Len(rows') \in Nat
      BY DEF TypeOK
    <3> QED
      BY <1>1, <1>2, <3>1 DEF Rows
  <2>2. Safe' \subseteq 1..Len(rows')
    BY DEF Safe, Rows
  <2>3. \A m, n \in 1..Len(rows') : n \in Safe' /\ m < n => m \in Safe'
    BY <1>1 DEF Safe, CrashInv, Ordered, Rows, OnDisk
  <2> QED
    BY <2>1, <2>2, <2>3 DEF Log!Harden, Log!IsBeginning, Safe
<1>3. ASSUME NEW size \in Sizes, WriteRow(size)
      PROVE  Log!Write
  <2>1. Len(rows') = Len(rows) + 1 /\ mode = "run" /\ mode' = "run"
    BY <1>3, WriteRowAdds DEF Adds, WriteRow, Ready
  <2> QED
    BY <1>1, <1>2, <2>1 DEF Log!Write
<1>4. CASE WriteRowRaises
  BY <1>1, <1>4 DEF WriteRowRaises
<1>10. CASE RotateClose
  <2>1. Len(rows') = Len(rows)
    BY <1>10, CloseOutcomesFacts DEF RotateClose, SameRows, TypeOK
  <2> QED
    BY <1>1, <1>2, <1>10, <2>1 DEF RotateClose, Log!Next, Log!Sync
<1>11. CASE RotateOpen
  <2>1. PICK o \in OpenOutcomes : rows' = o.rows
    BY <1>11 DEF RotateOpen
  <2>2. SameRows(rows, rows')
    <3>1. rows' = rows \/ rows' = Truncated(rows, files)
      BY <2>1, OpenOutcomesAre
    <3>2. SameRows(rows, rows) /\ SameRows(rows, Truncated(rows, files))
      BY TruncatedFacts DEF SameRows, TypeOK
    <3> QED
      BY <3>1, <3>2
  <2>3. Len(rows') = Len(rows)
    BY <2>2 DEF SameRows
  <2> QED
    BY <1>1, <1>2, <1>11, <2>3 DEF RotateOpen, Log!Next, Log!Sync
<1>5. CASE Flush
  <2>1. PICK o \in FlushOutcomes(rows) : rows' = o.rows
    BY <1>5 DEF Flush
  <2>2. Len(rows') = Len(rows)
    BY <2>1, FlushOutcomesFacts DEF SameRows, TypeOK
  <2> QED
    BY <1>1, <1>2, <1>5, <2>2 DEF Flush, Ready, Log!Next, Log!Sync
<1>6. CASE Close
  <2>1. Len(rows') = Len(rows)
    BY <1>6, CloseOutcomesFacts DEF SameRows, Close, TypeOK
  <2>2. mode = "run" /\ mode' = "closed"
    BY <1>6 DEF Close, Ready
  <2>3. \A n \in Rows' : OnDisk(n)'
    BY <1>1, <2>2 DEF CrashInv
  <2>4. Safe' = 1..Len(rows)
    BY <2>1, <2>3 DEF Safe, Rows
  <2> QED
    BY <2>1, <2>2, <2>4 DEF Log!Next, Log!Close, Safe
<1>7. CASE Kill
  <2>1. Len(rows') = Len(rows)
    BY <1>7, DiscardedFacts DEF Kill, SameRows, TypeOK
  <2> QED
    BY <1>1, <1>2, <1>7, <2>1 DEF Kill, Log!Next, Log!Crash
<1>8. CASE PowerCut
  <2>1. PICK kept :
          rows' = Moved(Moved(rows, kept, "disk"),
                        {n \in DOMAIN rows : rows[n].at # "disk"} \ kept, "lost")
    BY <1>8 DEF PowerCut
  <2>2. "disk" \in Places /\ "lost" \in Places
    BY DEF Places
  <2>3. /\ Moved(rows, kept, "disk") \in Seq(Row)
        /\ Len(Moved(rows, kept, "disk")) = Len(rows)
    BY <2>2, MovedFacts DEF TypeOK
  <2>4. Len(rows') = Len(rows)
    BY <2>1, <2>2, <2>3, MovedFacts
  <2> QED
    BY <1>1, <1>2, <1>8, <2>4 DEF PowerCut, Log!Next, Log!Crash
<1>9. CASE Tick \/ UNCHANGED vars
  BY <1>9 DEF Tick, vars, Log!vars, Rows, OnDisk
<1> QED
  BY <1>3, <1>4, <1>5, <1>6, <1>7, <1>8, <1>9, <1>10, <1>11 DEF Next, Log!Next

\* Until an I/O call fails, the session keeps the promise of DurableLog.
THEOREM WriterImplementsLog == Spec => LogSpec
<1>1. Init => Log!Init
  BY DEF Init, Log!Init, Rows
<1>2. /\ TypeOK /\ TypeOK' /\ CrashInv' /\ OpenInv /\ [Next]_vars
      => [fault' = {} => [Log!Next]_(Log!vars)]_vars
  BY StepRefines, NextOpenInv
<1>3. Spec => []OpenInv
  <2>1. Init => OpenInv
    BY ConstantsAssumption DEF Init, OpenInv, Rows, ConstantsAssumption
  <2>2. TypeOK /\ TypeOK' /\ OpenInv /\ [Next]_vars => OpenInv'
    BY NextOpenInv
  <2> QED
    BY <2>1, <2>2, WriterTypeOK, PTL DEF Spec
<1> QED
  BY <1>1, <1>2, <1>3, WriterTypeOK, WriterCrashInv, PTL DEF Spec, LogSpec
===============================================================================
