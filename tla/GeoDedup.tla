-------------------------------- MODULE GeoDedup --------------------------------
(***************************************************************************)
(* The gate in front of the CSV (Session._gate and GeoDedup): a sighting   *)
(* is refused without a fix, and when it adds nothing to the latest row of *)
(* its device.  The table of latest rows is bounded: when it is full, a    *)
(* new device first drives out entries that are stale, or the oldest       *)
(* quarter.                                                                *)
(*                                                                         *)
(* Environment: the car drives on (one coordinate stands for the           *)
(* position), and observations come in with times up to Lag old, so not in *)
(* the order of their times.                                               *)
(***************************************************************************)
EXTENDS Integers, FiniteSets, Functions

CONSTANTS
  Keys,          \* the devices around, each a kind and a MAC
  Rssis,         \* the signal strengths a device is heard with
  Ttl,           \* ttl_s
  MinMove,       \* min_move_m
  RssiDelta,     \* rssi_delta_db
  MaxEntries,    \* max_entries
  PruneAfter,    \* prune_after_s
  RequireFix,    \* require_fix
  Lag,           \* how old an observation may be when it is drained
  MaxTime,       \* bound: time
  MaxSightings   \* bound: sightings

\* A quarter of fewer than four entries is none, and the table would grow.
ASSUME DedupAssumption ==
  /\ Keys \subseteq Nat \ {0} /\ Rssis \in [Keys -> SUBSET Int]
  /\ Ttl \in Nat /\ MinMove \in Nat /\ RssiDelta \in Nat
  /\ MaxEntries \in Nat /\ MaxEntries >= 4
  /\ Lag \in Nat /\ PruneAfter \in Nat
  /\ RequireFix \in BOOLEAN
  /\ MaxTime \in Nat /\ MaxSightings \in Nat

VARIABLES
  clock,    \* the time
  place,    \* where the car is
  seen,     \* _seen: for each device in the table, its latest row
  rows,     \* rows_written
  skipped,  \* skipped_dedup
  unfixed,  \* skipped_no_fix
  lastRow,  \* history: the latest row of every device written so far
  evicted   \* history: devices out of the table for being among its oldest

gateVars == <<clock, place, seen, rows, skipped, unfixed, lastRow, evicted>>

Entry == [t : Int, at : Nat, rssi : Int]

GateTypes ==
  /\ clock \in Nat /\ place \in Nat
  /\ DOMAIN seen \subseteq Keys /\ \A k \in DOMAIN seen : seen[k] \in Entry
  /\ Cardinality(DOMAIN seen) <= MaxEntries
  /\ {rows, skipped, unfixed} \subseteq Nat
  /\ DOMAIN lastRow \subseteq Keys /\ evicted \subseteq Keys

GateInit ==
  /\ clock = 0 /\ place = 0
  /\ seen = [k \in {} |-> 0] /\ lastRow = seen
  /\ rows = 0 /\ skipped = 0 /\ unfixed = 0
  /\ evicted = {}

-------------------------------------------------------------------------------

Far(a, b) == a - b >= MinMove \/ b - a >= MinMove

\* A sighting s adds something to the row e: from elsewhere, from closer, or after
\* a long time.
Adds(s, e) ==
  \/ Far(s.at, e.at)
  \/ s.rssi - e.rssi >= RssiDelta
  \/ s.t - e.t >= Ttl

With(f, k, v) == [x \in DOMAIN f \cup {k} |-> IF x = k THEN v ELSE f[x]]

\* Mutant of Stale: whatever is older than the sighting.
StaleEarly(t) == {k \in DOMAIN seen : seen[k].t < t}

Stale(t) == {k \in DOMAIN seen : seen[k].t < t - PruneAfter}

\* Mutant of OldestQuarters: rounded down to nothing.
NoQuarter(K) == {{}}

\* The quarters of the entries K that sorting by time may put first: those of the
\* same time in any order.
OldestQuarters(K) ==
  {Q \in SUBSET K :
     /\ Cardinality(Q) = Cardinality(K) \div 4
     /\ \A a \in Q, b \in K \ Q : seen[a].t <= seen[b].t}

\* _maybe_prune(t), as the set of what it may evict beyond the stale entries.
Full == Cardinality(DOMAIN seen) >= MaxEntries
Kept(t) == IF Full THEN DOMAIN seen \ Stale(t) ELSE DOMAIN seen
Evictions(t) ==
  IF Cardinality(Kept(t)) >= MaxEntries THEN OldestQuarters(Kept(t)) ELSE {{}}

\* should_write() of a device not in the table: room is made, the row written.
WriteNew(k, s) ==
  /\ k \notin DOMAIN seen
  /\ \E E \in Evictions(s.t) :
       /\ seen' = With(Restrict(seen, Kept(s.t) \ E), k, s)
       /\ evicted' = (evicted \cup E) \ {k}
  /\ rows' = rows + 1 /\ lastRow' = With(lastRow, k, s)
  /\ UNCHANGED <<skipped, unfixed>>

\* should_write() of a device in the table, when the sighting adds to its row.
WriteAgain(k, s) ==
  /\ k \in DOMAIN seen /\ Adds(s, seen[k])
  /\ seen' = With(seen, k, s)
  /\ rows' = rows + 1 /\ lastRow' = With(lastRow, k, s)
  /\ UNCHANGED <<skipped, unfixed, evicted>>

\* Mutant of Refuse: the table follows every sighting, not the rows.
RefuseButNote(k, s) ==
  /\ k \in DOMAIN seen /\ ~Adds(s, seen[k])
  /\ skipped' = skipped + 1
  /\ seen' = With(seen, k, s)
  /\ UNCHANGED <<rows, unfixed, lastRow, evicted>>

\* ... and when it does not.
Refuse(k, s) ==
  /\ k \in DOMAIN seen /\ ~Adds(s, seen[k])
  /\ skipped' = skipped + 1
  /\ UNCHANGED <<seen, rows, unfixed, lastRow, evicted>>

\* _gate(): nothing is written, nor looked up, without a fix.
NoFix(k, s) ==
  /\ RequireFix
  /\ unfixed' = unfixed + 1
  /\ UNCHANGED <<seen, rows, skipped, lastRow, evicted>>

\* What is heard of a device here and now, drained at most Lag later.
Sightings(k) == [t : clock - Lag .. clock, at : {place}, rssi : Rssis[k]]

\* Devices are named by numbers, in the order of their first rows: which name a
\* device has makes no difference.
Named(k) == k - 1 <= Cardinality(DOMAIN lastRow)

Sight ==
  /\ rows + skipped + unfixed < MaxSightings
  /\ \E k \in {d \in Keys : Named(d)} : \E s \in Sightings(k) :
       WriteNew(k, s) \/ WriteAgain(k, s) \/ Refuse(k, s) \/ NoFix(k, s)
  /\ UNCHANGED <<clock, place>>

Drive ==
  /\ clock < MaxTime /\ clock' = clock + 1
  /\ place' \in {place, place + 1}
  /\ UNCHANGED <<seen, rows, skipped, unfixed, lastRow, evicted>>

GateNext == Sight \/ Drive

GateSpec == GateInit /\ [][GateNext]_gateVars

-------------------------------------------------------------------------------
(* Properties. *)

\* No starving: a sighting is only refused when there is a row of that device
\* that it adds nothing to; creeping along in steps shorter than MinMove, or
\* being heard all the time, never keeps a device from its next row.
RefusedIsCovered ==
  [][skipped' # skipped =>
       \A k \in Keys : \A s \in Sightings(k) :
         Refuse(k, s) => k \in DOMAIN lastRow /\ ~Adds(s, lastRow[k])]_gateVars

\* No spamming: a further row of a device adds to the one before it, in spite of
\* times coming in out of order and of stale entries being pruned, as long as an
\* entry is not stale before its device would get a new row anyway.  Only a
\* device among the oldest of a full table may get a row that adds nothing.
RowsAdd ==
  [][PruneAfter >= Ttl + Lag =>
       \A k \in DOMAIN lastRow :
         lastRow'[k] # lastRow[k] =>
           Adds(lastRow'[k], lastRow[k]) \/ k \in evicted]_gateVars

\* "Set `min_move_m` to `0` to fall back to pure time-based behaviour"
\* (README.md:240): without the move filter, a device that is not heard from
\* closer, and whose entry was not driven out, gets its next row after Ttl.
ZeroMoveIsTimeBased ==
  [][MinMove = 0 =>
       \A k \in DOMAIN lastRow \ evicted' :
         lastRow'[k] # lastRow[k] =>
           \/ lastRow'[k].t - lastRow[k].t >= Ttl
           \/ lastRow'[k].rssi - lastRow[k].rssi >= RssiDelta]_gateVars
===============================================================================
