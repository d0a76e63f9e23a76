------------------------------ MODULE GpsHistory ------------------------------
(***************************************************************************)
(* The GPS state and its rolling history (scanners/gps.py): the reader     *)
(* thread applies gpsd's reports to it, the scan loop asks where the car   *)
(* was when an observation was heard, at(t).  Every access holds the lock, *)
(* so a report and a question are one step each.  The application starts a *)
(* scan when the fix is good, and replaces the reader from its menus.      *)
(*                                                                         *)
(* Environment: the car moves by at most Speed per tick on a line (one     *)
(* coordinate stands for the position); gpsd reports, stays silent for as  *)
(* long as it likes, or goes away; the wall clock advances, or is set      *)
(* back, once at most.  A report carries the true position: receiver noise *)
(* is not the business of this module.                                     *)
(***************************************************************************)
EXTENDS Integers, FiniteSets, SequencesExt

CONSTANTS
  SatCounts,  \* satellite counts a SKY report may carry
  MinSats,    \* min_sats: fewer do not make a 3D fix good
  MaxGap,     \* DEFAULT_MAX_GAP_S
  HistMax,    \* _HIST_MAX
  HistTrim,   \* _HIST_TRIM
  Speed,      \* how far the car gets in a tick at most
  Moves,      \* how far it may get
  Back,       \* how far it may step back, 0 for a clock that never does
  MaxSteps,   \* bound: ticks of real time
  MaxHeard,   \* bound: observations followed at once
  MaxReports  \* bound: TPV reports

ASSUME GpsAssumption ==
  /\ SatCounts \subseteq Nat /\ MinSats \in Nat
  /\ MaxGap \in Nat /\ Speed \in Nat /\ Moves \subseteq -Speed..Speed
  /\ HistMax \in Nat \ {0} /\ HistTrim \in 1..HistMax
  /\ Back \in Nat
  /\ MaxSteps \in Nat
  /\ MaxHeard \in Nat /\ MaxReports \in Nat

VARIABLES
  now,         \* time.time(); 0 is before the program, as last_update = 0
  pos,         \* where the car really is
  sats,        \* state.sats
  quality,     \* state.fix_quality: 2, 3, or 0 without a fix
  fix3d,       \* state.fix_3d
  lat,         \* state.lat: the last position known, fix or not
  lastUpdate,  \* state.last_update, 0 before the first TPV
  hist,        \* _hist_t and _hist_p
  linked,      \* the reader thread is connected to gpsd
  scanning,    \* a scan is on
  heard,       \* history: observations, as heard
  stepped,     \* history: the wall clock has stepped back
  ticks,       \* real time so far
  reports      \* TPV reports so far

state == <<sats, quality, fix3d, lat, lastUpdate, hist>>
world == <<now, pos, heard, stepped, ticks>>
app == <<linked, scanning>>
vars == <<state, world, app, reports>>

Sample == [t : Nat, lat : Int, fix : BOOLEAN]
\* What was heard, when (wall clock) and where; dropped tells that gpsd's
\* latest TPV before it had no position.
Observation == [t : Nat, at : Int, dropped : BOOLEAN]

TypeOK ==
  /\ now \in Nat /\ pos \in Int /\ ticks \in Nat /\ reports \in Nat
  /\ sats \in Nat /\ quality \in {0, 2, 3} /\ fix3d \in BOOLEAN
  /\ lat \in Int /\ lastUpdate \in Nat
  /\ hist \in Seq(Sample) /\ Len(hist) <= HistMax
  /\ heard \subseteq Observation
  /\ stepped \in BOOLEAN /\ linked \in BOOLEAN /\ scanning \in BOOLEAN

-------------------------------------------------------------------------------
(* Writes. *)

\* Mutant of Clamped.
NotClamped(t) == t

\* The time a sample gets: never before the newest one.
Clamped(t) == IF hist # <<>> /\ t < Last(hist).t THEN Last(hist).t ELSE t

\* Mutant of _record: the history is not cut back.
RecordForever(t, p, fix) ==
  hist' = Append(hist, [t |-> Clamped(t), lat |-> p, fix |-> fix])

_record(t, p, fix) ==
  LET grown == Append(hist, [t |-> Clamped(t), lat |-> p, fix |-> fix])
  IN hist' = IF Len(grown) > HistMax
             THEN SubSeq(grown, HistTrim + 1, Len(grown))
             ELSE grown

\* gpsd sends a TPV, and the reader thread reads it.
Report == linked /\ reports < MaxReports /\ reports' = reports + 1

\* _apply, a TPV with a position: good if 3D on enough satellites.
TpvFix(mode) ==
  /\ Report
  /\ lastUpdate' = now
  /\ lat' = pos /\ quality' = mode
  /\ fix3d' = (mode = 3 /\ sats >= MinSats)
  /\ _record(now, pos, mode = 3 /\ sats >= MinSats)
  /\ UNCHANGED <<sats, world, app>>

\* Mutant of TpvNoFix: the dropout leaves no mark in the history.
TpvNoFixUnrecorded ==
  /\ Report
  /\ lastUpdate' = now
  /\ quality' = 0 /\ fix3d' = FALSE
  /\ UNCHANGED <<lat, hist, sats, world, app>>

\* _apply, a TPV without: the last position stays for display, and the dropout
\* is recorded.
TpvNoFix ==
  /\ Report
  /\ lastUpdate' = now
  /\ quality' = 0 /\ fix3d' = FALSE
  /\ _record(now, lat, FALSE)
  /\ UNCHANGED <<lat, sats, world, app>>

\* Mutant of Sky: the count is kept for the next TPV to judge by.
SkyCountsOnly(used) ==
  /\ linked
  /\ sats' = used
  /\ UNCHANGED <<fix3d, quality, lat, lastUpdate, hist, world, app, reports>>

\* _apply, SKY: a new satellite count, and the 3D fix judged by it.  The history
\* gets no sample.
Sky(used) ==
  /\ linked
  /\ sats' = used
  /\ fix3d' = IF quality = 3 THEN used >= MinSats ELSE fix3d
  /\ UNCHANGED <<quality, lat, lastUpdate, hist, world, app, reports>>

-------------------------------------------------------------------------------
(* The reader thread and the application. *)

NewState ==
  /\ sats' = 0 /\ quality' = 0 /\ fix3d' = FALSE
  /\ lat' = 0 /\ lastUpdate' = 0
  /\ hist' = <<>>

\* _connect(), tried again and again until gpsd answers.
Connect ==
  /\ ~linked /\ linked' = TRUE
  /\ UNCHANGED <<state, world, scanning, reports>>

\* _read_loop() ends because gpsd has gone: what it said last stays.
Disconnect ==
  /\ linked /\ linked' = FALSE
  /\ UNCHANGED <<state, world, scanning, reports>>

\* _restart_gps(), from the configuration menus: another reader, another state.
Restart ==
  /\ ~scanning
  /\ NewState /\ linked' = FALSE
  /\ UNCHANGED <<world, scanning, reports>>

\* _wait_for_gps(): the scan starts with a good fix.
StartScan ==
  /\ ~scanning /\ fix3d
  /\ scanning' = TRUE
  /\ UNCHANGED <<state, world, linked, reports>>

\* The session is closed: what was heard has been written or refused.
EndScan ==
  /\ scanning /\ scanning' = FALSE
  /\ heard' = {}
  /\ UNCHANGED <<now, pos, stepped, ticks, state, linked, reports>>

-------------------------------------------------------------------------------
(* Reads. *)

Abs(x) == IF x < 0 THEN -x ELSE x

\* A snapshot's position is num/den: interpolation divides.
AtIndex(i, gap) ==
  [fix |-> hist[i].fix /\ gap <= MaxGap, num |-> hist[i].lat, den |-> 1]

\* bisect_right(hist_t, t), which relies on the times being sorted.
Bisect(t) == Cardinality({k \in DOMAIN hist : hist[k].t <= t})

\* Mutant of NoLine: dropouts are bridged.
NoLineButDropouts(a, b) == b.t - a.t <= 0 \/ b.t - a.t > MaxGap * 4
\* Mutant of NoLine: silences are bridged.
NoLineButSilence(a, b) == b.t - a.t <= 0 \/ ~a.fix \/ ~b.fix

\* The two samples around t are no ground for a straight line: a dropout, or
\* too long a silence, or no time between them.
NoLine(a, b) ==
  \/ b.t - a.t <= 0
  \/ ~a.fix \/ ~b.fix
  \/ b.t - a.t > MaxGap * 4

Between(i, t) ==
  LET a == hist[i]  b == hist[i + 1]
  IN IF NoLine(a, b)
     THEN LET near == IF t - a.t <= b.t - t THEN i ELSE i + 1
          IN AtIndex(near, Abs(t - hist[near].t))
     ELSE [fix |-> TRUE, den |-> b.t - a.t,
           num |-> a.lat * (b.t - a.t) + (b.lat - a.lat) * (t - a.t)]

at(t) ==
  LET i == Bisect(t)
  IN IF hist = <<>>
     THEN [fix |-> fix3d /\ lastUpdate # 0 /\ Abs(t - lastUpdate) <= MaxGap,
           num |-> lat, den |-> 1]
     ELSE IF i = 0 THEN AtIndex(1, hist[1].t - t)
     ELSE IF i = Len(hist) THEN AtIndex(i, t - hist[i].t)
     ELSE Between(i, t)

-------------------------------------------------------------------------------
(* The world around it. *)

\* A scanner hears something.
Hear ==
  /\ scanning /\ Cardinality(heard) < MaxHeard
  /\ heard' = heard \cup
       {[t |-> now, at |-> pos,
         dropped |-> lastUpdate # 0 /\ quality = 0]}
  /\ UNCHANGED <<now, pos, state, stepped, ticks, app, reports>>

\* Time passes: the car moves and the wall clock advances.
Tick ==
  /\ ticks < MaxSteps /\ ticks' = ticks + 1
  /\ \E way \in Moves : pos' = pos + way
  /\ now' = now + 1
  /\ UNCHANGED <<state, heard, stepped, app, reports>>

\* Something (NTP, a GPS time sync) sets the wall clock back.
StepBack ==
  /\ ~stepped
  /\ \E earlier \in now - Back .. now - 1 : earlier > 0 /\ now' = earlier
  /\ stepped' = TRUE
  /\ UNCHANGED <<pos, state, heard, ticks, app, reports>>

Init ==
  /\ now = 1 /\ pos = 0 /\ ticks = 0 /\ reports = 0
  /\ sats = 0 /\ quality = 0 /\ fix3d = FALSE
  /\ lat = 0 /\ lastUpdate = 0
  /\ hist = <<>>
  /\ heard = {}
  /\ stepped = FALSE /\ linked = FALSE /\ scanning = FALSE

Next ==
  \/ \E mode \in {2, 3} : TpvFix(mode)
  \/ TpvNoFix
  \/ \E used \in SatCounts : Sky(used)
  \/ Connect
  \/ Disconnect
  \/ Restart
  \/ StartScan
  \/ EndScan
  \/ Hear
  \/ Tick
  \/ StepBack

Spec == Init /\ [][Next]_vars

-------------------------------------------------------------------------------
(* Properties. *)

\* at() searches by bisection: whatever the wall clock does, the times in the
\* history stay sorted.
HistorySorted ==
  \A i, j \in DOMAIN hist : i < j => hist[i].t <= hist[j].t

\* The live fix is judged by the latest of both kinds of report, in whichever
\* order they came: 3D and on enough satellites.
FixJudgedByLatest == fix3d <=> quality = 3 /\ sats >= MinSats

\* The position and the fix of what was heard, asked for at any later moment.
Within(snap, p, d) == Abs(snap.num - p * snap.den) <= d * snap.den

\* An observation that at() gives a fix is placed where the car was when it was
\* heard, give or take the way the car makes in half of the longest silence
\* that is bridged: whenever it is asked, with whatever reports, dropouts and
\* trimming in between.
TaggedNearTruth ==
  ~stepped => \A o \in heard :
    at(o.t).fix => Within(at(o.t), o.at, 2 * MaxGap * Speed)

\* What was heard during a dropout is only placed by a fix close to it, never
\* on a line across the dropout.
DropoutNotBridged ==
  ~stepped => \A o \in heard :
    o.dropped /\ at(o.t).fix =>
      \E s \in ToSet(hist) : s.fix /\ Abs(s.t - o.t) <= MaxGap

===============================================================================
