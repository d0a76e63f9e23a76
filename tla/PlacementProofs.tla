---------------------------- MODULE PlacementProofs ----------------------------
(***************************************************************************)
(* Theorems about where a row is put and whether it is written.            *)
(*                                                                         *)
(* GpsHistory, for a history of any length, trimmed by any part of it, and *)
(* a car of any speed: at() always searches a sorted history no longer     *)
(* than _HIST_MAX, the live fix is what the latest reports of both kinds   *)
(* say, and an observation is placed near where it was heard.              *)
(*                                                                         *)
(* GeoDedup, for any devices, any settings of the filter and any size of   *)
(* the table from four: nothing new is refused, and a further row says     *)
(* something new.                                                          *)
(***************************************************************************)
EXTENDS GpsHistory, GeoDedup, FiniteSetTheorems, WellFoundedInduction, TLAPS


-------------------------------------------------------------------------------
(* _record. *)

Sorted(h) == \A i, j \in 1..Len(h) : i < j => h[i].t <= h[j].t

\* The time a sample gets is a time, and no sample is later.
LEMMA ClampedFacts ==
  ASSUME hist \in Seq(Sample), NEW t \in Nat
  PROVE  /\ Clamped(t) \in Nat
         /\ Sorted(hist) => \A i \in 1..Len(hist) : hist[i].t <= Clamped(t)
<1>1. \A i \in 1..Len(hist) : hist[i].t \in Nat
  <2>1. \A i \in 1..Len(hist) : hist[i] \in Sample
    OBVIOUS
  <2> QED
    BY <2>1 DEF Sample
<1>2. CASE hist = <<>>
  BY <1>2 DEF Clamped
<1>3. CASE hist # <<>>
  <2>1. Len(hist) \in 1..Len(hist)
    BY <1>3
  <2>2. Last(hist) = hist[Len(hist)]
    BY DEF Last
  <2>3. Clamped(t) \in Nat /\ Last(hist).t <= Clamped(t)
    BY <1>1, <1>3, <2>1, <2>2 DEF Clamped
  <2>4. Sorted(hist) => \A i \in 1..Len(hist) : hist[i].t <= Last(hist).t
    BY <1>1, <2>1, <2>2 DEF Sorted
  <2>5. Last(hist).t \in Nat
    BY <1>1, <2>1, <2>2
  <2> QED
    BY <1>1, <2>3, <2>4, <2>5
<1> QED
  BY <1>2, <1>3

\* What _record leaves is the history with the sample, or an end of it.
LEMMA RecordFacts ==
  ASSUME hist \in Seq(Sample), Len(hist) <= HistMax,
         NEW t \in Nat, NEW p \in Int, NEW fix \in BOOLEAN,
         _record(t, p, fix)
  PROVE  /\ hist' \in Seq(Sample) /\ Len(hist') <= HistMax
         /\ Sorted(hist) => Sorted(hist')
<1> DEFINE new == [t |-> Clamped(t), lat |-> p, fix |-> fix]
           grown == Append(hist, new)
<1>1. new \in Sample /\ new.t = Clamped(t)
  BY ClampedFacts DEF Sample
<1> HIDE DEF new
<1>2. /\ grown \in Seq(Sample) /\ Len(grown) = Len(hist) + 1
      /\ \A i \in 1..Len(hist) : grown[i] = hist[i]
      /\ grown[Len(hist) + 1] = new
  BY <1>1
<1>3. Sorted(hist) => Sorted(grown)
  <2> SUFFICES ASSUME Sorted(hist),
                      NEW i \in 1..Len(grown), NEW j \in 1..Len(grown), i < j
               PROVE  grown[i].t <= grown[j].t
    BY DEF Sorted
  <2>1. i \in 1..Len(hist)
    BY <1>2
  <2>2. CASE j \in 1..Len(hist)
    BY <1>2, <2>1, <2>2 DEF Sorted
  <2>3. CASE j = Len(hist) + 1
    BY <1>1, <1>2, <2>1, <2>3, ClampedFacts
  <2> QED
    BY <1>2, <2>2, <2>3
<1>4. hist' = IF Len(grown) > HistMax
              THEN SubSeq(grown, HistTrim + 1, Len(grown)) ELSE grown
  BY DEF _record, new
<1> HIDE DEF grown
<1>5. HistMax \in Nat /\ HistTrim \in Nat /\ 1 <= HistTrim /\ HistTrim <= HistMax
  BY GpsAssumption DEF GpsAssumption
<1>6. CASE Len(grown) > HistMax
  <2> DEFINE cut == SubSeq(grown, HistTrim + 1, Len(grown))
  <2>1. Len(grown) = HistMax + 1
    BY <1>2, <1>5, <1>6
  <2>2. /\ cut \in Seq(Sample) /\ Len(cut) = Len(grown) - HistTrim
        /\ \A i \in 1..Len(cut) : cut[i] = grown[i + HistTrim]
    <3> HIDE DEF cut
    <3>1. HistTrim + 1 \in 1..Len(grown) /\ grown \in Seq(Sample)
      BY <1>2, <1>5, <2>1
    <3>2. cut \in Seq(Sample)
      BY <3>1 DEF cut
    <3>3. Len(cut) = Len(grown) - HistTrim
      BY <1>5, <2>1, <3>1 DEF cut
    <3>4. \A i \in 1..Len(cut) : cut[i] = grown[i + HistTrim]
      BY <1>5, <2>1, <3>1 DEF cut
    <3> QED
      BY <3>2, <3>3, <3>4
  <2> HIDE DEF cut
  <2>3. hist' = cut
    BY <1>4, <1>6 DEF cut
  <2>4. Sorted(grown) => Sorted(cut)
    <3> SUFFICES ASSUME Sorted(grown),
                        NEW i \in 1..Len(cut), NEW j \in 1..Len(cut), i < j
                 PROVE  cut[i].t <= cut[j].t
      BY DEF Sorted
    <3>1. /\ i + HistTrim \in 1..Len(grown) /\ j + HistTrim \in 1..Len(grown)
          /\ i + HistTrim < j + HistTrim
      BY <1>5, <2>1, <2>2
    <3> QED
      BY <2>2, <3>1 DEF Sorted
  <2> QED
    BY <1>3, <1>5, <2>1, <2>2, <2>3, <2>4
<1>7. CASE ~(Len(grown) > HistMax)
  BY <1>2, <1>3, <1>4, <1>5, <1>7
<1> QED
  BY <1>6, <1>7

-------------------------------------------------------------------------------
(* The three invariants go together, in one induction. *)

\* TypeOK in two parts, for a prover each.
NumbersOK ==
  /\ now \in Nat /\ pos \in Int /\ ticks \in Nat /\ reports \in Nat
  /\ sats \in Nat /\ quality \in {0, 2, 3}
  /\ lat \in Int /\ lastUpdate \in Nat
  /\ hist \in Seq(Sample) /\ Len(hist) <= HistMax
  /\ heard \subseteq Observation
BooleansOK ==
  /\ fix3d \in BOOLEAN
  /\ stepped \in BOOLEAN /\ linked \in BOOLEAN /\ scanning \in BOOLEAN

\* The parts are the whole.
LEMMA TypeOKParts == TypeOK <=> NumbersOK /\ BooleansOK
BY Zenon DEF TypeOK, NumbersOK, BooleansOK

HistInv ==
  /\ TypeOK
  /\ Sorted(hist)
  /\ FixJudgedByLatest

\* A new process has an empty history and no fix.
LEMMA InitHistInv == Init => HistInv
<1> SUFFICES ASSUME Init PROVE HistInv
  OBVIOUS
<1>1. hist \in Seq(Sample) /\ Len(hist) = 0
  BY DEF Init
<1>2. NumbersOK
  BY <1>1, GpsAssumption DEF Init, NumbersOK, GpsAssumption
<1>3. BooleansOK
  BY DEF Init, BooleansOK
<1>4. Sorted(hist) /\ FixJudgedByLatest
  BY <1>1 DEF Init, Sorted, FixJudgedByLatest
<1> QED
  BY <1>2, <1>3, <1>4, TypeOKParts DEF HistInv

\* Only _record writes the history, and each report judges the fix anew.
LEMMA NextHistInv ==
  ASSUME HistInv, [Next]_vars
  PROVE  HistInv'
<1> USE GpsAssumption DEF GpsAssumption
<1>0. TypeOK /\ NumbersOK /\ BooleansOK /\ Sorted(hist) /\ FixJudgedByLatest
  BY TypeOKParts DEF HistInv
<1>a. SUFFICES NumbersOK' /\ BooleansOK' /\ Sorted(hist)' /\ FixJudgedByLatest'
  BY TypeOKParts, PTL DEF HistInv
<1>1. ASSUME NEW mode \in {2, 3}, TpvFix(mode)
      PROVE  NumbersOK' /\ BooleansOK' /\ Sorted(hist)' /\ FixJudgedByLatest'
  <2>1. /\ hist' \in Seq(Sample) /\ Len(hist') <= HistMax /\ Sorted(hist')
    BY <1>0, <1>1, RecordFacts DEF NumbersOK, TpvFix
  <2>2. NumbersOK'
    BY <1>0, <1>1, <2>1 DEF NumbersOK, TpvFix, Report, world
  <2>3. BooleansOK'
    BY <1>0, <1>1 DEF BooleansOK, TpvFix, world, app
  <2> QED
    BY <1>1, <2>1, <2>2, <2>3 DEF FixJudgedByLatest, TpvFix
<1>2. CASE TpvNoFix
  <2>1. /\ hist' \in Seq(Sample) /\ Len(hist') <= HistMax /\ Sorted(hist')
    BY <1>0, <1>2, RecordFacts DEF NumbersOK, TpvNoFix
  <2>2. NumbersOK'
    BY <1>0, <1>2, <2>1 DEF NumbersOK, TpvNoFix, Report, world
  <2>3. BooleansOK'
    BY <1>0, <1>2 DEF BooleansOK, TpvNoFix, world, app
  <2> QED
    BY <1>2, <2>1, <2>2, <2>3 DEF FixJudgedByLatest, TpvNoFix
<1>3. ASSUME NEW used \in SatCounts, Sky(used)
      PROVE  NumbersOK' /\ BooleansOK' /\ Sorted(hist)' /\ FixJudgedByLatest'
  <2>1. NumbersOK' /\ Sorted(hist)'
    BY <1>0, <1>3 DEF NumbersOK, Sorted, Sky, world
  <2>2. BooleansOK'
    <3>1. fix3d' \in BOOLEAN
      <4>1. CASE quality = 3
        <5>1. fix3d' = (used >= MinSats)
          BY <1>3, <4>1 DEF Sky
        <5>2. (used >= MinSats) \in BOOLEAN
          BY <1>0 DEF NumbersOK
        <5> QED
          BY <5>1, <5>2, Zenon
      <4>2. CASE quality # 3
        <5>1. fix3d' = fix3d
          BY <1>3, <4>2 DEF Sky
        <5> QED
          BY <1>0, <5>1, Zenon DEF BooleansOK
      <4> QED
        BY <4>1, <4>2
    <3>2. UNCHANGED <<stepped, linked, scanning>>
      BY <1>3 DEF Sky, world, app
    <3> QED
      BY <1>0, <3>1, <3>2, Zenon DEF BooleansOK
  <2>3. FixJudgedByLatest'
    BY <1>0, <1>3 DEF Sky, FixJudgedByLatest
  <2> QED
    BY <2>1, <2>2, <2>3
<1>4. CASE Connect \/ Disconnect \/ StartScan
  <2>1. UNCHANGED <<state, world, reports>>
    BY <1>4 DEF Connect, Disconnect, StartScan
  <2>3. NumbersOK' /\ Sorted(hist)'
    BY <1>0, <2>1 DEF NumbersOK, Sorted, state, world
  <2>4. FixJudgedByLatest'
    BY <1>0, <2>1 DEF FixJudgedByLatest, state
  <2>2. BooleansOK'
    BY <1>0, <1>4 DEF BooleansOK, Connect, Disconnect, StartScan, state, world
  <2> QED
    BY <2>2, <2>3, <2>4
<1>5. CASE Restart
  <2>1. hist' \in Seq(Sample) /\ Len(hist') = 0
    BY <1>5 DEF Restart, NewState
  <2>2. NumbersOK'
    BY <1>0, <1>5, <2>1 DEF NumbersOK, Restart, NewState, world
  <2>3. BooleansOK'
    BY <1>0, <1>5 DEF BooleansOK, Restart, NewState, world
  <2> QED
    BY <1>5, <2>1, <2>2, <2>3 DEF Sorted, FixJudgedByLatest, Restart, NewState
<1>6. CASE EndScan
  <2>1. NumbersOK' /\ Sorted(hist)' /\ FixJudgedByLatest'
    BY <1>0, <1>6 DEF NumbersOK, Sorted, FixJudgedByLatest, EndScan, state
  <2>2. BooleansOK'
    BY <1>0, <1>6 DEF BooleansOK, EndScan, state
  <2> QED
    BY <2>1, <2>2
<1>7. CASE Hear
  <2>1. [t |-> now, at |-> pos, dropped |-> lastUpdate # 0 /\ quality = 0]
          \in Observation
    BY <1>0 DEF NumbersOK, Observation
  <2>2. NumbersOK' /\ Sorted(hist)' /\ FixJudgedByLatest'
    BY <1>0, <1>7, <2>1 DEF NumbersOK, Sorted, FixJudgedByLatest, Hear, state
  <2>3. BooleansOK'
    BY <1>0, <1>7 DEF BooleansOK, Hear, state, app
  <2> QED
    BY <2>2, <2>3
<1>8. CASE Tick
  <2>1. UNCHANGED <<state, reports, heard>>
    BY <1>8 DEF Tick
  <2>3. now' \in Nat /\ pos' \in Int /\ ticks' \in Nat
    BY <1>0, <1>8 DEF NumbersOK, Tick
  <2>4. NumbersOK' /\ Sorted(hist)'
    BY <1>0, <2>1, <2>3 DEF NumbersOK, Sorted, state
  <2>5. FixJudgedByLatest'
    BY <1>0, <2>1 DEF FixJudgedByLatest, state
  <2>2. BooleansOK'
    BY <1>0, <1>8 DEF BooleansOK, Tick, state, app
  <2> QED
    BY <2>2, <2>4, <2>5
<1>9. CASE StepBack
  <2>1. UNCHANGED <<state, reports, heard>>
    BY <1>9 DEF StepBack
  <2>3. now' \in Nat /\ pos' \in Int /\ ticks' \in Nat
    BY <1>0, <1>9 DEF NumbersOK, StepBack
  <2>4. NumbersOK' /\ Sorted(hist)'
    BY <1>0, <2>1, <2>3 DEF NumbersOK, Sorted, state
  <2>5. FixJudgedByLatest'
    BY <1>0, <2>1 DEF FixJudgedByLatest, state
  <2>2. BooleansOK'
    BY <1>0, <1>9 DEF BooleansOK, StepBack, state, app
  <2> QED
    BY <2>2, <2>4, <2>5
<1>10. CASE UNCHANGED vars
  BY <1>0, <1>10 DEF NumbersOK, BooleansOK, Sorted, FixJudgedByLatest, vars,
                     state, world, app
<1> QED
  BY <1>1, <1>2, <1>3, <1>4, <1>5, <1>6, <1>7, <1>8, <1>9, <1>10 DEF Next

\* Types, a sorted history and a fix judged by the latest reports hold together,
\* and need no fact about the clock or the car.
THEOREM GpsHistInv == Spec => []HistInv
BY InitHistInv, NextHistInv, PTL DEF Spec

\* Types, and the history never longer than _HIST_MAX (gps.py:183-185).
THEOREM GpsTypeOK == Spec => []TypeOK
<1>1. HistInv => TypeOK
  BY DEF HistInv
<1> QED
  BY <1>1, GpsHistInv, PTL

\* The bisection in at() (gps.py:124) always has a sorted history, whatever the
\* wall clock does between reports: what the clamping of _record is for.
THEOREM GpsHistorySorted == Spec => []HistorySorted
<1>1. HistInv => HistorySorted
  BY DEF HistInv, TypeOK, Sorted, HistorySorted
<1> QED
  BY <1>1, GpsHistInv, PTL

\* The fix that starts a scan, and that samples carry, is 3D on at least
\* min_sats satellites by the latest TPV and the latest SKY, in any order
\* (gps.py:341-343, 367-369).
THEOREM GpsFixJudgedByLatest == Spec => []FixJudgedByLatest
<1>1. HistInv => FixJudgedByLatest
  BY DEF HistInv
<1> QED
  BY <1>1, GpsHistInv, PTL

-------------------------------------------------------------------------------
(* Arithmetic. *)

\* Products keep the order.
LEMMA TimesMonotone ==
  ASSUME NEW a \in Int, NEW b \in Int, NEW c \in Nat, a <= b
  PROVE  a * c <= b * c
<1>1. (b - a) * c >= 0
  OBVIOUS
<1>2. (b - a) * c = b * c - a * c
  OBVIOUS
<1> QED
  BY <1>1, <1>2

\* Four times the product of two numbers is at most the square of their sum.
LEMMA ProductBound ==
  ASSUME NEW x \in Nat, NEW y \in Nat
  PROVE  4 * (x * y) <= (x + y) * (x + y)
<1>1. (x - y) * (x - y) >= 0
  OBVIOUS
<1>2. (x - y) * (x - y) = (x + y) * (x + y) - 4 * (x * y)
  OBVIOUS
<1> QED
  BY <1>1, <1>2

\* A point of the straight line between two others, which lie x and y away in time
\* (u and v away in space): not farther than half of the way.
LEMMA LineNear ==
  ASSUME NEW S \in Nat, NEW G \in Nat, NEW u \in Int, NEW v \in Int, NEW x \in Nat, NEW y \in Nat,
         x + y <= 4 * G, u <= S * x, -u <= S * x, v <= S * y, -v <= S * y
  PROVE  /\ u * y + v * x <= 2 * G * S * (x + y)
         /\ -(u * y + v * x) <= 2 * G * S * (x + y)
<1> DEFINE D == x + y
<1>1. u * y <= (S * x) * y /\ (-u) * y <= (S * x) * y
  BY TimesMonotone
<1>2. v * x <= (S * y) * x /\ (-v) * x <= (S * y) * x
  BY TimesMonotone
<1>3. (S * x) * y = S * (x * y) /\ (S * y) * x = S * (x * y)
  OBVIOUS
<1>4. (-u) * y = -(u * y) /\ (-v) * x = -(v * x)
  OBVIOUS
<1>5. 4 * (x * y) <= D * D
  BY ProductBound
<1>6. D * D <= (4 * G) * D
  BY TimesMonotone
<1>7. (4 * G) * D = 4 * (G * D)
  OBVIOUS
<1>8. x * y \in Nat /\ G * D \in Nat
  OBVIOUS
<1>9. x * y <= G * D
  BY <1>5, <1>6, <1>7, <1>8
<1>10. (x * y) * S <= (G * D) * S
  BY <1>8, <1>9, TimesMonotone
<1>11. (x * y) * S = S * (x * y) /\ 2 * G * S * D = 2 * ((G * D) * S)
  OBVIOUS
<1>12. u * y \in Int /\ v * x \in Int /\ S * (x * y) \in Int /\ (G * D) * S \in Int
  OBVIOUS
<1> QED
  <2> HIDE DEF D
  <2>1. u * y + v * x <= 2 * ((G * D) * S) /\ -(u * y + v * x) <= 2 * ((G * D) * S)
    BY <1>1, <1>2, <1>3, <1>4, <1>10, <1>11, <1>12
  <2> QED
    BY <1>11, <2>1 DEF D

-------------------------------------------------------------------------------
(* Where an observation is placed. *)

\* At most d ticks of driving apart.
Near(p, q, d) == p - q <= Speed * d /\ q - p <= Speed * d

\* Without a history there was no TPV; while gpsd's latest TPV has no position, the
\* newest sample says so.
Live ==
  /\ now >= 1
  /\ hist = <<>> => lastUpdate = 0
  /\ quality = 0 /\ lastUpdate # 0 => hist # <<>> /\ ~hist[Len(hist)].fix

\* As long as the clock goes on: nothing is from the future;
Past ==
  ~stepped =>
    /\ \A i \in 1..Len(hist) : hist[i].t <= now
    /\ \A o \in heard : o.t <= now

\* the car is as far from where it was as it can have come since;
NearCar ==
  ~stepped =>
    /\ \A i \in 1..Len(hist) : hist[i].fix => Near(pos, hist[i].lat, now - hist[i].t)
    /\ \A o \in heard : Near(pos, o.at, now - o.t)

\* so are samples and what was heard from each other;
NearHeard ==
  ~stepped =>
    \A i \in 1..Len(hist), o \in heard :
      hist[i].fix => Near(hist[i].lat, o.at, Abs(hist[i].t - o.t))

\* and between a position and what was heard in a dropout after it there is the
\* sample of the dropout.
DropSeen ==
  ~stepped =>
    \A i \in 1..Len(hist), o \in heard :
      o.dropped /\ hist[i].fix /\ hist[i].t < o.t => i < Len(hist) /\ hist[i + 1].t <= o.t

PlaceInv == HistInv /\ Live /\ Past /\ NearCar /\ NearHeard /\ DropSeen

LEMMA SampleFacts ==
  ASSUME HistInv
  PROVE  /\ Len(hist) \in Nat
         /\ \A i \in 1..Len(hist) :
              hist[i].t \in Nat /\ hist[i].lat \in Int /\ hist[i].fix \in BOOLEAN
         /\ \A o \in heard : o.t \in Nat /\ o.at \in Int /\ o.dropped \in BOOLEAN
         /\ now \in Nat /\ pos \in Int /\ Speed \in Nat /\ MaxGap \in Nat
<1>1. NumbersOK
  BY TypeOKParts DEF HistInv
<1>2. hist \in Seq(Sample) /\ heard \subseteq Observation /\ now \in Nat /\ pos \in Int
  BY <1>1 DEF NumbersOK
<1>3. \A i \in 1..Len(hist) : hist[i] \in Sample
  BY <1>2
<1>4. Len(hist) \in Nat
  BY <1>2
<1>5. \A i \in 1..Len(hist) :
        hist[i].t \in Nat /\ hist[i].lat \in Int /\ hist[i].fix \in BOOLEAN
  BY <1>3 DEF Sample
<1>6. \A o \in heard : o.t \in Nat /\ o.at \in Int /\ o.dropped \in BOOLEAN
  BY <1>2 DEF Observation
<1>7. Speed \in Nat /\ MaxGap \in Nat
  BY GpsAssumption DEF GpsAssumption
<1> QED
  BY <1>2, <1>4, <1>5, <1>6, <1>7

\* What _record leaves: an end of the history, and the new sample.
LEMMA RecordShape ==
  ASSUME HistInv, NEW t \in Nat, NEW p \in Int, NEW fix \in BOOLEAN, _record(t, p, fix)
  PROVE  /\ Len(hist') \in Nat \ {0}
         /\ hist'[Len(hist')] = [t |-> Clamped(t), lat |-> p, fix |-> fix]
         /\ \E k \in Nat : /\ Len(hist') = Len(hist) + 1 - k
                           /\ \A i \in 1..Len(hist') - 1 :
                                i + k \in 1..Len(hist) /\ hist'[i] = hist[i + k]
                           /\ hist' # <<>>
<1> DEFINE new == [t |-> Clamped(t), lat |-> p, fix |-> fix]
           grown == Append(hist, new)
<1>1. hist \in Seq(Sample) /\ Len(hist) <= HistMax
  BY TypeOKParts DEF HistInv, NumbersOK
<1>2. new \in Sample
  BY <1>1, ClampedFacts DEF Sample
<1> HIDE DEF new
<1>3. /\ grown \in Seq(Sample) /\ Len(grown) = Len(hist) + 1 /\ Len(hist) \in Nat
      /\ \A i \in 1..Len(hist) : grown[i] = hist[i]
      /\ grown[Len(hist) + 1] = new
  BY <1>1, <1>2
<1>4. hist' = IF Len(grown) > HistMax
              THEN SubSeq(grown, HistTrim + 1, Len(grown)) ELSE grown
  BY DEF _record, new
<1> HIDE DEF grown
<1>5. HistMax \in Nat /\ HistTrim \in Nat /\ 1 <= HistTrim /\ HistTrim <= HistMax
  BY GpsAssumption DEF GpsAssumption
<1>6. CASE Len(grown) > HistMax
  <2> DEFINE cut == SubSeq(grown, HistTrim + 1, Len(grown))
  <2> HIDE DEF cut
  <2>1. HistTrim + 1 \in 1..Len(grown)
    BY <1>3, <1>5, <1>6
  <2>2. Len(cut) = Len(grown) - HistTrim
    BY <1>3, <1>5, <2>1 DEF cut
  <2>3. \A i \in 1..Len(cut) : cut[i] = grown[i + HistTrim]
    BY <1>3, <1>5, <2>1 DEF cut
  <2>4. hist' = cut
    BY <1>4, <1>6 DEF cut
  <2>5. Len(cut) \in Nat \ {0}
    BY <1>3, <1>5, <2>1, <2>2
  <2>6. cut[Len(cut)] = new
    BY <1>3, <1>5, <2>2, <2>3, <2>5
  <2>7. \A i \in 1..Len(cut) - 1 : i + HistTrim \in 1..Len(hist) /\ cut[i] = hist[i + HistTrim]
    <3> SUFFICES ASSUME NEW i \in 1..Len(cut) - 1
                 PROVE  i + HistTrim \in 1..Len(hist) /\ cut[i] = hist[i + HistTrim]
      OBVIOUS
    <3>1. i + HistTrim \in 1..Len(hist)
      BY <1>3, <1>5, <2>2
    <3>2. i \in 1..Len(cut)
      BY <2>5
    <3> QED
      BY <1>3, <2>3, <3>1, <3>2
  <2>8. Len(cut) = Len(hist) + 1 - HistTrim
    BY <1>3, <1>5, <2>2
  <2>9. cut # <<>>
    BY <2>5
  <2> QED
    BY <1>5, <2>4, <2>5, <2>6, <2>7, <2>8, <2>9 DEF new
<1>7. CASE ~(Len(grown) > HistMax)
  <2>1. hist' = grown
    BY <1>4, <1>7
  <2>2. Len(grown) \in Nat \ {0} /\ grown[Len(grown)] = new /\ grown # <<>>
    BY <1>3
  <2>3. \A i \in 1..Len(grown) - 1 : i + 0 \in 1..Len(hist) /\ grown[i] = hist[i + 0]
    BY <1>3
  <2>4. Len(grown) = Len(hist) + 1 - 0
    BY <1>3
  <2> QED
    BY <2>1, <2>2, <2>3, <2>4 DEF new
<1> QED
  BY <1>6, <1>7

\* Before the clock is set back, a sample gets its own time.
LEMMA NotClampedYet ==
  ASSUME HistInv, Past, ~stepped
  PROVE  Clamped(now) = now
<1>1. hist # <<>> => Last(hist) = hist[Len(hist)] /\ Len(hist) \in 1..Len(hist)
  BY TypeOKParts DEF HistInv, NumbersOK, Last
<1>2. hist # <<>> => Last(hist).t <= now /\ Last(hist).t \in Nat
  BY <1>1, SampleFacts DEF Past
<1> QED
  BY <1>2, SampleFacts DEF Clamped

\* A report, with where the car is, or with no position.
LEMMA RecordKeeps ==
  ASSUME PlaceInv, NEW p \in Int, NEW fix \in BOOLEAN, _record(now, p, fix), fix => p = pos,
         UNCHANGED world
  PROVE  /\ Past' /\ NearCar' /\ NearHeard' /\ DropSeen'
         /\ hist' # <<>> /\ hist'[Len(hist')].fix = fix
<1>1. HistInv /\ Past /\ NearCar /\ NearHeard /\ DropSeen
  BY DEF PlaceInv
<1>2. now' = now /\ pos' = pos /\ heard' = heard /\ stepped' = stepped
  BY DEF world
<1>3. now \in Nat /\ pos \in Int /\ Len(hist) \in Nat /\ Speed \in Nat
  BY <1>1, SampleFacts
<1>4. PICK k \in Nat : /\ Len(hist') = Len(hist) + 1 - k
                       /\ \A i \in 1..Len(hist') - 1 :
                            i + k \in 1..Len(hist) /\ hist'[i] = hist[i + k]
                       /\ hist' # <<>>
  BY <1>1, <1>3, RecordShape
<1>5. /\ Len(hist') \in Nat \ {0}
      /\ hist'[Len(hist')] = [t |-> Clamped(now), lat |-> p, fix |-> fix]
  BY <1>1, <1>3, RecordShape
<1> DEFINE n == Len(hist')
<1>6. hist'[n].fix = fix /\ hist'[n].lat = p /\ (~stepped => hist'[n].t = now)
  BY <1>1, <1>5, NotClampedYet
<1>7. \A i \in 1..n : i = n \/ (i \in 1..n - 1 /\ i + k \in 1..Len(hist) /\ hist'[i] = hist[i + k])
  <2>1. n \in Nat
    BY <1>5
  <2>2. \A i \in 1..n - 1 : i + k \in 1..Len(hist) /\ hist'[i] = hist[i + k]
    BY <1>4
  <2> HIDE DEF n
  <2> SUFFICES ASSUME NEW i \in 1..n, i # n
               PROVE  i \in 1..n - 1 /\ i + k \in 1..Len(hist) /\ hist'[i] = hist[i + k]
    OBVIOUS
  <2>3. i \in 1..n - 1
    BY <2>1
  <2> QED
    BY <2>2, <2>3
<1> HIDE DEF n
<1>8. ASSUME ~stepped
      PROVE  \A i \in 1..n : hist'[i].t <= now
  BY <1>1, <1>3, <1>6, <1>7, <1>8 DEF Past
<1>9. ASSUME ~stepped, NEW i \in 1..n, hist'[i].fix
      PROVE  Near(pos, hist'[i].lat, now - hist'[i].t)
  <2>1. CASE i = n
    <3>1. hist'[i].lat = pos /\ now - hist'[i].t = 0
      BY <1>3, <1>6, <1>9, <2>1
    <3> QED
      BY <1>3, <3>1 DEF Near
  <2>2. CASE i # n
    BY <1>1, <1>7, <1>9, <2>2 DEF NearCar
  <2> QED
    BY <2>1, <2>2
<1>10. ASSUME ~stepped, NEW i \in 1..n, NEW o \in heard, hist'[i].fix
       PROVE  Near(hist'[i].lat, o.at, Abs(hist'[i].t - o.t))
  <2>1. CASE i = n
    <3>1. hist'[i].lat = pos /\ hist'[i].t = now
      BY <1>6, <1>10, <2>1
    <3>2. o.t \in Nat /\ o.t <= now
      BY <1>1, <1>10, SampleFacts DEF Past
    <3>3. Abs(now - o.t) = now - o.t
      BY <1>3, <3>2 DEF Abs
    <3>4. Near(pos, o.at, now - o.t)
      BY <1>1, <1>10 DEF NearCar
    <3> QED
      BY <3>1, <3>3, <3>4
  <2>2. CASE i # n
    BY <1>1, <1>7, <1>10, <2>2 DEF NearHeard
  <2> QED
    BY <2>1, <2>2
<1>11. ASSUME ~stepped, NEW i \in 1..n, NEW o \in heard, o.dropped, hist'[i].fix, hist'[i].t < o.t
       PROVE  i < n /\ hist'[i + 1].t <= o.t
  <2>1. o.t \in Nat /\ o.t <= now
    BY <1>1, <1>11, SampleFacts DEF Past
  <2>2. i # n
    BY <1>3, <1>6, <1>11, <2>1
  <2>3. i + k \in 1..Len(hist) /\ hist'[i] = hist[i + k] /\ i < n /\ i \in Nat /\ n \in Nat
    BY <1>5, <1>7, <2>2 DEF n
  <2>4. i + k < Len(hist) /\ hist[i + k + 1].t <= o.t
    BY <1>1, <1>11, <2>3 DEF DropSeen
  <2>5. i + 1 < n /\ i + 1 \in 1..n
    BY <1>3, <1>4, <2>3, <2>4 DEF n
  <2>6. hist'[i + 1] = hist[i + 1 + k] /\ i + 1 + k = i + k + 1
    BY <1>7, <2>3, <2>5
  <2> QED
    BY <2>3, <2>4, <2>6
<1>12. Past' /\ NearCar'
  BY <1>1, <1>2, <1>8, <1>9 DEF Past, NearCar, Near, n
<1>13. NearHeard' /\ DropSeen'
  BY <1>2, <1>10, <1>11 DEF NearHeard, DropSeen, Near, Abs, n
<1> QED
  BY <1>4, <1>6, <1>12, <1>13 DEF n

LEMMA NearGrows ==
  ASSUME NEW p \in Int, NEW q \in Int, NEW d \in Int, NEW way \in -Speed..Speed, Near(p, q, d)
  PROVE  Near(p + way, q, d + 1)
<1>1. Speed \in Nat
  BY GpsAssumption DEF GpsAssumption
<1>2. way \in Int /\ way <= Speed /\ -Speed <= way
  BY <1>1
<1>3. Speed * (d + 1) = Speed * d + Speed /\ Speed * d \in Int
  BY <1>1
<1> QED
  BY <1>1, <1>2, <1>3 DEF Near

LEMMA InitPlace == Init => PlaceInv
<1> SUFFICES ASSUME Init PROVE PlaceInv
  OBVIOUS
<1>1. Len(hist) = 0 /\ heard = {} /\ now = 1 /\ lastUpdate = 0
  BY DEF Init
<1>2. Live /\ Past /\ NearCar /\ NearHeard /\ DropSeen
  BY <1>1 DEF Live, Past, NearCar, NearHeard, DropSeen
<1> QED
  BY <1>2, InitHistInv DEF PlaceInv

\* What the car, the reader and the scanners do keeps everything in its place.
LEMMA NextPlace ==
  ASSUME PlaceInv, [Next]_vars
  PROVE  PlaceInv'
<1>0. HistInv /\ Live /\ Past /\ NearCar /\ NearHeard /\ DropSeen
  BY DEF PlaceInv
<1>a. HistInv'
  BY <1>0, NextHistInv
<1>b. now \in Nat /\ pos \in Int /\ now >= 1 /\ lat \in Int /\ Len(hist) \in Nat
  BY <1>0, SampleFacts, TypeOKParts DEF HistInv, NumbersOK, Live
<1>c. SUFFICES Live' /\ Past' /\ NearCar' /\ NearHeard' /\ DropSeen'
  BY <1>a DEF PlaceInv
<1>1. ASSUME NEW mode \in {2, 3}, TpvFix(mode)
      PROVE  Live' /\ Past' /\ NearCar' /\ NearHeard' /\ DropSeen'
  <2>1. PICK fix \in BOOLEAN : _record(now, pos, fix)
    <3>1. _record(now, pos, mode = 3 /\ sats >= MinSats)
      BY <1>1 DEF TpvFix
    <3>2. (mode = 3 /\ sats >= MinSats) \in BOOLEAN
      OBVIOUS
    <3> QED
      BY <3>1, <3>2
  <2>2. UNCHANGED world /\ quality' = mode
    BY <1>1 DEF TpvFix
  <2>3. /\ Past' /\ NearCar' /\ NearHeard' /\ DropSeen' /\ hist' # <<>>
    BY <1>b, <2>1, <2>2, RecordKeeps
  <2>4. Live'
    BY <1>b, <2>2, <2>3 DEF Live, world
  <2> QED
    BY <2>3, <2>4
<1>2. CASE TpvNoFix
  <2>1. _record(now, lat, FALSE) /\ UNCHANGED world
    BY <1>2 DEF TpvNoFix
  <2>2. /\ Past' /\ NearCar' /\ NearHeard' /\ DropSeen' /\ hist' # <<>>
        /\ hist'[Len(hist')].fix = FALSE
    BY <1>b, <2>1, RecordKeeps
  <2>3. Live'
    BY <1>b, <2>1, <2>2 DEF Live, world
  <2> QED
    BY <2>2, <2>3
<1>3. CASE UNCHANGED <<hist, world, quality, lastUpdate>>
  <2>1. /\ hist' = hist /\ now' = now /\ pos' = pos /\ heard' = heard /\ stepped' = stepped
        /\ quality' = quality /\ lastUpdate' = lastUpdate
    BY <1>3 DEF world
  <2>2. Live' /\ Past'
    BY <1>0, <2>1 DEF Live, Past
  <2>3. NearCar' /\ NearHeard' /\ DropSeen'
    BY <1>0, <2>1 DEF NearCar, NearHeard, DropSeen, Near, Abs
  <2> QED
    BY <2>2, <2>3
<1>4. CASE Restart
  <2>1. /\ hist' = <<>> /\ lastUpdate' = 0 /\ now' = now /\ pos' = pos /\ heard' = heard
        /\ stepped' = stepped
    BY <1>4 DEF Restart, NewState, world
  <2>2. Len(hist') = 0
    BY <2>1
  <2>3. Live' /\ Past'
    BY <1>0, <1>b, <2>1, <2>2 DEF Live, Past
  <2>4. NearCar' /\ NearHeard' /\ DropSeen'
    BY <1>0, <2>1, <2>2 DEF NearCar, NearHeard, DropSeen, Near
  <2> QED
    BY <2>3, <2>4
<1>5. CASE EndScan
  <2>1. /\ heard' = {} /\ hist' = hist /\ now' = now /\ pos' = pos /\ stepped' = stepped
        /\ quality' = quality /\ lastUpdate' = lastUpdate
    BY <1>5 DEF EndScan, state
  <2>2. Live' /\ Past'
    BY <1>0, <2>1 DEF Live, Past
  <2>3. NearCar' /\ NearHeard' /\ DropSeen'
    BY <1>0, <2>1 DEF NearCar, NearHeard, DropSeen, Near
  <2> QED
    BY <2>2, <2>3
<1>6. CASE Hear
  <2>1. /\ hist' = hist /\ now' = now /\ pos' = pos /\ stepped' = stepped
        /\ quality' = quality /\ lastUpdate' = lastUpdate
    BY <1>6 DEF Hear, state
  <2> DEFINE new == [t |-> now, at |-> pos, dropped |-> lastUpdate # 0 /\ quality = 0]
  <2>2. heard' = heard \cup {new}
    BY <1>6 DEF Hear
  <2>3. /\ new.t = now /\ new.at = pos /\ (new.dropped => hist # <<>> /\ ~hist[Len(hist)].fix)
    BY <1>0 DEF Live
  <2> HIDE DEF new
  <2>4. Live' /\ Past'
    BY <1>0, <1>b, <2>1, <2>2, <2>3 DEF Live, Past
  <2>5. Near(pos, new.at, now - new.t)
    <3>1. pos - new.at = 0 /\ now - new.t = 0
      BY <1>b, <2>3
    <3>2. Speed * 0 = 0
      BY <1>0, SampleFacts
    <3> QED
      BY <1>b, <2>3, <3>1, <3>2 DEF Near
  <2>6. NearCar'
    BY <1>0, <2>1, <2>2, <2>5 DEF NearCar, Near
  <2>7. ASSUME ~stepped, NEW i \in 1..Len(hist), hist[i].fix
        PROVE  Near(hist[i].lat, new.at, Abs(hist[i].t - new.t))
    <3>1. Near(pos, hist[i].lat, now - hist[i].t) /\ hist[i].t <= now
      BY <1>0, <2>7 DEF NearCar, Past
    <3>2. hist[i].t \in Nat
      BY <1>0, SampleFacts
    <3>3. Abs(hist[i].t - now) = now - hist[i].t
      BY <1>b, <3>1, <3>2 DEF Abs
    <3> QED
      BY <2>3, <3>1, <3>3 DEF Near
  <2>8. NearHeard'
    <3> SUFFICES ASSUME ~stepped, NEW i \in 1..Len(hist), NEW o \in heard', hist[i].fix
                 PROVE  Near(hist[i].lat, o.at, Abs(hist[i].t - o.t))
      BY <2>1 DEF NearHeard, Near, Abs
    <3>1. CASE o \in heard
      BY <1>0, <3>1 DEF NearHeard
    <3>2. CASE o = new
      BY <2>7, <3>2
    <3> QED
      BY <2>2, <3>1, <3>2
  <2>9. DropSeen'
    <3> SUFFICES ASSUME ~stepped, NEW i \in 1..Len(hist), NEW o \in heard',
                        o.dropped, hist[i].fix, hist[i].t < o.t
                 PROVE  i < Len(hist) /\ hist[i + 1].t <= o.t
      BY <2>1 DEF DropSeen
    <3>1. CASE o \in heard
      BY <1>0, <3>1 DEF DropSeen
    <3>2. CASE o = new
      <4>1. i # Len(hist)
        BY <2>3, <3>2
      <4>2. i < Len(hist) /\ i + 1 \in 1..Len(hist)
        BY <1>b, <4>1
      <4> QED
        BY <1>0, <2>3, <3>2, <4>2 DEF Past
    <3> QED
      BY <2>2, <3>1, <3>2
  <2> QED
    BY <2>4, <2>6, <2>8, <2>9
<1>7. CASE Tick
  <2>1. /\ hist' = hist /\ heard' = heard /\ stepped' = stepped /\ now' = now + 1
        /\ quality' = quality /\ lastUpdate' = lastUpdate
    BY <1>7 DEF Tick, state
  <2>2. PICK way \in -Speed..Speed : pos' = pos + way
    BY <1>7, GpsAssumption DEF Tick, GpsAssumption
  <2>3. Live'
    BY <1>0, <1>b, <2>1 DEF Live
  <2>4. Past'
    <3>1. \A i \in 1..Len(hist) : hist[i].t \in Nat
      BY <1>0, SampleFacts
    <3>2. \A o \in heard : o.t \in Nat
      BY <1>0, SampleFacts
    <3> QED
      BY <1>0, <1>b, <2>1, <3>1, <3>2 DEF Past
  <2>5. ASSUME ~stepped, NEW i \in 1..Len(hist), hist[i].fix
        PROVE  Near(pos', hist[i].lat, now' - hist[i].t)
    <3>1. Near(pos, hist[i].lat, now - hist[i].t)
      BY <1>0, <2>5 DEF NearCar
    <3>2. hist[i].t \in Int /\ hist[i].lat \in Int /\ now - hist[i].t \in Int
      BY <1>0, <1>b, SampleFacts
    <3>3. Near(pos + way, hist[i].lat, now - hist[i].t + 1)
      BY <1>b, <3>1, <3>2, NearGrows
    <3>4. now' - hist[i].t = now - hist[i].t + 1
      BY <1>b, <2>1, <3>2
    <3> QED
      BY <2>2, <3>3, <3>4
  <2>6. ASSUME ~stepped, NEW o \in heard
        PROVE  Near(pos', o.at, now' - o.t)
    <3>1. Near(pos, o.at, now - o.t)
      BY <1>0, <2>6 DEF NearCar
    <3>2. o.t \in Int /\ o.at \in Int /\ now - o.t \in Int
      BY <1>0, <1>b, SampleFacts
    <3>3. Near(pos + way, o.at, now - o.t + 1)
      BY <1>b, <3>1, <3>2, NearGrows
    <3>4. now' - o.t = now - o.t + 1
      BY <1>b, <2>1, <3>2
    <3> QED
      BY <2>2, <3>3, <3>4
  <2>7. NearCar'
    BY <2>1, <2>5, <2>6 DEF NearCar, Near
  <2>8. NearHeard' /\ DropSeen'
    BY <1>0, <2>1 DEF NearHeard, DropSeen, Near, Abs
  <2> QED
    BY <2>3, <2>4, <2>7, <2>8
<1>8. CASE StepBack
  <2>1. stepped' = TRUE /\ hist' = hist /\ quality' = quality /\ lastUpdate' = lastUpdate
    BY <1>8 DEF StepBack, state
  <2>2. now' >= 1
    <3>1. PICK earlier \in now - Back .. now - 1 : earlier > 0 /\ now' = earlier
      BY <1>8 DEF StepBack
    <3>2. earlier \in Int
      OBVIOUS
    <3> QED
      BY <3>1, <3>2
  <2>3. Live'
    BY <1>0, <2>1, <2>2 DEF Live
  <2>4. Past' /\ NearCar' /\ NearHeard' /\ DropSeen'
    BY <2>1 DEF Past, NearCar, NearHeard, DropSeen
  <2> QED
    BY <2>3, <2>4
<1>9. ASSUME NEW used \in SatCounts, Sky(used)
      PROVE  UNCHANGED <<hist, world, quality, lastUpdate>>
  BY <1>9 DEF Sky
<1>10. CASE Connect \/ Disconnect \/ StartScan \/ UNCHANGED vars
  <2>1. UNCHANGED <<hist, world, quality, lastUpdate>>
    BY <1>10 DEF Connect, Disconnect, StartScan, vars, state
  <2> QED
    BY <1>3, <2>1
<1> QED
  BY <1>1, <1>2, <1>3, <1>4, <1>5, <1>6, <1>7, <1>8, <1>9, <1>10 DEF Next

-------------------------------------------------------------------------------
(* at(). *)

\* Induction over the natural numbers, for sets.
LEMMA NatSetInduction ==
  ASSUME NEW P, 0 \in P, \A n \in Nat : n \in P => n + 1 \in P
  PROVE  Nat \subseteq P
<1> SUFFICES ASSUME Nat \ P # {} PROVE FALSE
  OBVIOUS
<1>1. \E n \in Nat \ P : \A m \in Nat \ P : ~(<<m, n>> \in OpToRel(<, Nat))
  BY NatLessThanWellFounded, WFMin, Zenon
<1>2. \A m, n \in Nat : m < n => <<m, n>> \in OpToRel(<, Nat)
  BY DEF OpToRel
<1>3. PICK n \in Nat \ P : \A m \in Nat \ P : ~(m < n)
  BY <1>1, <1>2, Zenon
<1>4. n - 1 \in Nat /\ n - 1 < n
  BY <1>3
<1> QED
  BY <1>3, <1>4

\* In a sorted history, the samples up to t come first, and bisect counts them.
LEMMA BisectFacts ==
  ASSUME HistInv, NEW t \in Int
  PROVE  /\ Bisect(t) \in 0..Len(hist)
         /\ \A j \in 1..Len(hist) : j <= Bisect(t) <=> hist[j].t <= t
<1> DEFINE Upto(i, k) == \A j \in 1..k : j <= i <=> hist[j].t <= t
           P == {k \in Nat : k <= Len(hist) => \E i \in 0..k : Upto(i, k)}
<1>1. Len(hist) \in Nat /\ \A j \in 1..Len(hist) : hist[j].t \in Nat
  BY SampleFacts
<1>2. 0 \in P
  <2>1. 0 \in 0..0 /\ Upto(0, 0)
    OBVIOUS
  <2> QED
    BY <2>1
<1>3. ASSUME NEW k \in Nat, k \in P
      PROVE  k + 1 \in P
  <2> SUFFICES ASSUME k + 1 <= Len(hist)
               PROVE  \E i \in 0..k + 1 : Upto(i, k + 1)
    OBVIOUS
  <2>1. PICK i \in 0..k : Upto(i, k)
    BY <1>1, <1>3
  <2>2. k + 1 \in 1..Len(hist)
    BY <1>1
  <2>3. CASE hist[k + 1].t <= t
    <3>1. \A j \in 1..k + 1 : hist[j].t <= t
      <4> SUFFICES ASSUME NEW j \in 1..k + 1, j # k + 1
                   PROVE  hist[j].t <= t
        BY <2>3
      <4>1. j \in 1..Len(hist) /\ j < k + 1
        BY <2>2
      <4>2. hist[j].t <= hist[k + 1].t
        BY <2>2, <4>1 DEF HistInv, Sorted
      <4> QED
        BY <1>1, <2>2, <2>3, <4>1, <4>2
    <3>2. Upto(k + 1, k + 1)
      BY <3>1
    <3> QED
      BY <3>2
  <2>4. CASE ~(hist[k + 1].t <= t)
    <3>1. Upto(i, k + 1)
      <4> SUFFICES ASSUME NEW j \in 1..k + 1
                   PROVE  j <= i <=> hist[j].t <= t
        OBVIOUS
      <4>1. CASE j = k + 1
        BY <2>1, <2>4, <4>1
      <4>2. CASE j # k + 1
        <5>1. j \in 1..k
          BY <4>2
        <5> QED
          BY <2>1, <5>1
      <4> QED
        BY <4>1, <4>2
    <3>2. i \in 0..k + 1
      OBVIOUS
    <3> QED
      BY <3>1, <3>2
  <2> QED
    BY <2>3, <2>4
<1>4. \E i \in 0..Len(hist) : Upto(i, Len(hist))
  <2> HIDE DEF Upto
  <2>1. Nat \subseteq P
    <3> HIDE DEF P
    <3> QED
      BY <1>2, <1>3, NatSetInduction
  <2> QED
    BY <1>1, <2>1
<1>5. PICK i \in 0..Len(hist) : Upto(i, Len(hist))
  BY <1>4
<1>6. DOMAIN hist = 1..Len(hist)
  BY TypeOKParts DEF HistInv, NumbersOK
<1>7. {k \in DOMAIN hist : hist[k].t <= t} = 1..i
  <2>1. ASSUME NEW k \in 1..i
        PROVE  k \in 1..Len(hist) /\ hist[k].t <= t
    BY <1>1, <1>5
  <2>2. ASSUME NEW k \in 1..Len(hist), hist[k].t <= t
        PROVE  k \in 1..i
    BY <1>5, <2>2
  <2> QED
    BY <1>6, <2>1, <2>2
<1>8. Bisect(t) = i
  <2>1. i \in Nat
    BY <1>1
  <2>2. Cardinality(1..i) = i
    BY <2>1, FS_Interval
  <2> QED
    BY <1>7, <2>2 DEF Bisect
<1> QED
  BY <1>5, <1>8

\* The ways at() answers with a fix: from a sample at most max_gap_s away, or from a
\* point between two samples.
LEMMA AtFacts ==
  ASSUME PlaceInv, NEW t \in Nat, at(t).fix
  PROVE  \/ \E i \in 1..Len(hist) :
              hist[i].fix /\ Abs(hist[i].t - t) <= MaxGap
              /\ at(t) = [fix |-> TRUE, num |-> hist[i].lat, den |-> 1]
         \/ \E i \in 1..Len(hist) - 1 :
              LET a == hist[i]  b == hist[i + 1]
              IN  /\ a.fix /\ b.fix /\ a.t <= t /\ t < b.t /\ b.t - a.t <= MaxGap * 4
                  /\ at(t) = [fix |-> TRUE, den |-> b.t - a.t,
                              num |-> a.lat * (b.t - a.t) + (b.lat - a.lat) * (t - a.t)]
<1>1. HistInv /\ Live
  BY DEF PlaceInv
<1>2. /\ Len(hist) \in Nat
      /\ \A i \in 1..Len(hist) : hist[i].t \in Nat /\ hist[i].fix \in BOOLEAN
      /\ MaxGap \in Nat
  BY <1>1, SampleFacts
<1>3. hist # <<>>
  <2>1. hist = <<>> => lastUpdate = 0
    BY <1>1 DEF Live
  <2> QED
    BY <2>1 DEF at
<1>4. PICK i : i = Bisect(t)
  OBVIOUS
<1>5. i \in 0..Len(hist) /\ \A j \in 1..Len(hist) : j <= i <=> hist[j].t <= t
  <2>1. t \in Int
    OBVIOUS
  <2> QED
    BY <1>1, <1>4, <2>1, BisectFacts
<1>6. Len(hist) # 0
  BY <1>3, TypeOKParts, <1>1 DEF HistInv, NumbersOK
<1>7. ASSUME NEW j \in 1..Len(hist), NEW gap, at(t) = AtIndex(j, gap), gap = Abs(hist[j].t - t)
      PROVE  \E k \in 1..Len(hist) :
               hist[k].fix /\ Abs(hist[k].t - t) <= MaxGap
               /\ at(t) = [fix |-> TRUE, num |-> hist[k].lat, den |-> 1]
  <2>a. AtIndex(j, gap).fix = (hist[j].fix /\ gap <= MaxGap)
    BY DEF AtIndex
  <2>1. hist[j].fix /\ gap <= MaxGap
    BY <1>7, <2>a, Zenon
  <2>2. (hist[j].fix /\ gap <= MaxGap) = TRUE
    BY <1>2, <2>1
  <2>3. at(t) = [fix |-> TRUE, num |-> hist[j].lat, den |-> 1]
    BY <1>7, <2>2 DEF AtIndex
  <2> QED
    BY <1>7, <2>1, <2>3
<1>8. CASE i = 0
  <2>1. 1 \in 1..Len(hist) /\ ~(hist[1].t <= t)
    BY <1>2, <1>5, <1>6, <1>8
  <2>2. Abs(hist[1].t - t) = hist[1].t - t
    BY <1>2, <2>1 DEF Abs
  <2>3. at(t) = AtIndex(1, hist[1].t - t)
    BY <1>3, <1>4, <1>8 DEF at
  <2> QED
    BY <1>7, <2>1, <2>2, <2>3
<1>9. CASE i = Len(hist)
  <2>1. i \in 1..Len(hist) /\ hist[i].t <= t
    BY <1>2, <1>5, <1>6, <1>9
  <2>2. Abs(hist[i].t - t) = t - hist[i].t
    BY <1>2, <2>1 DEF Abs
  <2>3. at(t) = AtIndex(i, t - hist[i].t)
    BY <1>3, <1>4, <1>6, <1>9 DEF at
  <2> QED
    BY <1>7, <2>1, <2>2, <2>3
<1>10. CASE i # 0 /\ i # Len(hist)
  <2>1. i \in 1..Len(hist) - 1 /\ i \in 1..Len(hist) /\ i + 1 \in 1..Len(hist)
    BY <1>2, <1>5, <1>10
  <2>2. hist[i].t <= t /\ ~(hist[i + 1].t <= t)
    BY <1>5, <2>1
  <2>3. at(t) = Between(i, t)
    BY <1>3, <1>4, <1>10 DEF at
  <2>4. CASE NoLine(hist[i], hist[i + 1])
    <3> DEFINE near == IF t - hist[i].t <= hist[i + 1].t - t THEN i ELSE i + 1
    <3>1. near \in 1..Len(hist)
      BY <2>1
    <3>2. Between(i, t) = AtIndex(near, Abs(t - hist[near].t))
      BY <2>4 DEF Between
    <3> HIDE DEF near
    <3>3. Abs(t - hist[near].t) = Abs(hist[near].t - t)
      BY <1>2, <3>1 DEF Abs
    <3> QED
      BY <1>7, <2>3, <3>1, <3>2, <3>3
  <2>5. CASE ~NoLine(hist[i], hist[i + 1])
    <3>1. at(t) = [fix |-> TRUE, den |-> hist[i + 1].t - hist[i].t,
                   num |-> hist[i].lat * (hist[i + 1].t - hist[i].t)
                             + (hist[i + 1].lat - hist[i].lat) * (t - hist[i].t)]
      BY <2>3, <2>5 DEF Between
    <3>2. hist[i].fix /\ hist[i + 1].fix /\ ~(hist[i + 1].t - hist[i].t > MaxGap * 4)
      BY <2>5 DEF NoLine
    <3>3. hist[i + 1].t - hist[i].t <= MaxGap * 4 /\ t < hist[i + 1].t
      BY <1>2, <2>1, <2>2, <3>2
    <3> QED
      BY <2>1, <2>2, <3>1, <3>2, <3>3
  <2> QED
    BY <2>4, <2>5
<1> QED
  BY <1>8, <1>9, <1>10

\* A sample that is close enough is near.
LEMMA SampleNear ==
  ASSUME PlaceInv, ~stepped, NEW o \in heard, NEW i \in 1..Len(hist), hist[i].fix,
         Abs(hist[i].t - o.t) <= MaxGap
  PROVE  Within([fix |-> TRUE, num |-> hist[i].lat, den |-> 1], o.at, 2 * MaxGap * Speed)
<1>1. /\ hist[i].t \in Nat /\ hist[i].lat \in Int /\ o.t \in Nat /\ o.at \in Int
      /\ Speed \in Nat /\ MaxGap \in Nat
  BY SampleFacts DEF PlaceInv
<1> DEFINE d == Abs(hist[i].t - o.t)
           x == hist[i].lat - o.at
<1>2. d \in Nat /\ d <= MaxGap /\ x \in Int
  BY <1>1 DEF Abs
<1>3. x <= Speed * d /\ -x <= Speed * d
  <2>1. Near(hist[i].lat, o.at, d)
    BY DEF PlaceInv, NearHeard
  <2>2. -x = o.at - hist[i].lat
    BY <1>1
  <2> QED
    BY <2>1, <2>2 DEF Near
<1> HIDE DEF d
<1>4. d * Speed <= MaxGap * Speed
  BY <1>1, <1>2, TimesMonotone
<1>5. /\ Speed * d = d * Speed /\ d * Speed \in Nat /\ MaxGap * Speed \in Nat
      /\ 2 * MaxGap * Speed * 1 = 2 * (MaxGap * Speed)
  BY <1>1, <1>2
<1>6. hist[i].lat - o.at * 1 = x
  BY <1>1
<1> HIDE DEF x
<1>7. Abs(x) <= 2 * MaxGap * Speed * 1
  BY <1>2, <1>3, <1>4, <1>5 DEF Abs
<1> QED
  BY <1>6, <1>7 DEF Within

\* A point of the line between two samples is near if both are.
LEMMA LineIsNear ==
  ASSUME PlaceInv, ~stepped, NEW o \in heard, NEW i \in 1..Len(hist) - 1,
         hist[i].fix, hist[i + 1].fix, hist[i].t <= o.t, o.t < hist[i + 1].t,
         hist[i + 1].t - hist[i].t <= MaxGap * 4
  PROVE  Within([fix |-> TRUE, den |-> hist[i + 1].t - hist[i].t,
                 num |-> hist[i].lat * (hist[i + 1].t - hist[i].t)
                           + (hist[i + 1].lat - hist[i].lat) * (o.t - hist[i].t)],
                o.at, 2 * MaxGap * Speed)
<1>1. i \in 1..Len(hist) /\ i + 1 \in 1..Len(hist)
  BY SampleFacts DEF PlaceInv
<1>2. PICK a, b, p, q, r, t :
        /\ a = hist[i].t /\ b = hist[i + 1].t /\ p = hist[i].lat /\ q = hist[i + 1].lat
        /\ r = o.at /\ t = o.t
  OBVIOUS
<1>3. /\ a \in Nat /\ b \in Nat /\ p \in Int /\ q \in Int /\ r \in Int /\ t \in Nat
      /\ Speed \in Nat /\ MaxGap \in Nat
  BY <1>1, <1>2, SampleFacts DEF PlaceInv
<1>4. a <= t /\ t < b /\ b - a <= MaxGap * 4
  BY <1>2
<1> DEFINE x == t - a
           y == b - t
           u == p - r
           v == q - r
<1>5. x \in Nat /\ y \in Nat /\ u \in Int /\ v \in Int /\ x + y = b - a /\ x + y <= 4 * MaxGap
  BY <1>3, <1>4
<1>6. u <= Speed * x /\ -u <= Speed * x /\ v <= Speed * y /\ -v <= Speed * y
  <2>1. Near(p, r, Abs(a - t)) /\ Near(q, r, Abs(b - t))
    BY <1>1, <1>2 DEF PlaceInv, NearHeard
  <2>2. Abs(a - t) = x /\ Abs(b - t) = y
    BY <1>3, <1>4 DEF Abs
  <2>3. -u = r - p /\ -v = r - q
    BY <1>3
  <2> QED
    BY <2>1, <2>2, <2>3 DEF Near
<1> DEFINE num == p * (b - a) + (q - p) * (t - a)
           z == u * y + v * x
           bound == 2 * MaxGap * Speed * (x + y)
<1>7. num - r * (b - a) = z
  BY <1>3
<1>8. z <= bound /\ -z <= bound
  <2> HIDE DEF x, y, u, v
  <2> QED
    BY <1>3, <1>5, <1>6, LineNear
<1>9. z \in Int /\ bound \in Int
  <2> HIDE DEF x, y, u, v
  <2> QED
    BY <1>3, <1>5
<1>10. bound = 2 * MaxGap * Speed * (b - a)
  BY <1>5
<1> HIDE DEF num, z, bound, x, y, u, v
<1>12. Abs(num - r * (b - a)) <= 2 * MaxGap * Speed * (b - a)
  BY <1>7, <1>8, <1>9, <1>10 DEF Abs
<1>13. Within([fix |-> TRUE, den |-> b - a, num |-> num], r, 2 * MaxGap * Speed)
  BY <1>12 DEF Within
<1> QED
  BY <1>2, <1>13 DEF num

LEMMA PlacedNear == PlaceInv => TaggedNearTruth
<1> SUFFICES ASSUME PlaceInv, ~stepped, NEW o \in heard, at(o.t).fix
             PROVE  Within(at(o.t), o.at, 2 * MaxGap * Speed)
  BY DEF TaggedNearTruth
<1>1. o.t \in Nat
  BY SampleFacts DEF PlaceInv
<1>2. CASE \E i \in 1..Len(hist) :
             hist[i].fix /\ Abs(hist[i].t - o.t) <= MaxGap
             /\ at(o.t) = [fix |-> TRUE, num |-> hist[i].lat, den |-> 1]
  BY <1>2, SampleNear
<1>3. CASE \E i \in 1..Len(hist) - 1 :
             LET a == hist[i]  b == hist[i + 1]
             IN  /\ a.fix /\ b.fix /\ a.t <= o.t /\ o.t < b.t /\ b.t - a.t <= MaxGap * 4
                 /\ at(o.t) = [fix |-> TRUE, den |-> b.t - a.t,
                               num |-> a.lat * (b.t - a.t) + (b.lat - a.lat) * (o.t - a.t)]
  BY <1>3, LineIsNear
<1> QED
  BY <1>1, <1>2, <1>3, AtFacts

LEMMA NotBridged == PlaceInv => DropoutNotBridged
<1> SUFFICES ASSUME PlaceInv, ~stepped, NEW o \in heard, o.dropped, at(o.t).fix
             PROVE  \E s \in ToSet(hist) : s.fix /\ Abs(s.t - o.t) <= MaxGap
  BY DEF DropoutNotBridged
<1>1. o.t \in Nat /\ MaxGap \in Nat /\ \A i \in 1..Len(hist) : hist[i].t \in Nat
  BY SampleFacts DEF PlaceInv
<1>2. \A i \in 1..Len(hist) : hist[i] \in ToSet(hist)
  BY TypeOKParts DEF PlaceInv, HistInv, NumbersOK, ToSet
<1>3. \/ \E i \in 1..Len(hist) : hist[i].fix /\ Abs(hist[i].t - o.t) <= MaxGap
      \/ \E i \in 1..Len(hist) - 1 :
           hist[i].fix /\ hist[i].t <= o.t /\ o.t < hist[i + 1].t
  BY <1>1, AtFacts
<1>4. CASE \E i \in 1..Len(hist) : hist[i].fix /\ Abs(hist[i].t - o.t) <= MaxGap
  BY <1>2, <1>4
<1>5. ASSUME NEW i \in 1..Len(hist) - 1, hist[i].fix, hist[i].t <= o.t, o.t < hist[i + 1].t
      PROVE  \E s \in ToSet(hist) : s.fix /\ Abs(s.t - o.t) <= MaxGap
  <2>1. i \in 1..Len(hist) /\ i + 1 \in 1..Len(hist)
    BY SampleFacts DEF PlaceInv
  <2>2. ~(hist[i + 1].t <= o.t)
    BY <1>1, <1>5, <2>1
  <2>3. ~(hist[i].t < o.t)
    BY <1>5, <2>1, <2>2 DEF PlaceInv, DropSeen
  <2>4. Abs(hist[i].t - o.t) <= MaxGap
    BY <1>1, <1>5, <2>1, <2>3 DEF Abs
  <2> QED
    BY <1>2, <1>5, <2>1, <2>4
<1> QED
  BY <1>3, <1>4, <1>5

\* A row's position, if it has a fix, is where the car was when the row's device was
\* heard, give or take the way it makes in two DEFAULT_MAX_GAP_S, whatever gpsd
\* reported in between and whenever at() is asked (gps.py:113-156).
THEOREM GpsTaggedNearTruth == Spec => []TaggedNearTruth
BY InitPlace, NextPlace, PlacedNear, PTL DEF Spec

\* What was heard in a dropout is placed by a fix at most DEFAULT_MAX_GAP_S away, and
\* never on a line across the dropout (gps.py:137-142).
THEOREM GpsDropoutNotBridged == Spec => []DropoutNotBridged
BY InitPlace, NextPlace, NotBridged, PTL DEF Spec

-------------------------------------------------------------------------------
(* The table. *)

\* What the table holds of each device is its latest row.  Who has a row and is
\* not in the table has been driven out, or was found stale.
Table ==
  /\ IsFiniteSet(DOMAIN seen)
  /\ DOMAIN seen \subseteq DOMAIN lastRow
  /\ \A k \in DOMAIN seen : seen[k] = lastRow[k]
  /\ \A k \in DOMAIN lastRow : lastRow[k] \in Entry
  /\ \A k \in DOMAIN lastRow \ (DOMAIN seen \cup evicted) :
       lastRow[k].t < clock - PruneAfter

LEMMA SightingFacts ==
  ASSUME GateTypes, NEW k \in Keys, NEW s \in Sightings(k)
  PROVE  s \in Entry /\ s.t <= clock /\ clock - Lag <= s.t
<1> USE DedupAssumption
<1>1. clock \in Int /\ place \in Nat /\ Lag \in Int /\ Rssis[k] \subseteq Int
  BY DEF GateTypes
<1>2. \A t \in clock - Lag .. clock : t \in Int /\ t <= clock /\ clock - Lag <= t
  BY <1>1
<1> QED
  BY <1>1, <1>2 DEF Sightings, Entry

\* The entries that stay when the device k makes room for itself.
LEMMA RoomFacts ==
  ASSUME GateTypes, Table, NEW t \in Int, NEW E \in Evictions(t)
  PROVE  /\ Kept(t) \subseteq DOMAIN seen /\ E \subseteq Kept(t)
         /\ \A a \in DOMAIN seen \ Kept(t) : seen[a].t < t - PruneAfter
         /\ ~Full => Kept(t) \ E = DOMAIN seen
         /\ IsFiniteSet(Kept(t) \ E)
         /\ Cardinality(Kept(t) \ E) < MaxEntries
<1> USE DedupAssumption
<1>1. /\ Kept(t) \subseteq DOMAIN seen
      /\ \A a \in DOMAIN seen \ Kept(t) : seen[a].t < t - PruneAfter
      /\ ~Full => Kept(t) = DOMAIN seen
  BY DEF Kept, Stale
<1>2. /\ E \subseteq Kept(t)
      /\ \/ Cardinality(Kept(t)) >= MaxEntries /\ Cardinality(E) = Cardinality(Kept(t)) \div 4
         \/ ~(Cardinality(Kept(t)) >= MaxEntries) /\ E = {}
  BY DEF Evictions, OldestQuarters
<1>3. /\ IsFiniteSet(DOMAIN seen) /\ IsFiniteSet(Kept(t)) /\ IsFiniteSet(E)
      /\ IsFiniteSet(Kept(t) \ E)
  <2>1. IsFiniteSet(DOMAIN seen) /\ IsFiniteSet(Kept(t))
    BY <1>1, FS_Subset DEF Table
  <2> QED
    BY <1>2, <2>1, FS_Subset
<1>4. /\ Cardinality(DOMAIN seen) \in Nat /\ Cardinality(Kept(t)) \in Nat
      /\ Cardinality(E) \in Nat /\ Cardinality(Kept(t)) <= Cardinality(DOMAIN seen)
      /\ Cardinality(DOMAIN seen) <= MaxEntries
  <2>1. Cardinality(Kept(t)) <= Cardinality(DOMAIN seen)
    BY <1>1, <1>3, FS_Subset
  <2> QED
    BY <1>3, <2>1, FS_CardinalityType DEF GateTypes
<1>5. Cardinality(Kept(t) \ E) = Cardinality(Kept(t)) - Cardinality(E)
  <2>1. Kept(t) \cap E = E
    BY <1>2
  <2> QED
    BY <1>3, <2>1, FS_Difference
<1>6. Cardinality(Kept(t) \ E) < MaxEntries
  <2>1. CASE Cardinality(Kept(t)) >= MaxEntries
    <3>1. Cardinality(Kept(t)) >= 4 /\ Cardinality(Kept(t)) \div 4 >= 1
      BY <1>4, <2>1
    <3>2. Cardinality(E) >= 1
      BY <1>2, <2>1, <3>1
    <3> QED
      BY <1>4, <1>5, <3>2
  <2>2. CASE ~(Cardinality(Kept(t)) >= MaxEntries)
    <3>1. Kept(t) \ E = Kept(t)
      BY <1>2, <2>2
    <3> QED
      BY <1>4, <2>2, <3>1
  <2> QED
    BY <2>1, <2>2
<1>7. ~Full => Kept(t) \ E = DOMAIN seen
  BY <1>1, <1>2, <1>4 DEF Full
<1> QED
  BY <1>1, <1>2, <1>3, <1>6, <1>7

-------------------------------------------------------------------------------
(* The steps. *)

\* A new device: room is made, its row written.
LEMMA WriteNewFacts ==
  ASSUME GateTypes, Table, NEW k \in Keys, NEW s \in Sightings(k), WriteNew(k, s),
         UNCHANGED <<clock, place>>
  PROVE  GateTypes' /\ Table'
<1> USE DedupAssumption
<1>0. s \in Entry /\ s.t \in Int /\ s.t <= clock /\ clock \in Nat /\ k \notin DOMAIN seen
  BY SightingFacts DEF WriteNew, Entry, GateTypes
<1>1. PICK E \in Evictions(s.t) :
        /\ seen' = With(Restrict(seen, Kept(s.t) \ E), k, s)
        /\ evicted' = (evicted \cup E) \ {k}
  BY DEF WriteNew
<1> DEFINE Stay == Kept(s.t) \ E
<1>2. /\ Kept(s.t) \subseteq DOMAIN seen /\ E \subseteq Kept(s.t)
      /\ \A a \in DOMAIN seen \ Kept(s.t) : seen[a].t < s.t - PruneAfter
      /\ ~Full => Stay = DOMAIN seen
      /\ IsFiniteSet(Stay) /\ Cardinality(Stay) < MaxEntries
  BY <1>0, RoomFacts
<1>3. /\ DOMAIN seen' = Stay \cup {k} /\ seen'[k] = s
      /\ \A x \in Stay : seen'[x] = seen[x]
  <2>1. k \notin Stay
    BY <1>0, <1>2
  <2> HIDE DEF Stay
  <2>2. DOMAIN Restrict(seen, Stay) = Stay /\ \A x \in Stay : Restrict(seen, Stay)[x] = seen[x]
    BY DEF Restrict
  <2>3. seen' = With(Restrict(seen, Stay), k, s)
    BY <1>1 DEF Stay
  <2> QED
    BY <2>1, <2>2, <2>3 DEF With
<1>4. /\ DOMAIN lastRow' = DOMAIN lastRow \cup {k} /\ lastRow'[k] = s
      /\ \A x \in DOMAIN lastRow \ {k} : lastRow'[x] = lastRow[x]
      /\ rows' = rows + 1 /\ UNCHANGED <<skipped, unfixed>>
  <2>1. lastRow' = With(lastRow, k, s) /\ rows' = rows + 1 /\ UNCHANGED <<skipped, unfixed>>
    BY DEF WriteNew
  <2> QED
    BY <2>1 DEF With
<1> HIDE DEF Stay
<1>5. /\ Stay \subseteq DOMAIN seen /\ k \notin Stay
      /\ (DOMAIN seen \ Stay) \subseteq E \cup (DOMAIN seen \ Kept(s.t))
  BY <1>0, <1>2 DEF Stay
<1>6. /\ IsFiniteSet(DOMAIN seen')
      /\ Cardinality(DOMAIN seen') <= MaxEntries
  <2>1. IsFiniteSet(Stay \cup {k}) /\ Cardinality(Stay \cup {k}) = Cardinality(Stay) + 1
    BY <1>2, <1>5, FS_AddElement
  <2>2. Cardinality(Stay) \in Nat
    BY <1>2, FS_CardinalityType
  <2> QED
    BY <1>2, <1>3, <2>1, <2>2
<1>7. GateTypes'
  <2>1. DOMAIN seen' \subseteq Keys /\ \A x \in DOMAIN seen' : seen'[x] \in Entry
    BY <1>0, <1>3, <1>5 DEF GateTypes
  <2>2. DOMAIN lastRow' \subseteq Keys /\ evicted' \subseteq Keys
    BY <1>1, <1>2, <1>4 DEF GateTypes
  <2>3. {rows', skipped', unfixed'} \subseteq Nat
    BY <1>4 DEF GateTypes
  <2> QED
    BY <1>6, <2>1, <2>2, <2>3 DEF GateTypes
<1>8. Table'
  <2>1. DOMAIN seen' \subseteq DOMAIN lastRow'
    BY <1>3, <1>4, <1>5 DEF Table
  <2>2. \A x \in DOMAIN seen' : seen'[x] = lastRow'[x]
    BY <1>3, <1>4, <1>5 DEF Table
  <2>3. \A x \in DOMAIN lastRow' : lastRow'[x] \in Entry
    BY <1>0, <1>4 DEF Table
  <2>4. ASSUME NEW x \in DOMAIN lastRow' \ (DOMAIN seen' \cup evicted')
        PROVE  lastRow'[x].t < clock' - PruneAfter
    <3>1. x \in DOMAIN lastRow /\ x # k /\ x \notin Stay /\ x \notin E /\ x \notin evicted
      BY <1>1, <1>3, <1>4, <2>4
    <3>2. lastRow'[x] = lastRow[x] /\ lastRow[x].t \in Int
      BY <1>4, <3>1 DEF Table, Entry
    <3>3. CASE x \in DOMAIN seen
      <4>1. lastRow[x].t < s.t - PruneAfter
        BY <1>2, <1>5, <3>1, <3>3 DEF Table
      <4> QED
        BY <1>0, <3>2, <4>1
    <3>4. CASE x \notin DOMAIN seen
      BY <3>1, <3>2, <3>4 DEF Table
    <3> QED
      BY <3>3, <3>4
  <2> QED
    BY <1>6, <2>1, <2>2, <2>3, <2>4 DEF Table
<1> QED
  BY <1>7, <1>8

\* A device in the table gets its next row.
LEMMA WriteAgainFacts ==
  ASSUME GateTypes, Table, NEW k \in Keys, NEW s \in Sightings(k), WriteAgain(k, s),
         UNCHANGED <<clock, place>>
  PROVE  GateTypes' /\ Table' /\ DOMAIN seen' = DOMAIN seen
<1>0. s \in Entry /\ k \in DOMAIN seen
  BY SightingFacts DEF WriteAgain
<1>1. /\ DOMAIN seen' = DOMAIN seen /\ seen'[k] = s
      /\ \A x \in DOMAIN seen \ {k} : seen'[x] = seen[x]
      /\ DOMAIN lastRow' = DOMAIN lastRow /\ lastRow'[k] = s
      /\ \A x \in DOMAIN lastRow \ {k} : lastRow'[x] = lastRow[x]
      /\ rows' = rows + 1 /\ UNCHANGED <<skipped, unfixed, evicted>>
  <2>1. k \in DOMAIN lastRow
    BY <1>0 DEF Table
  <2> QED
    BY <1>0, <2>1 DEF WriteAgain, With
<1>2. GateTypes'
  <2>1. \A x \in DOMAIN seen' : seen'[x] \in Entry
    BY <1>0, <1>1 DEF GateTypes
  <2> QED
    BY <1>1, <2>1 DEF GateTypes
<1>3. Table'
  <2>1. \A x \in DOMAIN seen' : seen'[x] = lastRow'[x]
    BY <1>1 DEF Table
  <2>2. \A x \in DOMAIN lastRow' : lastRow'[x] \in Entry
    BY <1>0, <1>1 DEF Table
  <2>3. \A x \in DOMAIN lastRow' \ (DOMAIN seen' \cup evicted') :
          lastRow'[x].t < clock' - PruneAfter
    BY <1>0, <1>1 DEF Table
  <2> QED
    BY <1>1, <2>1, <2>2, <2>3 DEF Table
<1> QED
  BY <1>1, <1>2, <1>3

LEMMA NextTable ==
  ASSUME GateTypes, Table, [GateNext]_gateVars
  PROVE  GateTypes' /\ Table'
<1> USE DedupAssumption
<1>1. ASSUME NEW k \in Keys, NEW s \in Sightings(k), UNCHANGED <<clock, place>>,
             WriteNew(k, s) \/ WriteAgain(k, s) \/ Refuse(k, s) \/ NoFix(k, s)
      PROVE  GateTypes' /\ Table'
  <2>1. CASE WriteNew(k, s)
    BY <1>1, <2>1, WriteNewFacts
  <2>2. CASE WriteAgain(k, s)
    BY <1>1, <2>2, WriteAgainFacts
  <2>3. CASE Refuse(k, s)
    BY <1>1, <2>3 DEF Refuse, GateTypes, Table
  <2>4. CASE NoFix(k, s)
    BY <1>1, <2>4 DEF NoFix, GateTypes, Table
  <2> QED
    BY <1>1, <2>1, <2>2, <2>3, <2>4
<1>2. CASE Sight
  BY <1>1, <1>2 DEF Sight
<1>3. CASE Drive
  <2>1. /\ clock' = clock + 1 /\ clock \in Nat /\ place' \in Nat
        /\ UNCHANGED <<seen, rows, skipped, unfixed, lastRow, evicted>>
    BY <1>3 DEF Drive, GateTypes
  <2>2. GateTypes'
    BY <2>1 DEF GateTypes
  <2>3. \A k \in DOMAIN lastRow \ (DOMAIN seen \cup evicted) :
          lastRow[k].t < clock' - PruneAfter
    <3> TAKE k \in DOMAIN lastRow \ (DOMAIN seen \cup evicted)
    <3>1. lastRow[k].t \in Int /\ lastRow[k].t < clock - PruneAfter
      BY DEF Table, Entry
    <3> QED
      BY <2>1, <3>1
  <2> QED
    BY <2>1, <2>2, <2>3 DEF Table
<1>4. CASE UNCHANGED gateVars
  BY <1>4 DEF gateVars, GateTypes, Table
<1> QED
  BY <1>2, <1>3, <1>4 DEF GateNext

-------------------------------------------------------------------------------
(* The theorems. *)

LEMMA DedupInvariant == GateSpec => [](GateTypes /\ Table)
<1>1. GateInit => GateTypes /\ Table
  <2> SUFFICES ASSUME GateInit
               PROVE  GateTypes /\ Table
    OBVIOUS
  <2>1. /\ DOMAIN seen = {} /\ DOMAIN lastRow = {} /\ IsFiniteSet({})
        /\ Cardinality({}) = 0 /\ evicted = {}
    BY FS_EmptySet DEF GateInit
  <2>2. Cardinality(DOMAIN seen) <= MaxEntries
    BY <2>1, DedupAssumption
  <2>3. /\ clock \in Nat /\ place \in Nat /\ {rows, skipped, unfixed} \subseteq Nat
    BY DEF GateInit
  <2> QED
    BY <2>1, <2>2, <2>3 DEF GateTypes, Table
<1>2. GateTypes /\ Table /\ [GateNext]_gateVars => (GateTypes /\ Table)'
  BY NextTable
<1> QED
  BY <1>1, <1>2, PTL DEF GateSpec

\* Types, and that the table never outgrows max_entries (GeoDedup._maybe_prune).
THEOREM DedupTypeOK == GateSpec => []GateTypes
BY DedupInvariant, PTL

\* A sighting is only refused when it adds nothing to the latest row of its
\* device (GeoDedup.should_write).
THEOREM DedupRefusedIsCovered == GateSpec => RefusedIsCovered
<1>1. ASSUME GateTypes, Table
      PROVE  \A k \in Keys : \A s \in Sightings(k) :
               Refuse(k, s) => k \in DOMAIN lastRow /\ ~Adds(s, lastRow[k])
  BY <1>1 DEF Refuse, Table
<1>2. GateTypes /\ Table =>
        [skipped' # skipped =>
           \A k \in Keys : \A s \in Sightings(k) :
             Refuse(k, s) => k \in DOMAIN lastRow /\ ~Adds(s, lastRow[k])]_gateVars
  BY <1>1
<1> QED
  BY <1>2, DedupInvariant, PTL DEF RefusedIsCovered

\* A further row says something new, unless its device was driven out of a full
\* table (GeoDedup).
THEOREM DedupRowsAdd == GateSpec => RowsAdd
<1> USE DedupAssumption
<1>1. ASSUME GateTypes, Table, [GateNext]_gateVars
      PROVE  [PruneAfter >= Ttl + Lag =>
                \A k \in DOMAIN lastRow :
                  lastRow'[k] # lastRow[k] =>
                    Adds(lastRow'[k], lastRow[k]) \/ k \in evicted]_gateVars
  <2> SUFFICES ASSUME GateNext, PruneAfter >= Ttl + Lag, NEW x \in DOMAIN lastRow,
                      lastRow'[x] # lastRow[x], x \notin evicted
               PROVE  Adds(lastRow'[x], lastRow[x])
    BY <1>1
  <2>1. CASE Sight
    <3>1. PICK k \in Keys : \E s \in Sightings(k) :
            WriteNew(k, s) \/ WriteAgain(k, s) \/ Refuse(k, s) \/ NoFix(k, s)
      BY <2>1 DEF Sight
    <3>2. PICK s \in Sightings(k) :
            WriteNew(k, s) \/ WriteAgain(k, s) \/ Refuse(k, s) \/ NoFix(k, s)
      BY <3>1
    <3>3. s \in Entry /\ s.t \in Int /\ clock - Lag <= s.t /\ clock \in Nat
      BY <1>1, SightingFacts DEF Entry, GateTypes
    <3>4. CASE WriteNew(k, s)
      <4>1. x = k /\ lastRow'[x] = s
        BY <3>4 DEF WriteNew, With
      <4>2. x \notin DOMAIN seen
        BY <3>4, <4>1 DEF WriteNew
      <4>3. lastRow[x].t \in Int /\ lastRow[x].t < clock - PruneAfter
        BY <1>1, <4>2 DEF Table, Entry
      <4>4. s.t - lastRow[x].t >= Ttl
        BY <3>3, <4>3
      <4> QED
        BY <4>1, <4>4 DEF Adds
    <3>5. CASE WriteAgain(k, s)
      <4>1. x = k /\ lastRow'[x] = s
        BY <3>5 DEF WriteAgain, With
      <4>2. Adds(s, seen[k]) /\ seen[k] = lastRow[k]
        BY <1>1, <3>5 DEF WriteAgain, Table
      <4> QED
        BY <4>1, <4>2
    <3>6. CASE Refuse(k, s) \/ NoFix(k, s)
      BY <3>6 DEF Refuse, NoFix
    <3> QED
      BY <3>2, <3>4, <3>5, <3>6
  <2>2. CASE Drive
    BY <2>2 DEF Drive
  <2> QED
    BY <2>1, <2>2 DEF GateNext
<1> QED
  BY <1>1, DedupInvariant, PTL DEF GateSpec, RowsAdd

===============================================================================
