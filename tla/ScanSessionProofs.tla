--------------------------- MODULE ScanSessionProofs ---------------------------
(***************************************************************************)
(* Theorems about ScanSession, for any addresses, any faults and any       *)
(* number of observations: types, that what is refused as a duplicate has  *)
(* a row to be a duplicate of, that the numbers agree with the file, that  *)
(* everything is closed, and what of the things heard with a fix is lost.  *)
(***************************************************************************)
EXTENDS ScanSession, SequenceTheorems, FiniteSetTheorems, TLAPS

-------------------------------------------------------------------------------
(* Increasing sequences of numbers of observations. *)

Increasing(q) == \A i, j \in DOMAIN q : i < j => q[i] < q[j]

\* The first element is below all others, which the tail holds.
LEMMA HeadTailFacts ==
  ASSUME NEW S, S \subseteq Nat, NEW q \in Seq(S), q # <<>>
  PROVE  /\ Head(q) \in S /\ Head(q) \in ToSet(q)
         /\ Tail(q) \in Seq(S)
         /\ ToSet(q) = {Head(q)} \cup ToSet(Tail(q))
         /\ Increasing(q) => /\ Increasing(Tail(q))
                             /\ \A n \in ToSet(Tail(q)) : Head(q) < n
<1>1. Len(q) \in Nat \ {0} /\ DOMAIN q = 1..Len(q)
  OBVIOUS
<1>2. Head(q) = q[1] /\ Head(q) \in S
  BY <1>1
<1>3. Tail(q) \in Seq(S) /\ Len(Tail(q)) = Len(q) - 1 /\ DOMAIN Tail(q) = 1..Len(q) - 1
  BY <1>1
<1>4. \A i \in 1..Len(q) - 1 : Tail(q)[i] = q[i + 1]
  BY <1>1
<1>5. ToSet(q) = {Head(q)} \cup ToSet(Tail(q))
  <2>1. ASSUME NEW i \in DOMAIN q
        PROVE  q[i] \in {Head(q)} \cup ToSet(Tail(q))
    <3>1. CASE i = 1
      BY <3>1, <1>2
    <3>2. CASE i # 1
      <4>1. i - 1 \in DOMAIN Tail(q) /\ Tail(q)[i - 1] = q[i]
        BY <3>2, <1>1, <1>3, <1>4
      <4> QED
        BY <4>1 DEF ToSet
    <3> QED
      BY <3>1, <3>2
  <2>2. ASSUME NEW i \in DOMAIN Tail(q)
        PROVE  Tail(q)[i] \in ToSet(q)
    BY <1>1, <1>3, <1>4 DEF ToSet
  <2>3. Head(q) \in ToSet(q)
    BY <1>1, <1>2 DEF ToSet
  <2> QED
    BY <2>1, <2>2, <2>3 DEF ToSet
<1>6. ASSUME Increasing(q)
      PROVE  Increasing(Tail(q)) /\ \A n \in ToSet(Tail(q)) : Head(q) < n
  <2>1. Increasing(Tail(q))
    <3> SUFFICES ASSUME NEW i \in DOMAIN Tail(q), NEW j \in DOMAIN Tail(q), i < j
                 PROVE  Tail(q)[i] < Tail(q)[j]
      BY DEF Increasing
    <3>1. /\ i + 1 \in DOMAIN q /\ j + 1 \in DOMAIN q /\ i + 1 < j + 1
          /\ Tail(q)[i] = q[i + 1] /\ Tail(q)[j] = q[j + 1]
      BY <1>1, <1>3, <1>4
    <3> QED
      BY <1>6, <3>1 DEF Increasing
  <2>2. ASSUME NEW i \in DOMAIN Tail(q)
        PROVE  Head(q) < Tail(q)[i]
    <3>1. /\ 1 \in DOMAIN q /\ i + 1 \in DOMAIN q /\ 1 < i + 1
          /\ Tail(q)[i] = q[i + 1]
      BY <1>1, <1>3, <1>4
    <3> QED
      BY <1>2, <1>6, <3>1 DEF Increasing
  <2> QED
    BY <2>1, <2>2 DEF ToSet
<1> QED
  BY <1>1, <1>2, <1>3, <1>5, <1>6

\* No number is below itself.
LEMMA Irreflexive == \A n \in Nat : ~(n < n)
OBVIOUS

\* A number above all others may be appended.
LEMMA AppendFacts ==
  ASSUME NEW S, S \subseteq Nat, NEW q \in Seq(S), NEW n \in Nat,
         \A m \in S : m < n
  PROVE  /\ Append(q, n) \in Seq(S \cup {n})
         /\ ToSet(Append(q, n)) = ToSet(q) \cup {n}
         /\ Increasing(q) => Increasing(Append(q, n))
<1>1. Len(q) \in Nat /\ DOMAIN q = 1..Len(q) /\ \A i \in 1..Len(q) : q[i] \in S
  OBVIOUS
<1>2. q \in Seq(S \cup {n})
  BY SeqMonotonic
<1>3. /\ Append(q, n) \in Seq(S \cup {n})
      /\ DOMAIN Append(q, n) = 1..Len(q) + 1
      /\ \A i \in 1..Len(q) : Append(q, n)[i] = q[i]
      /\ Append(q, n)[Len(q) + 1] = n
  BY <1>1, <1>2
<1>4. ToSet(Append(q, n)) = ToSet(q) \cup {n}
  BY <1>1, <1>3 DEF ToSet
<1>5. ASSUME Increasing(q), NEW i \in 1..Len(q) + 1, NEW j \in 1..Len(q) + 1, i < j
      PROVE  Append(q, n)[i] < Append(q, n)[j]
  <2>1. CASE j \in 1..Len(q)
    <3>1. i \in 1..Len(q)
      BY <1>1, <1>5, <2>1
    <3> QED
      BY <1>1, <1>3, <1>5, <2>1, <3>1 DEF Increasing
  <2>2. CASE j = Len(q) + 1
    <3>1. i \in 1..Len(q)
      BY <1>1, <1>5, <2>2
    <3> QED
      BY <1>1, <1>3, <2>2, <3>1
  <2> QED
    BY <1>1, <2>1, <2>2
<1> QED
  BY <1>3, <1>4, <1>5 DEF Increasing

\* Of an increasing sequence one element may be taken out.
LEMMA RemoveFacts ==
  ASSUME NEW S, S \subseteq Nat, NEW q \in Seq(S), Increasing(q), NEW i \in 1..Len(q)
  PROVE  /\ RemoveAt(q, i) \in Seq(S)
         /\ Increasing(RemoveAt(q, i))
         /\ ToSet(RemoveAt(q, i)) = ToSet(q) \ {q[i]}
         /\ q[i] \in ToSet(q)
<1> DEFINE r == RemoveAt(q, i)
<1>1. /\ Len(q) \in Nat /\ DOMAIN q = 1..Len(q)
      /\ \A j \in 1..Len(q) : q[j] \in S
  OBVIOUS
<1>n. \A j \in 1..Len(q) : q[j] \in Nat
  BY <1>1
<1>2. /\ r \in Seq(S) /\ Len(r) = Len(q) - 1
      /\ \A j \in 1..Len(q) - 1 : r[j] = IF j < i THEN q[j] ELSE q[j + 1]
  <2>1. /\ SubSeq(q, 1, i - 1) \in Seq(S) /\ Len(SubSeq(q, 1, i - 1)) = i - 1
        /\ \A j \in 1..i - 1 : SubSeq(q, 1, i - 1)[j] = q[j]
    BY <1>1, SubSeqProperties
  <2>2. /\ SubSeq(q, i + 1, Len(q)) \in Seq(S)
        /\ Len(SubSeq(q, i + 1, Len(q))) = Len(q) - i
        /\ \A j \in 1..Len(q) - i : SubSeq(q, i + 1, Len(q))[j] = q[i + j]
    <3>1. \A j \in 1..Len(q) - i : (i + 1) + j - 1 = i + j
      BY <1>1
    <3> QED
      BY <1>1, <3>1, SubSeqProperties
  <2> DEFINE x == SubSeq(q, 1, i - 1)
             y == SubSeq(q, i + 1, Len(q))
  <2> HIDE DEF x, y
  <2>3. /\ x \o y \in Seq(S) /\ Len(x \o y) = (i - 1) + (Len(q) - i)
        /\ \A j \in 1..(i - 1) + (Len(q) - i) :
              (x \o y)[j] = IF j <= i - 1 THEN x[j] ELSE y[j - (i - 1)]
    <3>1. /\ x \in Seq(S) /\ y \in Seq(S)
          /\ Len(x) = i - 1 /\ Len(y) = Len(q) - i
      BY <2>1, <2>2 DEF x, y
    <3>2. /\ x \o y \in Seq(S) /\ Len(x \o y) = Len(x) + Len(y)
          /\ \A j \in 1..Len(x) + Len(y) :
                (x \o y)[j] = IF j <= Len(x) THEN x[j] ELSE y[j - Len(x)]
      BY <3>1, ConcatProperties
    <3> QED
      BY <3>1, <3>2
  <2>4. r = x \o y
    BY DEF RemoveAt, x, y
  <2>5. ASSUME NEW j \in 1..Len(q) - 1
        PROVE  (x \o y)[j] = IF j < i THEN q[j] ELSE q[j + 1]
    <3>1. CASE j < i
      <4>1. j \in 1..i - 1 /\ j \in 1..(i - 1) + (Len(q) - i) /\ j <= i - 1
        BY <1>1, <3>1
      <4> QED
        BY <2>1, <2>3, <3>1, <4>1 DEF x
    <3>2. CASE ~(j < i)
      <4>1. /\ j - (i - 1) \in 1..Len(q) - i /\ ~(j <= i - 1)
            /\ j \in 1..(i - 1) + (Len(q) - i) /\ i + (j - (i - 1)) = j + 1
        BY <1>1, <3>2
      <4>2. y[j - (i - 1)] = q[j + 1]
        BY <2>2, <4>1 DEF y
      <4> QED
        BY <2>3, <3>2, <4>1, <4>2
    <3> QED
      BY <3>1, <3>2
  <2>6. (i - 1) + (Len(q) - i) = Len(q) - 1
    BY <1>1
  <2> QED
    BY <2>3, <2>4, <2>5, <2>6
<1> HIDE DEF r
<1>3. DOMAIN r = 1..Len(q) - 1
  BY <1>2
<1>4. Increasing(r)
  <2> SUFFICES ASSUME NEW a \in DOMAIN r, NEW b \in DOMAIN r, a < b
               PROVE  r[a] < r[b]
    BY DEF Increasing
  <2>1. \A x, y \in 1..Len(q) : x < y => q[x] < q[y]
    BY <1>1 DEF Increasing
  <2>2. CASE b < i
    <3>1. a \in 1..Len(q) /\ b \in 1..Len(q) /\ a < i /\ r[a] = q[a] /\ r[b] = q[b]
      BY <1>1, <1>2, <1>3, <2>2
    <3> QED
      BY <2>1, <3>1
  <2>3. CASE ~(b < i) /\ a < i
    <3>1. /\ a \in 1..Len(q) /\ b + 1 \in 1..Len(q) /\ a < b + 1
          /\ r[a] = q[a] /\ r[b] = q[b + 1]
      BY <1>1, <1>2, <1>3, <2>3
    <3> QED
      BY <2>1, <3>1
  <2>4. CASE ~(b < i) /\ ~(a < i)
    <3>1. /\ a + 1 \in 1..Len(q) /\ b + 1 \in 1..Len(q) /\ a + 1 < b + 1
          /\ r[a] = q[a + 1] /\ r[b] = q[b + 1]
      BY <1>1, <1>2, <1>3, <2>4
    <3> QED
      BY <2>1, <3>1
  <2> QED
    BY <2>2, <2>3, <2>4
<1>5. \A x, y \in 1..Len(q) : q[x] = q[y] => x = y
  <2> SUFFICES ASSUME NEW x \in 1..Len(q), NEW y \in 1..Len(q), q[x] = q[y]
               PROVE  x = y
    OBVIOUS
  <2>1. ~(q[x] < q[y]) /\ ~(q[y] < q[x])
    BY <1>n, Irreflexive
  <2>2. ~(x < y) /\ ~(y < x)
    BY <1>1, <2>1 DEF Increasing
  <2> QED
    BY <2>2
<1>6. ToSet(r) = ToSet(q) \ {q[i]}
  <2>1. ASSUME NEW j \in DOMAIN r
        PROVE  r[j] \in ToSet(q) \ {q[i]}
    <3>1. CASE j < i
      <4>1. j \in 1..Len(q) /\ r[j] = q[j] /\ j # i
        BY <1>1, <1>2, <1>3, <3>1
      <4> QED
        BY <1>1, <1>5, <4>1 DEF ToSet
    <3>2. CASE ~(j < i)
      <4>1. j + 1 \in 1..Len(q) /\ r[j] = q[j + 1] /\ j + 1 # i
        BY <1>1, <1>2, <1>3, <3>2
      <4> QED
        BY <1>1, <1>5, <4>1 DEF ToSet
    <3> QED
      BY <3>1, <3>2
  <2>2. ASSUME NEW j \in 1..Len(q), q[j] # q[i]
        PROVE  q[j] \in ToSet(r)
    <3>1. CASE j < i
      <4>1. j \in DOMAIN r /\ r[j] = q[j]
        BY <1>1, <1>2, <1>3, <3>1
      <4> QED
        BY <4>1 DEF ToSet
    <3>2. CASE i < j
      <4>1. j - 1 \in DOMAIN r /\ r[j - 1] = q[j]
        BY <1>1, <1>2, <1>3, <3>2
      <4> QED
        BY <4>1 DEF ToSet
    <3> QED
      BY <2>2, <3>1, <3>2
  <2> QED
    BY <1>1, <2>1, <2>2 DEF ToSet
<1>7. q[i] \in ToSet(q)
  BY <1>1 DEF ToSet
<1> QED
  BY <1>2, <1>4, <1>6, <1>7 DEF r

\* As many numbers as an increasing sequence is long.
LEMMA SpreadFacts ==
  ASSUME NEW T, IsFiniteSet(T), NEW q \in Seq(T), T \subseteq Nat, Increasing(q)
  PROVE  Len(q) <= Cardinality(T)
<1>1. /\ Len(q) \in Nat /\ DOMAIN q = 1..Len(q) /\ q \in [1..Len(q) -> T]
      /\ \A j \in 1..Len(q) : q[j] \in T
  OBVIOUS
<1>n. \A j \in 1..Len(q) : q[j] \in Nat
  BY <1>1
<1>2. \A x, y \in 1..Len(q) : q[x] = q[y] => x = y
  <2> SUFFICES ASSUME NEW x \in 1..Len(q), NEW y \in 1..Len(q), q[x] = q[y]
               PROVE  x = y
    OBVIOUS
  <2>1. ~(q[x] < q[y]) /\ ~(q[y] < q[x])
    BY <1>n, Irreflexive
  <2>2. ~(x < y) /\ ~(y < x)
    BY <1>1, <2>1 DEF Increasing
  <2> QED
    BY <2>2
<1>3. q \in Injection(1..Len(q), T)
  BY <1>1, <1>2 DEF Injection, IsInjective
<1>4. IsFiniteSet(1..Len(q)) /\ Cardinality(1..Len(q)) = Len(q)
  BY <1>1, FS_Interval
<1> QED
  BY <1>3, <1>4, FS_Injection

LEMMA EmptyFacts == ToSet(<<>>) = {} /\ Increasing(<<>>)
BY DEF ToSet, Increasing

\* The elements of a sequence.
LEMMA ToSetFacts ==
  ASSUME NEW S, NEW q \in Seq(S)
  PROVE  ToSet(q) \subseteq S /\ (ToSet(q) = {} => q = <<>>)
<1>1. Len(q) \in Nat /\ DOMAIN q = 1..Len(q) /\ \A i \in 1..Len(q) : q[i] \in S
  OBVIOUS
<1>2. ASSUME q # <<>>
      PROVE  q[1] \in ToSet(q)
  <2>1. Len(q) # 0
    BY <1>2
  <2> QED
    BY <1>1, <2>1 DEF ToSet
<1> QED
  BY <1>1, <1>2 DEF ToSet

-------------------------------------------------------------------------------
(* Types. *)

Rec == [side : Sides, mac : Macs, fix : BOOLEAN, late : BOOLEAN]

LEMMA HeardFacts ==
  ASSUME TypeOK
  PROVE  /\ Len(log) \in Nat /\ Heard = 1..Len(log) /\ Heard \subseteq Nat
         /\ fate \in Seq(Fates) /\ Len(fate) = Len(log)
         /\ \A n \in Heard : log[n] \in Rec
<1>1. Len(log) \in Nat /\ Heard = 1..Len(log)
  BY DEF TypeOK, Heard
<1>2. fate \in [1..Len(log) -> Fates]
  BY <1>1 DEF TypeOK
<1>3. fate \in Seq(Fates)
  BY <1>1, <1>2, SeqDef
<1>4. Len(fate) = Len(log)
  BY <1>1, <1>2, <1>3
<1>5. \A n \in Heard : log[n] \in Rec
  <2>1. log \in Seq(Rec)
    BY DEF TypeOK, Rec
  <2> QED
    BY <1>1, <2>1, ElementOfSeq
<1> QED
  BY <1>1, <1>3, <1>4, <1>5

\* Giving some observations the end e changes that and nothing else.
LEMMA FatedFacts ==
  ASSUME TypeOK, NEW ns, NEW e \in Fates
  PROVE  /\ Fated(ns, e) \in [Heard -> Fates]
         /\ \A n \in Heard : Fated(ns, e)[n] = IF n \in ns THEN e ELSE fate[n]
BY DEF Fated, TypeOK

\* The types of a step that leaves the log alone.
LEMMA TypeStep ==
  ASSUME TypeOK, UNCHANGED <<uses, log>>,
         side' \in Sides,
         pc' \in {"start", "drain", "rows", "input", "dialog", "stop", "close",
                 "saved", "crashed"},
         {last', raised', paused'} \subseteq BOOLEAN,
         file' \in {"none", "open", "headless"},
         runs' \subseteq uses, strays' \subseteq uses, seen' \subseteq Sides \X Macs,
         queue' \in [Sides -> Seq(Heard)], work' \in Seq(Heard),
         rowsWritten' \in Nat, total' \in [Sides -> Nat],
         fate' \in [Heard -> Fates], failed' \subseteq Faults, rotateFails' \in Nat
  PROVE  TypeOK'
BY DEF TypeOK, Heard

\* What a thread hears is put at the end of the log.
LEMMA HearsFacts ==
  ASSUME TypeOK, NEW s \in Sides, NEW mac \in Macs, Hears(s, mac)
  PROVE  /\ Len(log) + 1 \in Nat /\ Heard' = 1..Len(log) + 1
         /\ Heard' = Heard \cup {Len(log) + 1} /\ Len(log) + 1 \notin Heard
         /\ \A m \in Heard : m < Len(log) + 1
         /\ log' \in Seq(Rec) /\ \A m \in Heard : log'[m] = log[m]
         /\ log'[Len(log) + 1].side = s
         /\ log'[Len(log) + 1].late <=> s \in strays
         /\ Append(fate, "waiting") \in [Heard' -> Fates]
         /\ \A m \in Heard : Append(fate, "waiting")[m] = fate[m]
         /\ Append(fate, "waiting")[Len(log) + 1] = "waiting"
         /\ Offered(s) \in Seq(Heard')
<1>1. /\ Len(log) \in Nat /\ Heard = 1..Len(log) /\ Heard \subseteq Nat
      /\ fate \in Seq(Fates) /\ Len(fate) = Len(log) /\ log \in Seq(Rec)
  BY HeardFacts DEF TypeOK, Rec
<1>2. PICK fix \in BOOLEAN :
        log' = Append(log, [side |-> s, mac |-> mac, fix |-> fix, late |-> s \in strays])
  BY DEF Hears
<1> DEFINE r == [side |-> s, mac |-> mac, fix |-> fix, late |-> s \in strays]
<1>3. r \in Rec /\ r.side = s /\ (r.late <=> s \in strays)
  <2>1. (s \in strays) \in BOOLEAN
    OBVIOUS
  <2>2. r \in Rec
    BY <2>1 DEF Rec
  <2>3. r.late = (s \in strays)
    OBVIOUS
  <2> QED
    BY <2>2, <2>3
<1> HIDE DEF r
<1>4. /\ log' \in Seq(Rec) /\ Len(log') = Len(log) + 1
      /\ \A m \in 1..Len(log) : log'[m] = log[m]
      /\ log'[Len(log) + 1] = r
  BY <1>1, <1>2, <1>3 DEF r
<1>5. /\ Heard' = 1..Len(log) + 1 /\ Heard' = Heard \cup {Len(log) + 1}
      /\ Len(log) + 1 \notin Heard /\ \A m \in Heard : m < Len(log) + 1
  BY <1>1, <1>4 DEF Heard
<1>6. /\ Append(fate, "waiting") \in [Heard' -> Fates]
      /\ \A m \in Heard : Append(fate, "waiting")[m] = fate[m]
      /\ Append(fate, "waiting")[Len(log) + 1] = "waiting"
  <2>1. "waiting" \in Fates
    BY DEF Fates
  <2>2. Append(fate, "waiting") \in Seq(Fates) /\ Len(Append(fate, "waiting")) = Len(log) + 1
    BY <1>1, <2>1
  <2>3. Append(fate, "waiting") \in [Heard' -> Fates]
    <3> DEFINE f == Append(fate, "waiting")
    <3>1. f \in Seq(Fates) /\ Len(f) = Len(log) + 1
      BY <2>2
    <3> HIDE DEF f
    <3>2. f \in [1..Len(f) -> Fates]
      BY <3>1
    <3>3. f \in [Heard' -> Fates]
      BY <1>5, <3>1, <3>2
    <3> QED
      BY <3>3 DEF f
  <2> QED
    BY <1>1, <2>3
<1>7. Offered(s) \in Seq(Heard')
  <2>1. queue[s] \in Seq(Heard')
    BY <1>5, SeqMonotonic DEF TypeOK
  <2> QED
    BY <1>5, <2>1 DEF Offered
<1> QED
  BY <1>1, <1>3, <1>4, <1>5, <1>6, <1>7

LEMMA HearTypeOK ==
  ASSUME TypeOK, NEW s \in Sides, NEW mac \in Macs, Hear(s, mac) \/ HearFull(s, mac)
  PROVE  TypeOK'
<1>1. Hears(s, mac)
  BY DEF Hear, HearFull
<1>2. Heard \subseteq Heard' /\ work' \in Seq(Heard')
  <2>1. Heard \subseteq Heard' /\ work' = work
    BY <1>1, HearsFacts DEF Hears
  <2> QED
    BY <2>1, SeqMonotonic DEF TypeOK
<1>3. \A t \in Sides : queue[t] \in Seq(Heard')
  BY <1>2, SeqMonotonic DEF TypeOK
<1>4. fate' \in [Heard' -> Fates] /\ queue' \in [Sides -> Seq(Heard')]
  <2>1. CASE Hear(s, mac)
    BY <1>1, <1>3, <2>1, HearsFacts DEF Hear, TypeOK
  <2>2. CASE HearFull(s, mac)
    <3>1. PICK i \in 1..QueueMax + 1 :
            /\ queue' = [queue EXCEPT ![s] = RemoveAt(Offered(s), i)]
            /\ fate' = [Append(fate, "waiting") EXCEPT ![Offered(s)[i]] = "dropped"]
      BY <2>2 DEF HearFull
    <3>2. Len(Offered(s)) = QueueMax + 1 /\ QueueMax \in Nat
      BY <2>2, SessionAssumption DEF HearFull, Offered, TypeOK
    <3>3. RemoveAt(Offered(s), i) \in Seq(Heard')
      <4> DEFINE q == Offered(s)
      <4>1. q \in Seq(Heard') /\ Len(q) = QueueMax + 1
        BY <1>1, <3>2, HearsFacts
      <4> HIDE DEF q
      <4>2. SubSeq(q, 1, i - 1) \in Seq(Heard') /\ SubSeq(q, i + 1, Len(q)) \in Seq(Heard')
        BY <3>2, <4>1
      <4> QED
        BY <4>2 DEF RemoveAt, q
    <3>4. "dropped" \in Fates
      BY DEF Fates
    <3> QED
      BY <1>1, <1>3, <3>1, <3>3, <3>4, HearsFacts DEF TypeOK
  <2> QED
    BY <2>1, <2>2
<1>5. log' \in Seq(Rec)
  BY <1>1, HearsFacts
<1>6. UNCHANGED <<uses, loopVars, threads, paused, stats, failures>>
  BY <1>1 DEF Hears
<1> QED
  BY <1>2, <1>4, <1>5, <1>6 DEF TypeOK, loopVars, threads, stats, failures, Rec

\* The type invariant (App._live_scan).
LEMMA NextTypeOK ==
  ASSUME TypeOK, [Next]_vars
  PROVE  TypeOK'
<1> USE HeardFacts, TypeStep
<1>0. /\ Fates = {"waiting", "row", "erased", "duplicate", "noFix", "discarded",
                   "dropped", "raised", "lost"}
      /\ Sides = {"wifi", "ble"}
  BY DEF Fates, Sides
<1>h. ASSUME pc = "rows", work # <<>>
      PROVE  /\ Head(work) \in Heard /\ Tail(work) \in Seq(Heard)
             /\ Device(Head(work)) \in Sides \X Macs
  <2>1. Head(work) \in Heard /\ Tail(work) \in Seq(Heard)
    BY <1>h, HeadTailFacts DEF TypeOK
  <2> QED
    BY <2>1 DEF Device, Rec
<1>e. <<>> \in Seq(Heard)
  OBVIOUS
<1>1. ASSUME NEW s \in Sides, NEW mac \in Macs, Hear(s, mac) \/ HearFull(s, mac)
      PROVE  TypeOK'
  BY <1>1, HearTypeOK
<1>3. ASSUME NEW s \in Sides, StartScanner(s)
      PROVE  TypeOK'
  BY <1>3 DEF StartScanner, TypeOK, loopVars, stats, failures
<1>4. CASE OpenSession
  BY <1>4 DEF OpenSession, TypeOK, threads, failures
<1>5. CASE OpenFails
  BY <1>5 DEF OpenFails, TypeOK, stats, threads
<1>6. CASE Drain
  <2>1. queue' \in [Sides -> Seq(Heard)] /\ queue[side] \in Seq(Heard)
    BY <1>6, <1>e DEF Drain, TypeOK
  <2>2. fate' \in [Heard -> Fates]
    BY <1>0, <1>6, FatedFacts DEF Drain, TypeOK
  <2> QED
    BY <1>6, <1>e, <2>1, <2>2 DEF Drain, TypeOK, stats, threads, failures
<1>7. CASE ListDone
  BY <1>0, <1>7 DEF ListDone, TypeOK, stats, threads, failures
<1>8. CASE GateNoFix \/ GateDuplicate
  <2>1. fate' \in [Heard -> Fates] /\ work' \in Seq(Heard)
    <3>1. CASE GateNoFix
      BY <1>0, <1>h, <3>1, FatedFacts DEF GateNoFix, Next1
    <3>2. CASE GateDuplicate
      BY <1>0, <1>h, <3>2, FatedFacts DEF GateDuplicate, Gated, Next1
    <3> QED
      BY <1>8, <3>1, <3>2
  <2> QED
    BY <1>8, <2>1 DEF GateNoFix, GateDuplicate, TypeOK, loopVars, stats, threads, failures
<1>r. \A anew \in BOOLEAN : RowEnds(anew) \in Fates
  BY <1>0 DEF RowEnds
<1>9. CASE WriteRow
  <2>1. /\ fate' \in [Heard -> Fates] /\ work' \in Seq(Heard)
        /\ seen' \subseteq Sides \X Macs
    <3>1. Next1(RowEnds(TRUE)) /\ RowEnds(TRUE) \in Fates
      BY <1>9, <1>r DEF WriteRow
    <3>2. fate' = Fated({Head(work)}, RowEnds(TRUE)) /\ work' = Tail(work)
          /\ pc = "rows" /\ work # <<>>
      BY <3>1 DEF Next1
    <3>3. seen' = seen \cup {Device(Head(work))}
      BY <1>9 DEF WriteRow, Passes
    <3> QED
      BY <1>h, <3>1, <3>2, <3>3, FatedFacts DEF TypeOK
  <2> QED
    BY <1>9, <2>1 DEF WriteRow, TypeOK, loopVars, threads, failures
<1>10. CASE WriteRaises \/ RotateRaises
  <2>0. PICK e \in Fates : RowRaises(e)
    <3>1. CASE WriteRaises
      BY <1>0, <3>1 DEF WriteRaises
    <3>2. CASE RotateRaises
      BY <1>r, <3>2 DEF RotateRaises
    <3> QED
      BY <1>10, <3>1, <3>2
  <2>1. fate' \in [Heard -> Fates] /\ seen' \subseteq Sides \X Macs
    BY <1>0, <1>h, <2>0 DEF RowRaises, Passes, Gated, TypeOK
  <2>2. work' = <<>> /\ side' \in Sides /\ pc' \in {"close", "stop"}
        /\ {last', raised'} \subseteq BOOLEAN
    BY <1>0, <2>0 DEF RowRaises, Unwinds, TypeOK
  <2>3. /\ UNCHANGED <<uses, runs, strays, queue, paused, total, log>>
        /\ file' \in {"none", "open", "headless"} /\ failed' \subseteq Faults
        /\ rowsWritten' \in Nat /\ rotateFails' \in Nat
    <3>1. UNCHANGED <<uses, runs, strays, queue, paused, total, log>>
      BY <2>0 DEF RowRaises, threads
    <3>2. CASE WriteRaises
      BY <3>1, <3>2 DEF WriteRaises, TypeOK
    <3>3. CASE RotateRaises
      BY <3>1, <3>3 DEF RotateRaises, TypeOK
    <3> QED
      BY <1>10, <3>2, <3>3
  <2> QED
    BY <1>e, <2>1, <2>2, <2>3 DEF TypeOK
<1>11. CASE NoButton \/ PressA \/ PressB \/ Answer
  BY <1>11 DEF NoButton, PressA, PressB, Answer, TypeOK, stats, threads, failures
<1>12. CASE LoopRaises
  <2>2. work' = <<>> /\ side' \in Sides /\ pc' \in {"close", "stop"}
        /\ {last', raised'} \subseteq BOOLEAN
    BY <1>0, <1>12 DEF LoopRaises, Unwinds, TypeOK
  <2> QED
    BY <1>12, <1>e, <2>2 DEF LoopRaises, TypeOK, stats, threads
<1>13. CASE Stop
  BY <1>0, <1>13 DEF Stop, Stopped, TypeOK, stats, failures
<1>14. CASE Close
  BY <1>14 DEF Close, TypeOK, threads, failures
<1>15. CASE UNCHANGED vars
  BY <1>15 DEF vars, TypeOK, loopVars, stats, threads, failures
<1> QED
  BY <1>1, <1>3, <1>4, <1>5, <1>6, <1>7, <1>8, <1>9, <1>10, <1>11, <1>12,
     <1>13, <1>14, <1>15 DEF Next, LiveScan

LEMMA ScanInitTypeOK ==
  ASSUME Init
  PROVE  TypeOK
<1>1. Heard = {} /\ fate \in [Heard -> Fates]
  BY DEF Init, Heard
<1>2. \A S : <<>> \in Seq(S)
  OBVIOUS
<1>3. log \in Seq([side : Sides, mac : Macs, fix : BOOLEAN, late : BOOLEAN])
      /\ work \in Seq(Heard)
  BY <1>2 DEF Init
<1>4. queue \in [Sides -> Seq(Heard)]
  BY <1>2 DEF Init
<1> QED
  BY <1>1, <1>3, <1>4 DEF Init, TypeOK, Sides

\* The type invariant of a scan.
THEOREM ScanTypeOK == Spec => []TypeOK
<1>1. Init => TypeOK
  BY ScanInitTypeOK
<1>2. TypeOK /\ [Next]_vars => TypeOK'
  BY NextTypeOK
<1> QED
  BY <1>1, <1>2, PTL DEF Spec

-------------------------------------------------------------------------------
(* Where an observation waits. *)

\* What waits is in the queue of its scanner or in the list at hand, once and in
\* the order heard, and only there.
Placed ==
  /\ \A s \in Sides :
       /\ Increasing(queue[s])
       /\ \A n \in ToSet(queue[s]) : log[n].side = s /\ fate[n] = "waiting"
  /\ Increasing(work)
  /\ \A n \in ToSet(work) : log[n].side = side /\ fate[n] = "waiting"
  /\ \A m \in ToSet(work), n \in ToSet(queue[side]) : m < n
  /\ \A n \in Heard :
       fate[n] = "waiting" => n \in ToSet(queue[log[n].side]) \cup ToSet(work)
  /\ pc # "rows" => work = <<>>

\* Of a scanner, what has been dealt with, and not been dropped, was heard before
\* what still waits.
InOrder ==
  \A m, n \in Heard :
    log[m].side = log[n].side /\ fate[m] \notin {"waiting", "dropped"}
      /\ fate[n] = "waiting" => m < n

\* A step that deals with the first observations of the list, or with none.
LEMMA WorkStep ==
  ASSUME TypeOK, Placed, InOrder, UNCHANGED <<log, queue>>,
         NEW ns, ns \subseteq ToSet(work),
         \A n \in Heard \ ns : fate'[n] = fate[n],
         \A n \in ns : fate'[n] # "waiting",
         Increasing(work'), ToSet(work') = ToSet(work) \ ns,
         \A m \in ns, n \in ToSet(work') : m < n,
         ToSet(work') = {} \/ side' = side,
         pc' # "rows" => work' = <<>>
  PROVE  Placed' /\ InOrder'
<1>0. Heard' = Heard /\ Heard \subseteq Nat /\ \A n \in Heard : log[n].side \in Sides
  BY HeardFacts DEF Heard, Rec
<1>1. /\ ToSet(work) \subseteq Heard
      /\ \A s \in Sides : ToSet(queue[s]) \subseteq Heard
  BY ToSetFacts DEF TypeOK
<1>2. \A s \in Sides : \A n \in ToSet(queue[s]) : n \notin ToSet(work)
  <2> SUFFICES ASSUME NEW s \in Sides, NEW n \in ToSet(queue[s]), n \in ToSet(work)
               PROVE  FALSE
    OBVIOUS
  <2>1. s = side
    BY DEF Placed
  <2>2. n < n
    BY <2>1 DEF Placed
  <2>3. n \in Nat
    BY <1>0, <1>1
  <2> QED
    BY <2>2, <2>3, Irreflexive
<1>3. \A n \in Heard : fate'[n] = "waiting" => fate[n] = "waiting" /\ n \notin ns
  OBVIOUS
<1>4. Placed'
  <2>1. \A s \in Sides : /\ Increasing(queue'[s])
                         /\ \A n \in ToSet(queue'[s]) : log'[n].side = s /\ fate'[n] = "waiting"
    BY <1>1, <1>2 DEF Placed
  <2>2. \A n \in ToSet(work') : log'[n].side = side' /\ fate'[n] = "waiting"
    BY <1>1 DEF Placed
  <2>3. \A m \in ToSet(work'), n \in ToSet(queue'[side']) : m < n
    BY DEF Placed
  <2>4. \A n \in Heard' :
          fate'[n] = "waiting" => n \in ToSet(queue'[log'[n].side]) \cup ToSet(work')
    BY <1>0, <1>3 DEF Placed
  <2> QED
    BY <2>1, <2>2, <2>3, <2>4 DEF Placed
<1>5. InOrder'
  <2> SUFFICES ASSUME NEW m \in Heard, NEW n \in Heard, log[m].side = log[n].side,
                      fate'[m] \notin {"waiting", "dropped"}, fate'[n] = "waiting"
               PROVE  m < n
    BY <1>0 DEF InOrder
  <2>1. fate[n] = "waiting" /\ n \notin ns
    BY <1>3
  <2>2. CASE m \notin ns
    BY <2>1, <2>2 DEF InOrder
  <2>3. CASE m \in ns
    <3>1. log[n].side = side
      BY <2>3 DEF Placed
    <3>2. n \in ToSet(queue[side]) \/ n \in ToSet(work')
      BY <2>1, <3>1 DEF Placed
    <3> QED
      BY <2>3, <3>2 DEF Placed
  <2> QED
    BY <2>2, <2>3
<1> QED
  BY <1>4, <1>5

\* A step that deals with the next observation of the list.
LEMMA NextOneStep ==
  ASSUME TypeOK, Placed, InOrder, UNCHANGED <<log, queue, side, pc>>,
         NEW e \in Fates \ {"waiting"}, Next1(e)
  PROVE  Placed' /\ InOrder'
<1> DEFINE h == Head(work)
<1>1. work \in Seq(Heard) /\ work # <<>> /\ Heard \subseteq Nat /\ pc = "rows"
  BY HeardFacts DEF TypeOK, Next1
<1>2. /\ h \in Heard
      /\ ToSet(work) = {h} \cup ToSet(Tail(work))
      /\ Increasing(Tail(work)) /\ \A n \in ToSet(Tail(work)) : h < n
  BY <1>1, HeadTailFacts DEF Placed
<1>3. h \notin ToSet(Tail(work))
  <2>1. h \in Nat
    BY <1>1, <1>2
  <2> HIDE DEF h
  <2> QED
    BY <1>2, <2>1, Irreflexive
<1>4. \A n \in Heard : fate'[n] = IF n \in {h} THEN e ELSE fate[n]
  BY FatedFacts DEF Next1
<1>5. ToSet(work') = ToSet(work) \ {h}
  BY <1>2, <1>3 DEF Next1
<1> QED
  BY <1>1, <1>2, <1>4, <1>5, WorkStep DEF Next1

\* A step that gives up the list.
LEMMA UnwindStep ==
  ASSUME TypeOK, Placed, InOrder, UNCHANGED <<log, queue>>, Unwinds,
         \A n \in Heard \ ToSet(work) : fate'[n] = fate[n],
         \A n \in ToSet(work) : fate'[n] # "waiting"
  PROVE  Placed' /\ InOrder'
<1>1. ToSet(work') = {} /\ Increasing(work') /\ work' = <<>>
  BY EmptyFacts DEF Unwinds
<1> QED
  BY <1>1, WorkStep

\* A step that has nothing to do with what was heard.
LEMMA IdleStep ==
  ASSUME TypeOK, Placed, InOrder, UNCHANGED <<log, queue, fate, work>>,
         work = <<>> \/ (side' = side /\ pc' = pc)
  PROVE  Placed' /\ InOrder'
<1>1. /\ Increasing(work') /\ ToSet(work') = ToSet(work) \ {}
      /\ ToSet(work') = {} \/ side' = side
      /\ pc' # "rows" => work' = <<>>
  BY EmptyFacts DEF Placed
<1> QED
  BY <1>1, WorkStep

\* The latest observation n is offered to the queue of s; those of d are dropped.
Offers(s, n, d) ==
  /\ d \subseteq ToSet(queue[s]) \cup {n}
  /\ Increasing(queue'[s])
  /\ ToSet(queue'[s]) = (ToSet(queue[s]) \cup {n}) \ d
  /\ \A t \in Sides \ {s} : queue'[t] = queue[t]
  /\ \A m \in Heard' : fate'[m] = IF m \in d THEN "dropped"
                                  ELSE IF m = n THEN "waiting" ELSE fate[m]
  /\ d # {} => Increasing(Offered(s)) /\ Len(Offered(s)) > QueueMax
                 /\ ToSet(Offered(s)) = ToSet(queue[s]) \cup {n}

LEMMA OfferFacts ==
  ASSUME TypeOK, Placed, NEW s \in Sides, NEW mac \in Macs,
         Hear(s, mac) \/ HearFull(s, mac)
  PROVE  Hears(s, mac) /\ \E d : Offers(s, Len(log) + 1, d)
<1> DEFINE n == Len(log) + 1
<1>1. Hears(s, mac)
  BY DEF Hear, HearFull
<1>2. /\ n \in Nat /\ Heard \subseteq Nat /\ Heard' = Heard \cup {n} /\ n \notin Heard
      /\ \A m \in Heard : m < n
      /\ Append(fate, "waiting") \in [Heard' -> Fates]
      /\ \A m \in Heard : Append(fate, "waiting")[m] = fate[m]
      /\ Append(fate, "waiting")[n] = "waiting"
      /\ Offered(s) \in Seq(Heard')
  BY <1>1, HearsFacts, HeardFacts
<1>3. Offered(s) = Append(queue[s], n)
  BY DEF Offered
<1> HIDE DEF n
<1>4. Increasing(Offered(s)) /\ ToSet(Offered(s)) = ToSet(queue[s]) \cup {n}
  <2>1. queue[s] \in Seq(Heard) /\ Increasing(queue[s])
    BY DEF TypeOK, Placed
  <2>2. Heard \subseteq Nat /\ n \in Nat /\ \A m \in Heard : m < n
    BY <1>2
  <2>3. /\ Increasing(Append(queue[s], n))
        /\ ToSet(Append(queue[s], n)) = ToSet(queue[s]) \cup {n}
    BY <2>1, <2>2, AppendFacts
  <2> QED
    BY <1>3, <2>3
<1>5. CASE Hear(s, mac)
  <2>1. /\ queue'[s] = Offered(s) /\ \A t \in Sides \ {s} : queue'[t] = queue[t]
        /\ fate' = Append(fate, "waiting")
    BY <1>5 DEF Hear, TypeOK
  <2>2. Offers(s, n, {})
    BY <1>2, <1>4, <2>1 DEF Offers
  <2> QED
    BY <1>1, <2>2 DEF n
<1>6. CASE HearFull(s, mac)
  <2>1. PICK i \in 1..QueueMax + 1 :
          /\ queue' = [queue EXCEPT ![s] = RemoveAt(Offered(s), i)]
          /\ fate' = [Append(fate, "waiting") EXCEPT ![Offered(s)[i]] = "dropped"]
    BY <1>6 DEF HearFull
  <2>2. /\ queue'[s] = RemoveAt(Offered(s), i)
        /\ \A t \in Sides \ {s} : queue'[t] = queue[t]
    BY <2>1 DEF TypeOK
  <2>3. Len(Offered(s)) = QueueMax + 1 /\ QueueMax \in Nat
    BY <1>6, SessionAssumption DEF HearFull, Offered, TypeOK
  <2>4. Heard' \subseteq Nat
    BY <1>2
  <2> DEFINE q == Offered(s)
             x == q[i]
  <2>5. /\ Increasing(RemoveAt(q, i))
        /\ ToSet(RemoveAt(q, i)) = ToSet(q) \ {x} /\ x \in ToSet(q)
    <3>1. q \in Seq(Heard') /\ Increasing(q) /\ i \in 1..Len(q)
      BY <1>2, <1>4, <2>3
    <3> HIDE DEF q
    <3> QED
      BY <2>4, <3>1, RemoveFacts
  <2>6. \A m \in Heard' : fate'[m] = IF m \in {x} THEN "dropped"
                                      ELSE IF m = n THEN "waiting" ELSE fate[m]
    BY <1>2, <2>1
  <2>7. Len(q) > QueueMax
    BY <2>3
  <2> HIDE DEF x
  <2>8. Offers(s, n, {x})
    BY <1>4, <2>2, <2>5, <2>6, <2>7 DEF Offers
  <2> QED
    BY <1>1, <2>8 DEF n
<1> QED
  BY <1>5, <1>6

\* An observation is put behind all others, or another one given up for it.
LEMMA HearStep ==
  ASSUME TypeOK, Placed, InOrder, NEW s \in Sides, NEW mac \in Macs,
         Hear(s, mac) \/ HearFull(s, mac)
  PROVE  Placed' /\ InOrder'
<1> DEFINE k == Len(log) + 1
<1>0. Hears(s, mac) /\ \E d : Offers(s, k, d)
  BY OfferFacts
<1>1. /\ k \in Nat /\ Heard \subseteq Nat /\ \A m \in Heard : m < k
      /\ Heard' = Heard \cup {k} /\ k \notin Heard
      /\ \A m \in Heard : log'[m] = log[m]
      /\ log'[k].side = s
  BY <1>0, HearsFacts, HeardFacts
<1> HIDE DEF k
<1>d. PICK d : Offers(s, k, d)
  BY <1>0
<1>2. /\ ToSet(work) \subseteq Heard
      /\ \A t \in Sides : ToSet(queue[t]) \subseteq Heard
  BY ToSetFacts DEF TypeOK
<1>3. /\ d \subseteq ToSet(queue[s]) \cup {k}
      /\ Increasing(queue'[s]) /\ ToSet(queue'[s]) = (ToSet(queue[s]) \cup {k}) \ d
      /\ \A t \in Sides \ {s} : queue'[t] = queue[t]
      /\ \A m \in Heard' : fate'[m] = IF m \in d THEN "dropped"
                                      ELSE IF m = k THEN "waiting" ELSE fate[m]
  BY <1>d DEF Offers
<1>4. UNCHANGED <<pc, side, work>>
  BY <1>0 DEF Hears, loopVars
<1>6. \A t \in Sides \ {s} : \A m \in ToSet(queue[t]) : m \notin d
  <2> TAKE t \in Sides \ {s}
  <2> TAKE m \in ToSet(queue[t])
  <2>1. m \in Heard /\ log[m].side = t
    BY <1>2 DEF Placed
  <2>2. m # k /\ m \notin ToSet(queue[s])
    BY <1>1, <2>1 DEF Placed
  <2> QED
    BY <1>3, <2>2
<1>7. \A m \in ToSet(work) : m \notin d
  <2> TAKE m \in ToSet(work)
  <2>1. m \in Heard /\ m \in Nat /\ log[m].side = side /\ m # k
    BY <1>1, <1>2 DEF Placed
  <2>2. m \notin ToSet(queue[s])
    <3>1. CASE s = side
      BY <2>1, <3>1, Irreflexive DEF Placed
    <3>2. CASE s # side
      BY <2>1, <3>2 DEF Placed
    <3> QED
      BY <3>1, <3>2
  <2> QED
    BY <1>3, <2>1, <2>2
<1>8. Placed'
  <2>1. ASSUME NEW t \in Sides
        PROVE  /\ Increasing(queue'[t])
               /\ \A n \in ToSet(queue'[t]) : log'[n].side = t /\ fate'[n] = "waiting"
    <3>1. /\ Increasing(queue[t]) /\ ToSet(queue[t]) \subseteq Heard
          /\ \A n \in ToSet(queue[t]) : log[n].side = t /\ fate[n] = "waiting"
      BY <1>2 DEF Placed
    <3>3. CASE t = s
      <4> SUFFICES ASSUME NEW n \in ToSet(queue'[t])
                   PROVE  log'[n].side = t /\ fate'[n] = "waiting"
        BY <1>3, <3>3
      <4>1. n \notin d /\ n \in ToSet(queue[t]) \cup {k}
        BY <1>3, <3>3
      <4>2. CASE n = k
        BY <1>1, <1>3, <3>3, <4>1, <4>2
      <4>3. CASE n \in ToSet(queue[t])
        BY <1>1, <1>3, <3>1, <4>1, <4>3
      <4> QED
        BY <4>1, <4>2, <4>3
    <3>4. CASE t # s
      <4>1. queue'[t] = queue[t] /\ \A n \in ToSet(queue[t]) : n \notin d /\ n # k
        BY <1>1, <1>3, <1>6, <3>1, <3>4
      <4> QED
        BY <1>1, <1>3, <3>1, <4>1
    <3> QED
      BY <3>3, <3>4
  <2>2. /\ Increasing(work')
        /\ pc' # "rows" => work' = <<>>
        /\ \A n \in ToSet(work') : log'[n].side = side' /\ fate'[n] = "waiting"
    <3>1. /\ Increasing(work)
          /\ pc # "rows" => work = <<>>
          /\ \A n \in ToSet(work) : log[n].side = side /\ fate[n] = "waiting"
      BY DEF Placed
    <3>2. \A n \in ToSet(work) : log'[n].side = side /\ fate'[n] = "waiting"
      BY <1>1, <1>2, <1>3, <1>7, <3>1
    <3> QED
      BY <1>4, <3>1, <3>2
  <2>3. \A m \in ToSet(work'), n \in ToSet(queue'[side']) : m < n
    <3>1. side \in Sides
      BY DEF TypeOK
    <3>2. \A m \in ToSet(work), n \in ToSet(queue[side]) : m < n
      BY DEF Placed
    <3>3. \A m \in ToSet(work) : m < k
      BY <1>1, <1>2
    <3>4. \A n \in ToSet(queue'[side]) : n \in ToSet(queue[side]) \/ n = k
      BY <1>3, <3>1
    <3> QED
      BY <1>4, <3>2, <3>3, <3>4
  <2>4. ASSUME NEW n \in Heard', fate'[n] = "waiting"
        PROVE  n \in ToSet(queue'[log'[n].side]) \cup ToSet(work')
    <3>0. n \notin d
      BY <1>3, <2>4
    <3>1. CASE n = k
      BY <1>1, <1>3, <3>0, <3>1
    <3>2. CASE n \in Heard
      <4>1. log'[n] = log[n] /\ log[n].side \in Sides /\ fate[n] = "waiting"
        BY <1>1, <1>3, <2>4, <3>0, <3>2, HeardFacts DEF Rec
      <4>2. n \in ToSet(queue[log[n].side]) \cup ToSet(work)
        BY <3>2, <4>1 DEF Placed
      <4>3. CASE log[n].side = s
        BY <1>3, <1>4, <3>0, <4>1, <4>2, <4>3
      <4>4. CASE log[n].side # s
        BY <1>3, <1>4, <4>1, <4>2, <4>4
      <4> QED
        BY <4>3, <4>4
    <3> QED
      BY <1>1, <3>1, <3>2
  <2>5. \A t \in Sides :
          /\ Increasing(queue'[t])
          /\ \A n \in ToSet(queue'[t]) : log'[n].side = t /\ fate'[n] = "waiting"
    BY <2>1
  <2>6. \A n \in Heard' :
          fate'[n] = "waiting" => n \in ToSet(queue'[log'[n].side]) \cup ToSet(work')
    BY <2>4
  <2> QED
    BY <2>2, <2>3, <2>5, <2>6 DEF Placed
<1>9. InOrder'
  <2> SUFFICES ASSUME NEW m \in Heard', NEW n \in Heard', log'[m].side = log'[n].side,
                      fate'[m] \notin {"waiting", "dropped"}, fate'[n] = "waiting"
               PROVE  m < n
    BY DEF InOrder
  <2>1. m \in Heard /\ m \notin d /\ n \notin d /\ fate'[m] = fate[m]
    BY <1>1, <1>3
  <2>2. CASE n = k
    BY <1>1, <2>1, <2>2
  <2>3. CASE n \in Heard
    <3>1. fate[n] = "waiting" /\ log[m].side = log[n].side
      BY <1>1, <1>3, <2>1, <2>3
    <3> QED
      BY <2>1, <2>3, <3>1 DEF InOrder
  <2> QED
    BY <1>1, <2>2, <2>3
<1> QED
  BY <1>8, <1>9

\* The queue of a scanner becomes the list at hand, or is thrown away.
LEMMA DrainStep ==
  ASSUME TypeOK, Placed, InOrder, Drain
  PROVE  Placed' /\ InOrder'
<1>0. /\ Heard' = Heard /\ Heard \subseteq Nat /\ \A n \in Heard : log[n].side \in Sides
      /\ side \in Sides /\ UNCHANGED <<log, side>> /\ pc' = "rows"
  BY HeardFacts DEF Heard, Rec, Drain, TypeOK
<1>1. \A s \in Sides : ToSet(queue[s]) \subseteq Heard
  BY ToSetFacts DEF TypeOK
<1>2. work = <<>> /\ ToSet(work) = {}
  BY EmptyFacts DEF Drain, Placed
<1>3. /\ queue'[side] = <<>> /\ ToSet(queue'[side]) = {} /\ Increasing(queue'[side])
      /\ \A s \in Sides \ {side} : queue'[s] = queue[s]
  BY EmptyFacts DEF Drain, TypeOK
<1>4. \A s \in Sides \ {side} : \A n \in ToSet(queue[s]) : n \notin ToSet(queue[side])
  BY <1>0 DEF Placed
<1>5. CASE paused /\ ~last
  <2>1. /\ work' = <<>> /\ ToSet(work') = {} /\ Increasing(work')
        /\ \A n \in Heard :
              fate'[n] = IF n \in ToSet(queue[side]) THEN "discarded" ELSE fate[n]
    BY <1>5, EmptyFacts, FatedFacts DEF Drain, Fates
  <2>2. \A s \in Sides :
          /\ Increasing(queue'[s])
          /\ \A n \in ToSet(queue'[s]) : log'[n].side = s /\ fate'[n] = "waiting"
    <3> TAKE s \in Sides
    <3>1. CASE s = side
      BY <1>3, <3>1
    <3>2. CASE s # side
      <4>1. /\ Increasing(queue[s]) /\ ToSet(queue[s]) \subseteq Heard
            /\ \A n \in ToSet(queue[s]) : log[n].side = s /\ fate[n] = "waiting"
        BY <1>1 DEF Placed
      <4>2. \A n \in ToSet(queue[s]) : fate'[n] = fate[n]
        BY <1>4, <2>1, <3>2, <4>1
      <4>3. queue'[s] = queue[s] /\ log' = log
        BY <1>0, <1>3, <3>2
      <4> QED
        BY <4>1, <4>2, <4>3
    <3> QED
      BY <3>1, <3>2
  <2>3. \A n \in Heard : fate'[n] = "waiting" => n \in ToSet(queue'[log[n].side])
    BY <1>0, <1>2, <1>3, <2>1 DEF Placed
  <2>4. Placed'
    BY <1>0, <2>1, <2>2, <2>3 DEF Placed
  <2>5. InOrder'
    <3> SUFFICES ASSUME NEW m \in Heard, NEW n \in Heard, log[m].side = log[n].side,
                        fate'[m] \notin {"waiting", "dropped"}, fate'[n] = "waiting"
                 PROVE  m < n
      BY <1>0 DEF InOrder
    <3>1. fate[n] = "waiting" /\ n \notin ToSet(queue[side])
      BY <2>1
    <3>2. m \notin ToSet(queue[side])
      BY <1>0, <1>2, <3>1 DEF Placed
    <3> QED
      BY <2>1, <3>1, <3>2 DEF InOrder
  <2> QED
    BY <2>4, <2>5
<1>6. CASE ~(paused /\ ~last)
  <2>1. work' = queue[side] /\ fate' = fate
    BY <1>6 DEF Drain
  <2>2. \A s \in Sides :
          /\ Increasing(queue'[s])
          /\ \A n \in ToSet(queue'[s]) : log'[n].side = s /\ fate'[n] = "waiting"
    BY <1>0, <1>3, <2>1 DEF Placed
  <2>3. \A n \in Heard :
          fate'[n] = "waiting" => n \in ToSet(queue'[log[n].side]) \cup ToSet(work')
    BY <1>0, <1>2, <1>3, <2>1 DEF Placed
  <2>4. Increasing(work') /\ \A n \in ToSet(work') : log[n].side = side /\ fate'[n] = "waiting"
    BY <1>0, <2>1 DEF Placed
  <2>5. Placed'
    BY <1>0, <1>3, <2>2, <2>3, <2>4 DEF Placed
  <2>6. InOrder'
    BY <1>0, <2>1 DEF InOrder
  <2> QED
    BY <2>5, <2>6
<1> QED
  BY <1>5, <1>6

LEMMA NextPlaced ==
  ASSUME TypeOK, Placed, InOrder, [Next]_vars
  PROVE  Placed' /\ InOrder'
<1>0. /\ "noFix" \in Fates \ {"waiting"} /\ "duplicate" \in Fates \ {"waiting"}
      /\ "row" \in Fates \ {"waiting"}
  BY DEF Fates
<1>r. \A anew \in BOOLEAN : RowEnds(anew) \in Fates \ {"waiting"}
  BY DEF RowEnds, Fates
<1>w. ToSet(work) \subseteq Heard
  BY ToSetFacts DEF TypeOK
<1>1. ASSUME NEW s \in Sides, NEW mac \in Macs, Hear(s, mac) \/ HearFull(s, mac)
      PROVE  Placed' /\ InOrder'
  BY <1>1, HearStep
<1>2. CASE Drain
  BY <1>2, DrainStep
<1>3. CASE ListDone
  <2>1. UNCHANGED <<log, queue, fate, work>> /\ work = <<>>
    BY <1>3 DEF ListDone
  <2> QED
    BY <2>1, IdleStep
<1>4. CASE GateNoFix
  <2>1. UNCHANGED <<log, queue, side, pc>> /\ Next1("noFix")
    BY <1>4 DEF GateNoFix, loopVars
  <2> QED
    BY <1>0, <2>1, NextOneStep
<1>5. CASE GateDuplicate
  <2>1. UNCHANGED <<log, queue, side, pc>> /\ Next1("duplicate")
    BY <1>5 DEF GateDuplicate, loopVars
  <2> QED
    BY <1>0, <2>1, NextOneStep
<1>6. CASE WriteRow
  <2>1. UNCHANGED <<log, queue, side, pc>> /\ Next1(RowEnds(TRUE))
    BY <1>6 DEF WriteRow, loopVars
  <2>2. RowEnds(TRUE) \in Fates \ {"waiting"}
    BY <1>r
  <2> QED
    BY <2>1, <2>2, NextOneStep
<1>7. CASE WriteRaises \/ RotateRaises
  <2>0. PICK e \in Fates \ {"waiting"} : RowRaises(e)
    <3>1. CASE WriteRaises
      BY <3>1 DEF WriteRaises, Fates
    <3>2. CASE RotateRaises
      BY <1>r, <3>2 DEF RotateRaises
    <3> QED
      BY <1>7, <3>1, <3>2
  <2>1. UNCHANGED <<log, queue>> /\ Unwinds /\ work # <<>>
    BY <2>0 DEF RowRaises, Passes, Gated
  <2>2. Head(work) \in ToSet(work)
    BY <2>1, HeardFacts, HeadTailFacts DEF TypeOK
  <2>3. /\ \A n \in Heard \ ToSet(work) : fate'[n] = fate[n]
        /\ \A n \in ToSet(work) : fate'[n] # "waiting"
    BY <1>w, <2>0, <2>2 DEF RowRaises
  <2> QED
    BY <2>1, <2>3, UnwindStep
<1>8. CASE LoopRaises
  <2>1. UNCHANGED <<log, queue, fate>> /\ Unwinds /\ work = <<>>
    BY <1>8 DEF LoopRaises, Placed, stats
  <2>2. ToSet(work) = {}
    BY <2>1, EmptyFacts
  <2> QED
    BY <2>1, <2>2, UnwindStep
<1>9. CASE UNCHANGED vars \/ \E s \in Sides : StartScanner(s)
  <2>1. UNCHANGED <<log, queue, fate, work, side, pc>>
    BY <1>9 DEF vars, StartScanner, loopVars
  <2> QED
    BY <2>1, IdleStep
<1>10. CASE \/ OpenSession \/ OpenFails \/ NoButton \/ PressA \/ PressB \/ Answer
            \/ Stop \/ Close
  <2>1. UNCHANGED <<log, queue, fate, work>> /\ pc # "rows"
    BY <1>10 DEF OpenSession, OpenFails, NoButton, PressA, PressB, Answer, Stop, Close,
                 stats
  <2>2. work = <<>>
    BY <2>1 DEF Placed
  <2> QED
    BY <2>1, <2>2, IdleStep
<1> QED
  BY <1>1, <1>2, <1>3, <1>4, <1>5, <1>6, <1>7, <1>8, <1>9, <1>10 DEF Next, LiveScan

-------------------------------------------------------------------------------
(* How a scan goes on and ends. *)

\* What the place in the program says of the scanners, the file, the queues and
\* what has failed: only a rotation that failed leaves no file or one without a
\* header, and the exception leads through `finally`, where a second may fail.
Control ==
  /\ pc = "start" => failed = {} /\ file = "none"
  /\ pc = "start" \/ (~last /\ pc \in {"drain", "rows", "input", "dialog"}) =>
       strays = {} /\ rotateFails = 0
  /\ pc = "stop" \/ (last /\ pc \in {"drain", "rows"}) => rotateFails <= 1
  /\ rotateFails <= 2
  /\ pc \in {"start", "input", "dialog", "stop"} => ~last
  /\ pc \notin {"start", "saved", "crashed"} => file # "none" \/ rotateFails # 0
  /\ file = "headless" => rotateFails # 0
  /\ rotateFails # 0 => "rotate" \in failed
  /\ last => runs = {}
  /\ pc \in {"close", "saved"} => last
  /\ Over => file = "none" /\ (runs = {} \/ failed = {"session"})

\* With nothing failed, the last drain has emptied the queues it has come past,
\* but for what is late.
Emptied(s) == \A n \in ToSet(queue[s]) : log[n].late

LastDrain ==
  failed = {} /\ last =>
    /\ side = "ble" \/ pc \in {"close", "saved"} => Emptied("wifi")
    /\ pc = "rows" => Emptied(side)
    /\ pc \in {"close", "saved"} => Emptied("ble")

LEMMA RowRaisesFacts ==
  ASSUME NEW e, RowRaises(e)
  PROVE  /\ pc = "rows" /\ last' = last /\ runs' = runs /\ strays' = strays
         /\ pc' = IF last THEN "close" ELSE "stop"
BY DEF RowRaises, Passes, Gated, Unwinds, threads

LEMMA NextControl ==
  ASSUME TypeOK, Control, [Next]_vars
  PROVE  Control'
<1>0. rotateFails \in Nat
  BY DEF TypeOK
<1>1. ASSUME NEW s \in Sides, NEW mac \in Macs, Hear(s, mac) \/ HearFull(s, mac)
      PROVE  Control'
  <2>1. Hears(s, mac)
    BY <1>1 DEF Hear, HearFull
  <2> QED
    BY <2>1 DEF Hears, Control, Over, loopVars, stats, threads, failures
<1>2. CASE UNCHANGED vars
  BY <1>2 DEF vars, Control, Over, loopVars, stats, threads, failures
<1>3. ASSUME NEW s \in Sides, StartScanner(s)
      PROVE  Control'
  BY <1>3 DEF StartScanner, Control, Over, loopVars, stats, failures
<1>4. CASE OpenSession
  BY <1>4 DEF OpenSession, Control, Over, threads, failures
<1>5. CASE OpenFails
  BY <1>5 DEF OpenFails, Control, Over, stats, threads
<1>6. CASE Drain
  BY <1>6 DEF Drain, Control, Over, stats, threads, failures
<1>7. CASE ListDone
  BY <1>7 DEF ListDone, Control, Over, stats, threads, failures
<1>8. CASE GateNoFix \/ GateDuplicate
  BY <1>8 DEF GateNoFix, GateDuplicate, Control, Over, loopVars, stats, threads, failures
<1>9. CASE WriteRow
  <2>1. pc = "rows" /\ file' = "open" /\ UNCHANGED <<loopVars, threads, failures>>
    BY <1>9 DEF WriteRow, Passes, Gated
  <2> QED
    BY <2>1 DEF Control, Over, loopVars, threads, failures
<1>10. CASE WriteRaises
  <2>1. /\ file' = file /\ rotateFails' = rotateFails /\ RowRaises("raised")
        /\ failed \subseteq failed'
    BY <1>10 DEF WriteRaises
  <2>2. /\ pc = "rows" /\ last' = last /\ runs' = runs /\ strays' = strays
        /\ pc' = IF last THEN "close" ELSE "stop"
    BY <2>1, RowRaisesFacts
  <2> QED
    BY <1>0, <2>1, <2>2 DEF Control, Over
<1>11. CASE RotateRaises
  <2>1. /\ file' \in {"none", "headless"} /\ rotateFails' = rotateFails + 1
        /\ "rotate" \in failed'
        /\ \E e : RowRaises(e)
    BY <1>11 DEF RotateRaises
  <2>2. /\ pc = "rows" /\ last' = last /\ runs' = runs /\ strays' = strays
        /\ pc' = IF last THEN "close" ELSE "stop"
    BY <2>1, RowRaisesFacts
  <2> QED
    BY <1>0, <2>1, <2>2 DEF Control, Over
<1>12. CASE NoButton \/ PressA \/ PressB \/ Answer
  BY <1>0, <1>12 DEF NoButton, PressA, PressB, Answer, Control, Over, stats, threads,
                     failures
<1>13. CASE LoopRaises
  BY <1>0, <1>13 DEF LoopRaises, Unwinds, Control, Over, stats, threads
<1>14. CASE Stop
  <2>1. /\ pc = "stop" /\ UNCHANGED <<file, failed, rotateFails>>
        /\ \/ UNCHANGED <<pc, last>>
           \/ pc' = "drain" /\ last' /\ runs' = runs \ {"ble"} /\ "wifi" \notin runs
    BY <1>14 DEF Stop, Stopped, stats, failures
  <2>2. runs \subseteq {"wifi", "ble"}
    BY DEF TypeOK, Sides
  <2>3. CASE UNCHANGED <<pc, last>>
    BY <2>1, <2>3 DEF Control, Over
  <2>4. CASE pc' = "drain" /\ last' /\ runs' = {}
    BY <1>0, <2>1, <2>4 DEF Control, Over
  <2> QED
    BY <2>1, <2>2, <2>3, <2>4
<1>15. CASE Close
  BY <1>15 DEF Close, Control, Over, threads, failures
<1> QED
  BY <1>1, <1>2, <1>3, <1>4, <1>5, <1>6, <1>7, <1>8, <1>9, <1>10, <1>11, <1>12,
     <1>13, <1>14, <1>15 DEF Next, LiveScan

\* What waits after the scanners were stopped, and was not drained, is late.
LEMMA HearEmptied ==
  ASSUME TypeOK, Placed, runs = {}, NEW t \in Sides, Emptied(t),
         NEW s \in Sides, NEW mac \in Macs, Hear(s, mac) \/ HearFull(s, mac)
  PROVE  Emptied(t)'
<1> DEFINE k == Len(log) + 1
<1>0. Hears(s, mac) /\ \E d : Offers(s, k, d)
  BY OfferFacts
<1>1. /\ \A m \in Heard : log'[m] = log[m]
      /\ log'[k].late <=> s \in strays
      /\ s \in strays
  BY <1>0, HearsFacts DEF Hears
<1> HIDE DEF k
<1>2. \A m \in ToSet(queue'[t]) : m \in ToSet(queue[t]) \/ m = k
  BY <1>0 DEF Offers
<1>3. ToSet(queue[t]) \subseteq Heard
  BY ToSetFacts DEF TypeOK
<1> QED
  BY <1>1, <1>2, <1>3 DEF Emptied

LEMMA NextLastDrain ==
  ASSUME TypeOK, Placed, Control, LastDrain, [Next]_vars
  PROVE  LastDrain'
<1>0. /\ "wifi" \in Sides /\ "ble" \in Sides /\ side \in Sides
      /\ side = "wifi" \/ side = "ble"
  BY DEF Sides, TypeOK
<1>1. CASE failed' # {} \/ ~last'
  BY <1>1 DEF LastDrain
<1>2. CASE failed' = {} /\ last'
  <2>1. ASSUME NEW s \in Sides, NEW mac \in Macs, Hear(s, mac) \/ HearFull(s, mac)
        PROVE  LastDrain'
    <3>1. Hears(s, mac)
      BY <2>1 DEF Hear, HearFull
    <3>2. UNCHANGED <<pc, side, last, failed>>
      BY <3>1 DEF Hears, loopVars, failures
    <3>3. runs = {}
      BY <1>2, <3>2 DEF Control
    <3>4. \A t \in Sides : Emptied(t) => Emptied(t)'
      BY <2>1, <3>3, HearEmptied
    <3>5. Emptied(side)' <=> \A n \in ToSet(queue'[side]) : log'[n].late
      BY <3>2 DEF Emptied
    <3> HIDE DEF Emptied
    <3>6. Emptied(side) => Emptied(side)'
      <4>1. CASE side = "wifi"
        BY <1>0, <3>2, <3>4, <4>1
      <4>2. CASE side = "ble"
        BY <1>0, <3>2, <3>4, <4>2
      <4> QED
        BY <1>0, <4>1, <4>2
    <3> QED
      BY <1>0, <1>2, <3>2, <3>4, <3>6 DEF LastDrain
  <2>2. CASE UNCHANGED vars \/ \E s \in Sides : StartScanner(s)
    <3>1. UNCHANGED <<pc, side, last, failed, queue, log>>
      BY <2>2 DEF vars, StartScanner, loopVars, failures
    <3> QED
      BY <3>1 DEF LastDrain, Emptied
  <2>3. CASE Drain
    <3>1. /\ queue'[side] = <<>> /\ \A t \in Sides \ {side} : queue'[t] = queue[t]
          /\ pc' = "rows" /\ pc = "drain" /\ UNCHANGED <<side, last, failed, log>>
      BY <2>3 DEF Drain, TypeOK, failures
    <3>2. \A n \in ToSet(queue'[side]) : log'[n].late
      BY <3>1, EmptyFacts
    <3>3. CASE side = "wifi"
      BY <3>1, <3>2, <3>3 DEF LastDrain, Emptied
    <3>4. CASE side = "ble"
      <4>1. queue'["wifi"] = queue["wifi"]
        BY <1>0, <3>1, <3>4
      <4> QED
        BY <3>1, <3>2, <3>4, <4>1 DEF LastDrain, Emptied
    <3> QED
      BY <1>0, <3>3, <3>4
  <2>4. CASE ListDone
    <3>1. /\ pc = "rows" /\ UNCHANGED <<last, failed, queue, log>>
          /\ side' = IF side = "wifi" THEN "ble" ELSE "wifi"
          /\ pc' = IF side = "wifi" THEN "drain" ELSE IF last THEN "close" ELSE "input"
      BY <2>4 DEF ListDone, failures
    <3>2. CASE side = "wifi"
      BY <3>1, <3>2 DEF LastDrain, Emptied
    <3>3. CASE side = "ble"
      BY <3>1, <3>3 DEF LastDrain, Emptied
    <3> QED
      BY <1>0, <3>2, <3>3
  <2>5. CASE GateNoFix \/ GateDuplicate \/ WriteRow
    <3>1. UNCHANGED <<pc, side, last, failed, queue, log>>
      BY <2>5 DEF GateNoFix, GateDuplicate, WriteRow, loopVars, failures
    <3> QED
      BY <3>1 DEF LastDrain, Emptied
  <2>7. CASE WriteRaises
    <3>1. /\ failed = {} /\ file = "none" /\ RowRaises("raised")
      BY <1>2, <2>7 DEF WriteRaises
    <3>2. pc = "rows"
      BY <3>1, RowRaisesFacts
    <3> QED
      BY <3>1, <3>2 DEF Control
  <2>8. CASE RotateRaises \/ LoopRaises \/ OpenFails
    BY <1>2, <2>8 DEF RotateRaises, LoopRaises, OpenFails
  <2>9. CASE OpenSession \/ NoButton \/ PressA \/ PressB \/ Answer
    BY <1>2, <2>9 DEF OpenSession, NoButton, PressA, PressB, Answer, Control
  <2>10. CASE Stop
    <3>1. /\ pc = "stop" /\ ~last
          /\ \/ UNCHANGED <<pc, last>>
             \/ pc' = "drain" /\ side' = "wifi"
      BY <2>10 DEF Stop, Control
    <3> QED
      BY <1>2, <3>1 DEF LastDrain
  <2>11. CASE Close
    <3>1. pc = "close" /\ UNCHANGED <<side, last, failed, queue, log>>
          /\ pc' \in {"crashed", "saved"}
      BY <2>11 DEF Close, failures
    <3> QED
      BY <3>1 DEF LastDrain, Emptied, Control
  <2> QED
    BY <2>1, <2>2, <2>3, <2>4, <2>5, <2>7, <2>8, <2>9, <2>10, <2>11
       DEF Next, LiveScan
<1> QED
  BY <1>1, <1>2

\* However a scan ends, its scanners were told to stop and its file is closed,
\* unless the session's first file could not be opened (App._live_scan).
THEOREM ScanAllClosed == Spec => []AllClosed
<1>1. Init => Control
  BY DEF Init, Control, Over
<1>2. TypeOK /\ Control /\ [Next]_vars => Control'
  BY NextControl
<1>3. Control => AllClosed
  BY DEF Control, AllClosed
<1> QED
  BY <1>1, <1>2, <1>3, ScanTypeOK, PTL DEF Spec

-------------------------------------------------------------------------------
(* What becomes of what was heard. *)

\* A device the dedup knows was heard, and its row written, or lost by a failure.
SeenHasRow ==
  \A d \in seen : \E m \in Heard :
    Device(m) = d /\ (fate[m] = "row" \/ (fate[m] \in {"raised", "erased"} /\ failed # {}))

\* What was passed over had no fix, what was dropped had no room, and only a
\* failure loses anything else.
EndsExplained ==
  \A n \in Heard :
    /\ fate[n] = "noFix" => ~log[n].fix
    /\ fate[n] = "dropped" => Crowded(log[n].side)
    /\ fate[n] \in {"raised", "lost", "erased"} => failed # {}
    /\ fate[n] = "erased" => rotateFails # 0

FateInv == SeenHasRow /\ DuplicateHasRow /\ RowHadFix /\ EndsExplained

\* A step that leaves the log alone, and gives what waits an end that is true.
LEMMA FateStep ==
  ASSUME TypeOK, InOrder, FateInv, UNCHANGED log, failed # {} => failed' # {},
         rotateFails # 0 => rotateFails' # 0,
         \A n \in Heard : fate[n] # "waiting" => fate'[n] = fate[n],
         \A d \in seen' :
           \/ d \in seen
           \/ \E m \in Heard :
                /\ Device(m) = d
                /\ fate'[m] = "row" \/ (fate'[m] \in {"raised", "erased"} /\ failed' # {}),
         \A n \in Heard : fate[n] = "waiting" =>
           /\ fate'[n] = "duplicate" => Device(n) \in seen
           /\ RequireFix /\ fate'[n] \in {"row", "erased"} => log[n].fix
           /\ fate'[n] = "noFix" => ~log[n].fix
           /\ fate'[n] \in {"raised", "lost", "erased"} => failed' # {}
           /\ fate'[n] = "erased" => rotateFails' # 0
           /\ fate'[n] # "dropped"
  PROVE  FateInv'
<1>0. /\ Heard' = Heard /\ Heard \subseteq Nat /\ Heard = 1..Len(log) /\ Len(log) \in Nat
      /\ \A n \in Heard : Device(n)' = Device(n)
  BY HeardFacts DEF Heard, Device
<1>1. SeenHasRow'
  <2> SUFFICES ASSUME NEW d \in seen'
               PROVE  \E m \in Heard :
                        /\ Device(m) = d
                        /\ fate'[m] = "row" \/ (fate'[m] \in {"raised", "erased"} /\ failed' # {})
    BY <1>0 DEF SeenHasRow
  <2>1. CASE d \in seen
    <3>1. PICK m \in Heard :
            Device(m) = d /\ (fate[m] = "row" \/ (fate[m] \in {"raised", "erased"} /\ failed # {}))
      BY <2>1 DEF FateInv, SeenHasRow
    <3>2. fate'[m] = fate[m]
      BY <3>1
    <3> QED
      BY <3>1, <3>2
  <2> QED
    BY <2>1
<1>2. DuplicateHasRow'
  <2> SUFFICES ASSUME NEW n \in Heard, fate'[n] = "duplicate"
               PROVE  \E m \in 1..n - 1 :
                        /\ Device(m) = Device(n)
                        /\ fate'[m] = "row" \/ (fate'[m] \in {"raised", "erased"} /\ failed' # {})
    <3>1. \A m \in 1..Len(log) : Device(m)' = Device(m)
      BY <1>0
    <3>2. \A n \in Heard : 1..n - 1 \subseteq Heard
      BY <1>0
    <3> QED
      BY <1>0, <3>2 DEF DuplicateHasRow
  <2>1. \E m \in Heard :
          /\ m < n /\ Device(m) = Device(n)
          /\ fate[m] = "row" \/ (fate[m] \in {"raised", "erased"} /\ failed # {})
    <3>1. CASE fate[n] = "waiting"
      <4>1. Device(n) \in seen
        BY <3>1
      <4>2. PICK m \in Heard :
              /\ Device(m) = Device(n)
              /\ fate[m] = "row" \/ (fate[m] \in {"raised", "erased"} /\ failed # {})
        BY <4>1 DEF FateInv, SeenHasRow
      <4>3. log[m].side = log[n].side
        BY <4>2 DEF Device
      <4>4. fate[m] \notin {"waiting", "dropped"}
        BY <4>2
      <4>5. m < n
        BY <3>1, <4>3, <4>4 DEF InOrder
      <4> QED
        BY <4>2, <4>5
    <3>2. CASE fate[n] # "waiting"
      <4>1. fate[n] = "duplicate"
        BY <3>2
      <4>2. PICK m \in 1..n - 1 :
              /\ Device(m) = Device(n)
              /\ fate[m] = "row" \/ (fate[m] \in {"raised", "erased"} /\ failed # {})
        BY <4>1 DEF FateInv, DuplicateHasRow
      <4>3. m \in Heard /\ m < n
        BY <1>0
      <4> QED
        BY <4>2, <4>3
    <3> QED
      BY <3>1, <3>2
  <2>2. PICK m \in Heard :
          /\ m < n /\ Device(m) = Device(n)
          /\ fate[m] = "row" \/ (fate[m] \in {"raised", "erased"} /\ failed # {})
    BY <2>1
  <2>3. fate'[m] = fate[m]
    BY <2>2
  <2>4. m \in 1..n - 1
    BY <1>0, <2>2
  <2> QED
    BY <2>2, <2>3, <2>4
<1>3. RowHadFix'
  BY <1>0 DEF FateInv, RowHadFix
<1>4. EndsExplained'
  <2>1. \A n \in Heard : Crowded(log[n].side)' <=> Crowded(log[n].side)
    BY <1>0 DEF Crowded
  <2> SUFFICES ASSUME NEW n \in Heard
               PROVE  /\ fate'[n] = "noFix" => ~log[n].fix
                      /\ fate'[n] = "dropped" => Crowded(log[n].side)
                      /\ fate'[n] \in {"raised", "lost", "erased"} => failed' # {}
                      /\ fate'[n] = "erased" => rotateFails' # 0
    BY <1>0, <2>1 DEF EndsExplained
  <2>2. CASE fate[n] = "waiting"
    BY <2>2
  <2>3. CASE fate[n] # "waiting"
    BY <2>3 DEF FateInv, EndsExplained
  <2> QED
    BY <2>2, <2>3
<1> QED
  BY <1>1, <1>2, <1>3, <1>4 DEF FateInv

\* What is dropped had no room, and what had none has none of what comes later.
LEMMA HearCrowded ==
  ASSUME TypeOK, Placed, NEW s \in Sides, NEW mac \in Macs,
         Hear(s, mac) \/ HearFull(s, mac)
  PROVE  /\ \A t \in Sides : Crowded(t) => Crowded(t)'
         /\ \A d : Offers(s, Len(log) + 1, d) /\ d # {} => Crowded(s)'
<1> DEFINE k == Len(log) + 1
           Of(t) == {n \in Heard : log[n].side = t}
<1>0. Hears(s, mac)
  BY OfferFacts
<1>1. /\ Heard' = 1..k /\ k \in Nat /\ Heard' = Heard \cup {k}
      /\ \A m \in Heard : log'[m] = log[m]
      /\ log'[k].side = s /\ Offered(s) \in Seq(Heard')
  BY <1>0, HearsFacts
<1>q. QueueMax \in Nat
  BY SessionAssumption
<1> HIDE DEF k
<1>2. IsFiniteSet(Heard')
  BY <1>1, FS_Interval
<1>3. \A t \in Sides : /\ Of(t)' \subseteq Heard' /\ IsFiniteSet(Of(t)')
                       /\ Cardinality(Of(t)') \in Nat
  <2> TAKE t \in Sides
  <2>1. Of(t)' \subseteq Heard'
    OBVIOUS
  <2>2. IsFiniteSet(Of(t)')
    BY <1>2, <2>1, FS_Subset
  <2> QED
    BY <2>1, <2>2, FS_CardinalityType
<1>4. ASSUME NEW t \in Sides, Crowded(t)
      PROVE  Crowded(t)'
  <2>1. Of(t) \subseteq Of(t)'
    BY <1>1
  <2>2. Cardinality(Of(t)) <= Cardinality(Of(t)') /\ Cardinality(Of(t)) \in Nat
    BY <1>3, <2>1, FS_Subset, FS_CardinalityType
  <2>3. Cardinality(Of(t)) > QueueMax
    BY <1>4 DEF Crowded
  <2>4. Cardinality(Of(t)') > QueueMax
    BY <1>3, <1>q, <2>2, <2>3
  <2> QED
    BY <2>4 DEF Crowded
<1>5. ASSUME NEW d, Offers(s, k, d), d # {}
      PROVE  Crowded(s)'
  <2>1. /\ Increasing(Offered(s)) /\ Len(Offered(s)) > QueueMax
        /\ ToSet(Offered(s)) = ToSet(queue[s]) \cup {k}
    BY <1>5 DEF Offers
  <2> DEFINE q == Offered(s)
             T == Of(s)'
  <2>2. ToSet(q) \subseteq T
    <3>1. \A n \in ToSet(queue[s]) : n \in Heard /\ log[n].side = s
      BY ToSetFacts DEF TypeOK, Placed
    <3> QED
      BY <1>1, <2>1, <3>1
  <2>3. q \in Seq(Heard') /\ Increasing(q) /\ Len(q) > QueueMax
    BY <1>1, <2>1
  <2>4. T \subseteq Nat /\ IsFiniteSet(T) /\ Cardinality(T) \in Nat
    <3>1. T \subseteq Heard' /\ IsFiniteSet(T) /\ Cardinality(T) \in Nat
      BY <1>3
    <3> HIDE DEF T
    <3>2. Heard' \subseteq Nat
      BY <1>1
    <3> QED
      BY <3>1, <3>2
  <2> HIDE DEF q, T
  <2>5. q \in Seq(T)
    <3>1. Len(q) \in Nat /\ DOMAIN q = 1..Len(q) /\ \A i \in 1..Len(q) : q[i] \in ToSet(q)
      BY <2>3 DEF ToSet
    <3>2. \A i \in 1..Len(q) : q[i] \in T
      BY <2>2, <3>1
    <3>3. q \in [1..Len(q) -> T]
      BY <2>3, <3>1, <3>2
    <3> QED
      BY <3>1, <3>3, SeqDef
  <2>6. Len(q) <= Cardinality(T) /\ Len(q) \in Nat
    <3>1. Len(q) \in Nat
      BY <2>5
    <3>2. T \subseteq Nat /\ IsFiniteSet(T) /\ Increasing(q)
      BY <2>3, <2>4
    <3>3. Len(q) <= Cardinality(T)
      BY <2>5, <3>2, SpreadFacts
    <3> QED
      BY <3>1, <3>3
  <2>7. Cardinality(T) > QueueMax
    BY <1>q, <2>3, <2>4, <2>6
  <2> QED
    BY <2>7 DEF T, Crowded
<1> QED
  BY <1>4, <1>5 DEF k

LEMMA HearFate ==
  ASSUME TypeOK, Placed, FateInv, NEW s \in Sides, NEW mac \in Macs,
         Hear(s, mac) \/ HearFull(s, mac)
  PROVE  FateInv'
<1> DEFINE k == Len(log) + 1
<1>0. Hears(s, mac) /\ \E d : Offers(s, k, d)
  BY OfferFacts
<1>c. /\ \A t \in Sides : Crowded(t) => Crowded(t)'
      /\ \A d : Offers(s, k, d) /\ d # {} => Crowded(s)'
  BY HearCrowded
<1>h. /\ Heard = 1..Len(log) /\ Len(log) \in Nat
      /\ Heard' = Heard \cup {k} /\ k \notin Heard
      /\ \A m \in Heard : log'[m] = log[m]
      /\ log'[k].side = s /\ k \in Nat
      /\ \A m \in Heard : log[m].side \in Sides
  BY <1>0, HearsFacts, HeardFacts DEF Rec
<1> HIDE DEF k
<1>d. PICK d : Offers(s, k, d)
  BY <1>0
<1>1. \A m \in Heard : fate[m] # "waiting" => fate'[m] = fate[m]
  <2> SUFFICES ASSUME NEW m \in Heard, fate[m] # "waiting"
               PROVE  fate'[m] = fate[m]
    OBVIOUS
  <2>1. m \notin d /\ m # k
    BY <1>d, <1>h DEF Offers, Placed
  <2> QED
    BY <1>d, <1>h, <2>1 DEF Offers
<1>e. \A m \in Heard' :
        fate'[m] \notin {"waiting", "dropped"} => m \in Heard /\ fate'[m] = fate[m]
  BY <1>d, <1>h DEF Offers
<1>2. UNCHANGED <<seen, failed, rotateFails>>
  BY <1>0 DEF Hears, stats, failures
<1>3. \A m \in Heard : Device(m)' = Device(m)
  BY <1>h DEF Device
<1>4. SeenHasRow'
  <2> SUFFICES ASSUME NEW d1 \in seen
               PROVE  \E m \in Heard' :
                        /\ Device(m)' = d1
                        /\ fate'[m] = "row" \/ (fate'[m] \in {"raised", "erased"} /\ failed # {})
    BY <1>2 DEF SeenHasRow
  <2>1. PICK m \in Heard :
          Device(m) = d1
            /\ (fate[m] = "row" \/ (fate[m] \in {"raised", "erased"} /\ failed # {}))
    BY DEF FateInv, SeenHasRow
  <2>2. m \in Heard' /\ Device(m)' = d1 /\ fate'[m] = fate[m]
    BY <1>1, <1>3, <1>h, <2>1
  <2> QED
    BY <2>1, <2>2
<1>5. DuplicateHasRow'
  <2> SUFFICES ASSUME NEW n \in Heard', fate'[n] = "duplicate"
               PROVE  \E m \in 1..n - 1 :
                        /\ Device(m)' = Device(n)'
                        /\ fate'[m] = "row" \/ (fate'[m] \in {"raised", "erased"} /\ failed # {})
    BY <1>2 DEF DuplicateHasRow
  <2>1. n \in Heard /\ fate[n] = "duplicate"
    BY <1>e
  <2>2. PICK m \in 1..n - 1 :
          /\ Device(m) = Device(n)
          /\ fate[m] = "row" \/ (fate[m] \in {"raised", "erased"} /\ failed # {})
    BY <2>1 DEF FateInv, DuplicateHasRow
  <2>3. m \in Heard
    BY <1>h, <2>1
  <2>4. fate'[m] = fate[m] /\ Device(m)' = Device(m) /\ Device(n)' = Device(n)
    BY <1>1, <1>3, <2>1, <2>2, <2>3
  <2> QED
    BY <2>2, <2>4
<1>6. RowHadFix'
  <2>1. \A n \in Heard' : fate'[n] \in {"row", "erased"} =>
          n \in Heard /\ fate'[n] = fate[n] /\ log'[n] = log[n]
    BY <1>e, <1>h
  <2> QED
    BY <2>1 DEF FateInv, RowHadFix
<1>7. EndsExplained'
  <2> SUFFICES ASSUME NEW n \in Heard'
               PROVE  /\ fate'[n] = "noFix" => ~log'[n].fix
                      /\ fate'[n] = "dropped" => Crowded(log[n].side)'
                      /\ fate'[n] \in {"raised", "lost", "erased"} => failed # {}
                      /\ fate'[n] = "erased" => rotateFails # 0
    BY <1>2 DEF EndsExplained
  <2>1. CASE fate'[n] \notin {"waiting", "dropped"}
    <3>1. n \in Heard /\ fate'[n] = fate[n] /\ log'[n] = log[n]
      BY <1>e, <1>h, <2>1
    <3> QED
      BY <2>1, <3>1 DEF FateInv, EndsExplained
  <2>2. CASE fate'[n] = "dropped"
    <3>1. CASE n \in d
      <4>1. log'[n].side = s
        BY <1>d, <1>h, <3>1 DEF Offers, Placed
      <4>2. Crowded(s)'
        BY <1>c, <1>d, <3>1
      <4> QED
        BY <2>2, <4>1, <4>2 DEF Crowded
    <3>2. CASE n \notin d
      <4>1. n # k /\ n \in Heard /\ fate[n] = "dropped" /\ log'[n] = log[n]
        BY <1>d, <1>h, <2>2, <3>2 DEF Offers
      <4>2. Crowded(log[n].side)
        BY <4>1 DEF FateInv, EndsExplained
      <4>3. \A t \in Sides : Crowded(t) => Crowded(t)'
        BY <1>c
      <4>5. PICK t \in Sides : t = log[n].side /\ t = log'[n].side
        BY <1>h, <4>1
      <4>6. Crowded(t)'
        BY <4>2, <4>3, <4>5
      <4> QED
        BY <2>2, <4>5, <4>6 DEF Crowded
    <3> QED
      BY <3>1, <3>2
  <2>3. CASE fate'[n] = "waiting"
    BY <2>3
  <2> QED
    BY <2>1, <2>2, <2>3
<1> QED
  BY <1>4, <1>5, <1>6, <1>7 DEF FateInv

\* The observation at hand waits, and only it and what is behind it in the list
\* get another end.
LEMMA NextOneFates ==
  ASSUME TypeOK, Placed, NEW e \in Fates \ {"waiting"}, Next1(e)
  PROVE  /\ Head(work) \in Heard /\ fate[Head(work)] = "waiting"
         /\ \A n \in Heard : fate'[n] = IF n = Head(work) THEN e ELSE fate[n]
<1>1. work \in Seq(Heard) /\ work # <<>> /\ Heard \subseteq Nat
  BY HeardFacts DEF TypeOK, Next1
<1>2. Head(work) \in Heard /\ Head(work) \in ToSet(work)
  BY <1>1, HeadTailFacts
<1>3. \A n \in Heard : fate'[n] = IF n \in {Head(work)} THEN e ELSE fate[n]
  BY FatedFacts DEF Next1
<1> QED
  BY <1>2, <1>3 DEF Placed

LEMMA RaisedFates ==
  ASSUME TypeOK, Placed, NEW e, RowRaises(e)
  PROVE  /\ Head(work) \in Heard /\ ToSet(work) \subseteq Heard
         /\ Head(work) \in ToSet(work)
         /\ \A n \in ToSet(work) : fate[n] = "waiting"
         /\ \A n \in Heard : fate'[n] = IF n = Head(work) THEN e
                                        ELSE IF n \in ToSet(work) THEN "lost" ELSE fate[n]
         /\ UNCHANGED <<log, total>> /\ seen' = seen \cup {Device(Head(work))}
         /\ RequireFix => log[Head(work)].fix
<1>1. work \in Seq(Heard) /\ work # <<>> /\ Heard \subseteq Nat /\ pc = "rows"
  BY HeardFacts DEF TypeOK, RowRaises, Passes, Gated
<1>2. Head(work) \in Heard /\ Head(work) \in ToSet(work) /\ ToSet(work) \subseteq Heard
  BY <1>1, HeadTailFacts, ToSetFacts
<1>3. \A n \in Heard : fate'[n] = IF n = Head(work) THEN e
                                  ELSE IF n \in ToSet(work) THEN "lost" ELSE fate[n]
  BY DEF RowRaises
<1> QED
  BY <1>2, <1>3 DEF Placed, RowRaises, Passes, Gated, HasFix

\* What a failed rotation makes of its row.
LEMMA RotateFacts ==
  ASSUME TypeOK, Control, RotateRaises
  PROVE  \E e \in {"row", "erased"} : RowRaises(e)
BY DEF RotateRaises, RowEnds

LEMMA NextFate ==
  ASSUME TypeOK, Placed, InOrder, Control, FateInv, [Next]_vars
  PROVE  FateInv'
<1> DEFINE h == Head(work)
<1>0. /\ "noFix" \in Fates \ {"waiting"} /\ "duplicate" \in Fates \ {"waiting"}
      /\ \A e \in {"row", "erased"} : e \in Fates \ {"waiting"}
      /\ rotateFails \in Nat
  BY DEF Fates, TypeOK
<1>1. ASSUME NEW s \in Sides, NEW mac \in Macs, Hear(s, mac) \/ HearFull(s, mac)
      PROVE  FateInv'
  BY <1>1, HearFate
<1>2. CASE Drain
  <2>1. UNCHANGED <<log, seen, failed, rotateFails>>
    BY <1>2 DEF Drain, stats, failures
  <2>2. \A n \in Heard :
          fate'[n] = fate[n] \/ (n \in ToSet(queue[side]) /\ fate'[n] = "discarded")
    BY <1>2, FatedFacts DEF Drain, Fates
  <2>3. \A n \in ToSet(queue[side]) : fate[n] = "waiting"
    BY DEF Placed, TypeOK
  <2> QED
    BY <2>1, <2>2, <2>3, FateStep
<1>3. CASE GateNoFix
  <2>1. UNCHANGED <<log, seen, failed, rotateFails>> /\ ~log[h].fix
    BY <1>3 DEF GateNoFix, HasFix, stats, failures
  <2>2. /\ h \in Heard /\ fate[h] = "waiting"
        /\ \A n \in Heard : fate'[n] = IF n = h THEN "noFix" ELSE fate[n]
    BY <1>0, <1>3, NextOneFates DEF GateNoFix
  <2> QED
    BY <2>1, <2>2, FateStep
<1>4. CASE GateDuplicate
  <2>1. UNCHANGED <<log, seen, failed, rotateFails>> /\ Device(h) \in seen
    BY <1>4 DEF GateDuplicate, stats, failures
  <2>2. /\ h \in Heard /\ fate[h] = "waiting"
        /\ \A n \in Heard : fate'[n] = IF n = h THEN "duplicate" ELSE fate[n]
    BY <1>0, <1>4, NextOneFates DEF GateDuplicate
  <2> QED
    BY <2>1, <2>2, FateStep
<1>5. CASE WriteRow
  <2>1. /\ UNCHANGED <<log, failed, rotateFails>> /\ seen' = seen \cup {Device(h)}
        /\ RequireFix => log[h].fix
    BY <1>5 DEF WriteRow, Passes, Gated, HasFix, failures
  <2>2. PICK e \in {"row", "erased"} : Next1(e) /\ (e = "erased" => file = "headless")
    BY <1>5 DEF WriteRow, RowEnds
  <2>3. /\ h \in Heard /\ fate[h] = "waiting"
        /\ \A n \in Heard : fate'[n] = IF n = h THEN e ELSE fate[n]
    BY <1>0, <2>2, NextOneFates
  <2>4. \A d \in seen' : d \in seen \/ d = Device(h)
    BY <2>1
  <2>5. fate'[h] = e
    BY <2>3
  <2>6. e = "erased" => failed # {} /\ rotateFails # 0
    BY <2>2 DEF Control
  <2> HIDE DEF h
  <2> QED
    BY <2>1, <2>3, <2>4, <2>5, <2>6, FateStep
<1>6. CASE WriteRaises
  <2>0. RowRaises("raised") /\ rotateFails' = rotateFails
    BY <1>6 DEF WriteRaises
  <2>1. /\ UNCHANGED log /\ seen' = seen \cup {Device(h)}
        /\ h \in Heard /\ h \in ToSet(work)
        /\ \A n \in ToSet(work) : fate[n] = "waiting"
        /\ \A n \in Heard : fate'[n] = IF n = h THEN "raised"
                                       ELSE IF n \in ToSet(work) THEN "lost" ELSE fate[n]
    BY <2>0, RaisedFates
  <2>2. failed' # {}
    <3>1. pc = "rows"
      BY <2>0, RowRaisesFacts
    <3> QED
      BY <1>6, <3>1 DEF WriteRaises, Control
  <2>4. \A d \in seen' : d \in seen \/ d = Device(h)
    BY <2>1
  <2>5. fate'[h] = "raised"
    BY <2>1
  <2> HIDE DEF h
  <2> QED
    BY <2>0, <2>1, <2>2, <2>4, <2>5, FateStep
<1>7. CASE RotateRaises
  <2>0. PICK e \in {"row", "erased"} : RowRaises(e)
    BY <1>7, RotateFacts
  <2>1. /\ UNCHANGED log /\ seen' = seen \cup {Device(h)}
        /\ RequireFix => log[h].fix
        /\ h \in Heard /\ h \in ToSet(work)
        /\ \A n \in ToSet(work) : fate[n] = "waiting"
        /\ \A n \in Heard : fate'[n] = IF n = h THEN e
                                       ELSE IF n \in ToSet(work) THEN "lost" ELSE fate[n]
    BY <2>0, RaisedFates
  <2>2. failed' # {} /\ rotateFails' # 0
    BY <1>0, <1>7 DEF RotateRaises
  <2>4. \A d \in seen' : d \in seen \/ d = Device(h)
    BY <2>1
  <2>5. fate'[h] = e
    BY <2>1
  <2> HIDE DEF h
  <2> QED
    BY <2>1, <2>2, <2>4, <2>5, FateStep
<1>8. CASE OpenFails \/ LoopRaises
  <2>1. UNCHANGED <<log, fate, seen, rotateFails>> /\ failed' # {}
    BY <1>8 DEF OpenFails, LoopRaises, stats
  <2> QED
    BY <2>1, FateStep
<1>9. CASE \/ UNCHANGED vars \/ \E s \in Sides : StartScanner(s)
           \/ OpenSession \/ ListDone \/ NoButton \/ PressA \/ PressB \/ Answer
           \/ Stop \/ Close
  <2>1. UNCHANGED <<log, fate, seen, failed, rotateFails>>
    BY <1>9 DEF vars, StartScanner, OpenSession, ListDone, NoButton, PressA,
                PressB, Answer, Stop, Close, stats, failures
  <2> QED
    BY <2>1, FateStep
<1> QED
  BY <1>1, <1>2, <1>3, <1>4, <1>5, <1>6, <1>7, <1>8, <1>9 DEF Next, LiveScan

-------------------------------------------------------------------------------
(* The numbers. *)

Rows == {n \in Heard : fate[n] \in {"row", "erased"}}

Counted ==
  /\ rowsWritten = Cardinality(Rows)
  /\ rowsWritten = total["wifi"] + total["ble"] + rotateFails

LEMMA RowsFacts ==
  ASSUME TypeOK
  PROVE  /\ IsFiniteSet(Rows) /\ Cardinality(Rows) \in Nat
         /\ \A n \in Heard \ Rows : Cardinality(Rows \cup {n}) = Cardinality(Rows) + 1
<1>1. Len(log) \in Nat /\ Heard = 1..Len(log)
  BY HeardFacts
<1>2. IsFiniteSet(1..Len(log))
  BY <1>1, FS_Interval
<1>3. IsFiniteSet(Rows)
  BY <1>1, <1>2, FS_Subset DEF Rows
<1> QED
  BY <1>3, FS_AddElement, FS_CardinalityType

\* A step that writes and counts no row.
LEMMA NoRowStep ==
  ASSUME Counted, Rows' = Rows, UNCHANGED <<rowsWritten, total, rotateFails>>
  PROVE  Counted'
BY DEF Counted

LEMMA NextCounters ==
  ASSUME TypeOK, Placed, InOrder, Control, Counted, [Next]_vars
  PROVE  Counted'
<1> DEFINE h == Head(work)
<1>0. /\ "noFix" \in Fates \ {"waiting"} /\ "duplicate" \in Fates \ {"waiting"}
      /\ \A e \in {"row", "erased"} : e \in Fates \ {"waiting"}
  BY DEF Fates
<1>n. /\ total["wifi"] \in Nat /\ total["ble"] \in Nat /\ rowsWritten \in Nat
      /\ rotateFails \in Nat /\ Cardinality(Rows) \in Nat
  BY RowsFacts DEF TypeOK, Sides
<1>1. ASSUME NEW s \in Sides, NEW mac \in Macs, Hear(s, mac) \/ HearFull(s, mac)
      PROVE  Counted'
  <2> DEFINE k == Len(log) + 1
  <2>0. Hears(s, mac) /\ \E d : Offers(s, k, d)
    BY <1>1, OfferFacts
  <2>1. UNCHANGED <<rowsWritten, total, rotateFails>>
    BY <2>0 DEF Hears, stats, failures
  <2>2. Heard' = Heard \cup {k} /\ k \notin Heard
    BY <2>0, HearsFacts
  <2> HIDE DEF k
  <2>3. PICK d : Offers(s, k, d)
    BY <2>0
  <2>4. \A n \in ToSet(queue[s]) : fate[n] = "waiting"
    BY DEF Placed
  <2>5. \A n \in Heard' :
          fate'[n] \in {"row", "erased"} <=> n \in Heard /\ fate[n] \in {"row", "erased"}
    BY <2>2, <2>3, <2>4 DEF Offers
  <2>6. Rows' = Rows
    BY <2>2, <2>5 DEF Rows
  <2> QED
    BY <2>1, <2>6, NoRowStep
<1>2. CASE Drain
  <2>1. UNCHANGED <<log, rowsWritten, total, rotateFails>>
    BY <1>2 DEF Drain, stats, failures
  <2>2. \A n \in Heard :
          fate'[n] = fate[n] \/ (n \in ToSet(queue[side]) /\ fate'[n] = "discarded")
    BY <1>2, FatedFacts DEF Drain, Fates
  <2>3. \A n \in ToSet(queue[side]) : fate[n] = "waiting"
    BY DEF Placed, TypeOK
  <2>4. Rows' = Rows
    BY <2>1, <2>2, <2>3 DEF Rows, Heard
  <2> QED
    BY <2>1, <2>4, NoRowStep
<1>3. CASE GateNoFix \/ GateDuplicate
  <2>1. UNCHANGED <<log, rowsWritten, total, rotateFails>>
    BY <1>3 DEF GateNoFix, GateDuplicate, stats, failures
  <2>2. /\ h \in Heard /\ fate[h] = "waiting"
        /\ \/ \A n \in Heard : fate'[n] = IF n = h THEN "noFix" ELSE fate[n]
           \/ \A n \in Heard : fate'[n] = IF n = h THEN "duplicate" ELSE fate[n]
    BY <1>0, <1>3, NextOneFates DEF GateNoFix, GateDuplicate
  <2>3. Rows' = Rows
    BY <2>1, <2>2 DEF Rows, Heard
  <2> QED
    BY <2>1, <2>3, NoRowStep
<1>4. CASE WriteRow
  <2>1. /\ UNCHANGED <<log, rotateFails>> /\ rowsWritten' = rowsWritten + 1
        /\ total' = [total EXCEPT ![side] = @ + 1]
    BY <1>4 DEF WriteRow, failures
  <2>2. PICK e \in {"row", "erased"} : Next1(e)
    BY <1>4 DEF WriteRow, RowEnds
  <2>3. /\ h \in Heard /\ fate[h] = "waiting"
        /\ \A n \in Heard : fate'[n] = IF n = h THEN e ELSE fate[n]
    BY <1>0, <2>2, NextOneFates
  <2>4. Rows' = Rows \cup {h} /\ h \in Heard \ Rows
    BY <2>1, <2>3 DEF Rows, Heard
  <2>5. Cardinality(Rows') = Cardinality(Rows) + 1
    BY <2>4, RowsFacts
  <2>6. total'["wifi"] + total'["ble"] = total["wifi"] + total["ble"] + 1
    BY <2>1 DEF TypeOK, Sides
  <2>7. total'["wifi"] \in Nat /\ total'["ble"] \in Nat
    BY <2>1 DEF TypeOK, Sides
  <2>8. rowsWritten' = Cardinality(Rows)'
    BY <2>1, <2>5 DEF Counted
  <2>9. rowsWritten' = total'["wifi"] + total'["ble"] + rotateFails'
    <3>1. rowsWritten = total["wifi"] + total["ble"] + rotateFails
      BY DEF Counted
    <3> QED
      BY <1>n, <2>1, <2>6, <2>7, <3>1
  <2> QED
    BY <2>8, <2>9 DEF Counted
<1>5. CASE WriteRaises
  <2>0. RowRaises("raised")
    BY <1>5 DEF WriteRaises
  <2>1. UNCHANGED <<log, rowsWritten, total, rotateFails>>
    BY <1>5, <2>0, RaisedFates DEF WriteRaises
  <2>2. /\ h \in Heard /\ h \in ToSet(work)
        /\ \A n \in ToSet(work) : fate[n] = "waiting"
        /\ \A n \in Heard : fate'[n] = IF n = h THEN "raised"
                                       ELSE IF n \in ToSet(work) THEN "lost" ELSE fate[n]
    BY <2>0, RaisedFates
  <2>4. Rows' = Rows
    BY <2>1, <2>2 DEF Rows, Heard
  <2> QED
    BY <2>1, <2>4, NoRowStep
<1>6. CASE RotateRaises
  <2>0. PICK e \in {"row", "erased"} : RowRaises(e)
    BY <1>6, RotateFacts
  <2>1. /\ UNCHANGED <<log, total>> /\ rowsWritten' = rowsWritten + 1
        /\ rotateFails' = rotateFails + 1
    BY <1>6, <2>0, RaisedFates DEF RotateRaises
  <2>2. /\ h \in Heard /\ h \in ToSet(work)
        /\ \A n \in ToSet(work) : fate[n] = "waiting"
        /\ \A n \in Heard : fate'[n] = IF n = h THEN e
                                       ELSE IF n \in ToSet(work) THEN "lost" ELSE fate[n]
    BY <2>0, RaisedFates
  <2>4. Rows' = Rows \cup {h} /\ h \in Heard \ Rows
    BY <2>1, <2>2 DEF Rows, Heard
  <2>5. Cardinality(Rows') = Cardinality(Rows) + 1
    BY <2>4, RowsFacts
  <2>6. rowsWritten' = Cardinality(Rows)'
    BY <2>1, <2>5 DEF Counted
  <2>7. rowsWritten' = total'["wifi"] + total'["ble"] + rotateFails'
    <3>1. rowsWritten = total["wifi"] + total["ble"] + rotateFails
      BY DEF Counted
    <3> QED
      BY <1>n, <2>1, <3>1
  <2> QED
    BY <2>6, <2>7 DEF Counted
<1>7. CASE \/ UNCHANGED vars \/ \E s \in Sides : StartScanner(s)
           \/ OpenSession \/ ListDone \/ NoButton \/ PressA \/ PressB \/ Answer
           \/ Stop \/ Close \/ OpenFails \/ LoopRaises
  <2>1. UNCHANGED <<log, fate, rowsWritten, total, rotateFails>>
    BY <1>7 DEF vars, StartScanner, OpenSession, ListDone, NoButton, PressA,
                PressB, Answer, Stop, Close, OpenFails, LoopRaises, stats, failures
  <2>2. Rows' = Rows
    BY <2>1 DEF Rows, Heard
  <2> QED
    BY <2>1, <2>2, NoRowStep
<1> QED
  BY <1>1, <1>2, <1>3, <1>4, <1>5, <1>6, <1>7 DEF Next, LiveScan

-------------------------------------------------------------------------------
(* The theorems. *)

ScanInv ==
  TypeOK /\ Placed /\ InOrder /\ Control /\ LastDrain /\ FateInv /\ Counted

LEMMA ScanInvariant == Spec => []ScanInv
<1>1. Init => ScanInv
  <2> SUFFICES ASSUME Init
               PROVE  ScanInv
    OBVIOUS
  <2>1. Heard = {} /\ \A s \in Sides : queue[s] = <<>>
    BY DEF Init, Heard
  <2>2. TypeOK
    BY ScanInitTypeOK
  <2>3. Placed /\ InOrder
    BY <2>1, EmptyFacts DEF Init, Placed, InOrder
  <2>4. Control /\ LastDrain
    BY DEF Init, Control, LastDrain, Over
  <2>5. FateInv
    BY <2>1 DEF Init, FateInv, SeenHasRow, DuplicateHasRow, RowHadFix, EndsExplained
  <2>6. Cardinality(Rows) = 0
    <3>1. Rows = {}
      BY <2>1 DEF Rows
    <3> QED
      BY <3>1, FS_EmptySet
  <2>7. Counted
    BY <2>6 DEF Init, Counted, Sides
  <2> QED
    BY <2>2, <2>3, <2>4, <2>5, <2>7 DEF ScanInv
<1>2. ScanInv /\ [Next]_vars => ScanInv'
  BY NextTypeOK, NextPlaced, NextControl, NextLastDrain, NextFate, NextCounters
     DEF ScanInv
<1> QED
  BY <1>1, <1>2, PTL DEF Spec

\* What has become of each sighting is what the file and the numbers say, though
\* rotations fail by open or by the header, once or twice.
THEOREM ScanFatesAgree == Spec => []FatesAgree
<1>1. ScanInv => FatesAgree
  <2> SUFFICES ASSUME ScanInv
               PROVE  FatesAgree
    OBVIOUS
  <2>1. TypeOK /\ DuplicateHasRow /\ RowHadFix
    BY DEF ScanInv, FateInv
  <2>2. CountersAgree
    <3>1. rowsWritten = Cardinality({n \in Heard : fate[n] \in {"row", "erased"}})
      BY DEF ScanInv, Counted, Rows
    <3>2. rowsWritten = total["wifi"] + total["ble"] + rotateFails /\ rotateFails <= 2
      BY DEF ScanInv, Counted, Control
    <3>3. rotateFails = 0 => \A n \in Heard : fate[n] # "erased"
      BY DEF ScanInv, FateInv, EndsExplained
    <3> QED
      BY <3>1, <3>2, <3>3 DEF CountersAgree
  <2> QED
    BY <2>1, <2>2 DEF FatesAgree
<1> QED
  BY <1>1, ScanInvariant, PTL

\* The promise of a scan: saved with nothing failed, every device heard with a
\* fix has a row from then or before, but for what a pause discarded, what a full
\* queue had no room for, and what a thread put there after stop() gave it up.
THEOREM ScanFixedHasRow == Spec => []FixedHasRow
<1>1. ScanInv => FixedHasRow
  <2> SUFFICES ASSUME ScanInv, pc = "saved", failed = {}, NEW n \in Heard, ~log[n].late
               PROVE  \/ fate[n] = "discarded"
                      \/ fate[n] = "dropped" /\ Crowded(log[n].side)
                      \/ fate[n] = "noFix" /\ ~log[n].fix
                      \/ /\ fate[n] \in {"row", "duplicate"}
                         /\ \E m \in 1..n : Device(m) = Device(n) /\ fate[m] = "row"
    BY DEF FixedHasRow
  <2>1. /\ TypeOK /\ Placed /\ last /\ Emptied("wifi") /\ Emptied("ble") /\ work = <<>>
    BY DEF ScanInv, Control, LastDrain, Placed
  <2>2. n \in Nat /\ 1 <= n /\ log[n].side \in {"wifi", "ble"} /\ fate[n] \in Fates
    BY <2>1, HeardFacts DEF Rec, Sides, TypeOK
  <2>3. fate[n] # "waiting"
    <3>1. n \notin ToSet(queue[log[n].side]) \cup ToSet(work)
      BY <2>1, <2>2, EmptyFacts DEF Emptied
    <3> QED
      BY <2>1, <3>1 DEF Placed
  <2>4. /\ fate[n] \notin {"raised", "lost", "erased"}
        /\ fate[n] = "noFix" => ~log[n].fix
        /\ fate[n] = "dropped" => Crowded(log[n].side)
    BY DEF ScanInv, FateInv, EndsExplained
  <2>5. fate[n] \in {"row", "duplicate", "noFix", "discarded", "dropped"}
    BY <2>2, <2>3, <2>4 DEF Fates
  <2>6. CASE fate[n] = "row"
    <3>1. n \in 1..n
      BY <2>2
    <3> QED
      BY <2>6, <3>1
  <2>7. CASE fate[n] = "duplicate"
    <3>1. PICK m \in 1..n - 1 : Device(m) = Device(n) /\ fate[m] = "row"
      BY <2>7 DEF ScanInv, FateInv, DuplicateHasRow
    <3>2. m \in 1..n
      BY <2>2
    <3> QED
      BY <2>7, <3>1, <3>2
  <2> QED
    BY <2>4, <2>5, <2>6, <2>7
<1> QED
  BY <1>1, ScanInvariant, PTL

===============================================================================
