----------------------------- MODULE LiveScanProofs -----------------------------
(***************************************************************************)
(* Theorems about LiveScan, for any devices, signal strengths, size of the *)
(* queue and number of observations: types, that what is written of a      *)
(* device is the strongest of its window, that a scanner whose thread was  *)
(* seen to end leaves nothing behind, that batches are written in order    *)
(* and that every window closed is accounted for.                          *)
(***************************************************************************)
EXTENDS LiveScan, SequenceTheorems, FiniteSetTheorems, TLAPS

-------------------------------------------------------------------------------
(* Sequences and their elements. *)

LEMMA AppendElems ==
  ASSUME NEW S, NEW s \in Seq(S), NEW e \in S
  PROVE  Append(s, e) \in Seq(S) /\ ToSet(Append(s, e)) = ToSet(s) \cup {e}
<1>1. /\ DOMAIN s = 1..Len(s) /\ DOMAIN Append(s, e) = 1..Len(s) + 1 /\ Len(s) \in Nat
      /\ \A i \in 1..Len(s) : Append(s, e)[i] = s[i]
      /\ Append(s, e)[Len(s) + 1] = e
  OBVIOUS
<1> QED
  BY <1>1 DEF ToSet

LEMMA TailElems ==
  ASSUME NEW S, NEW s \in Seq(S), s # <<>>
  PROVE  /\ Head(s) \in ToSet(s) /\ Head(s) \in S
         /\ Tail(s) \in Seq(S) /\ ToSet(Tail(s)) \subseteq ToSet(s)
         /\ Len(Tail(s)) = Len(s) - 1
<1>1. /\ DOMAIN s = 1..Len(s) /\ DOMAIN Tail(s) = 1..Len(s) - 1 /\ Len(s) \in Nat \ {0}
      /\ \A i \in 1..Len(s) - 1 : Tail(s)[i] = s[i + 1]
      /\ Head(s) = s[1]
  OBVIOUS
<1>2. \A i \in 1..Len(s) - 1 : i + 1 \in 1..Len(s)
  BY <1>1
<1> QED
  BY <1>1, <1>2 DEF ToSet

LEMMA ConcatElems ==
  ASSUME NEW S, NEW s \in Seq(S), NEW t \in Seq(S)
  PROVE  s \o t \in Seq(S) /\ ToSet(s \o t) \subseteq ToSet(s) \cup ToSet(t)
<1>1. /\ DOMAIN s = 1..Len(s) /\ DOMAIN t = 1..Len(t)
      /\ Len(s) \in Nat /\ Len(t) \in Nat /\ DOMAIN (s \o t) = 1..Len(s) + Len(t)
  OBVIOUS
<1>2. ASSUME NEW i \in 1..Len(s) + Len(t)
      PROVE  (s \o t)[i] \in ToSet(s) \cup ToSet(t)
  <2>1. CASE i \in 1..Len(s)
    <3>1. (s \o t)[i] = s[i]
      BY <1>1, <2>1
    <3> QED
      BY <1>1, <2>1, <3>1 DEF ToSet
  <2>2. CASE i \notin 1..Len(s)
    <3>1. i - Len(s) \in 1..Len(t) /\ (s \o t)[i] = t[i - Len(s)]
      BY <1>1, <2>2
    <3> QED
      BY <1>1, <3>1 DEF ToSet
  <2> QED
    BY <2>1, <2>2
<1> QED
  BY <1>1, <1>2 DEF ToSet

LEMMA NoElems == ToSet(<<>>) = {}
BY DEF ToSet

-------------------------------------------------------------------------------
(* Types. *)

Rec == [mac : Macs, rssi : Rssis, window : Nat]

LEMMA HeardFacts ==
  ASSUME TypeOK
  PROVE  /\ Len(log) \in Nat /\ Heard = 1..Len(log) /\ log \in Seq(Rec)
         /\ \A n \in Heard : log[n] \in Rec
<1>1. log \in Seq(Rec)
  BY DEF TypeOK, ScanTypeOK, Rec
<1>2. Len(log) \in Nat /\ Heard = 1..Len(log)
  BY <1>1 DEF Heard
<1> QED
  BY <1>1, <1>2, ElementOfSeq

\* What hearing does to the log.
LEMMA HearFacts ==
  ASSUME TypeOK, NEW mac \in Macs, NEW rssi \in Rssis, HearOf(mac, rssi)
  PROVE  LET n == Len(log) + 1
         IN /\ Heard' = Heard \cup {n} /\ n \notin Heard /\ log' \in Seq(Rec)
            /\ log'[n] = [mac |-> mac, rssi |-> rssi, window |-> emitted]
            /\ \A m \in Heard : log'[m] = log[m]
            /\ Batches \subseteq Batches' /\ n \in Nat
<1> DEFINE r == [mac |-> mac, rssi |-> rssi, window |-> emitted]
<1>1. r \in Rec /\ log' = Append(log, r)
  BY DEF HearOf, Rec, TypeOK, ScanTypeOK
<1>2. Len(log) \in Nat /\ Heard = 1..Len(log) /\ log \in Seq(Rec)
  BY HeardFacts
<1> HIDE DEF r
<1>3. /\ DOMAIN log' = 1..Len(log) + 1 /\ log' \in Seq(Rec)
      /\ \A m \in 1..Len(log) : log'[m] = log[m]
      /\ log'[Len(log) + 1] = r
  BY <1>1, <1>2
<1>4. Heard' = Heard \cup {Len(log) + 1} /\ Len(log) + 1 \notin Heard
  BY <1>2, <1>3 DEF Heard
<1> QED
  BY <1>2, <1>3, <1>4 DEF Batches, r

\* Types with the log in another state.
LEMMA HearTypeOK ==
  ASSUME TypeOK, NEW mac \in Macs, NEW rssi \in Rssis, Hear(mac, rssi)
  PROVE  TypeOK'
<1> DEFINE n == Len(log) + 1
<1>1. /\ Heard' = Heard \cup {n} /\ log' \in Seq(Rec) /\ Batches \subseteq Batches'
  BY HearFacts DEF Hear
<1>2. \A s \in Seq(Batches) : s \in Seq(Batches')
  BY <1>1, SeqMonotonic
<1>3. window' \in Batches'
  <2>1. window \subseteq Heard
    BY DEF TypeOK, ScanTypeOK, Batches
  <2>2. window' \subseteq window \cup {n}
    BY DEF Hear, HearOf
  <2> QED
    BY <1>1, <2>1, <2>2 DEF Batches
<1>4. UNCHANGED <<backend, stop, child, pc, ending, batch, q, dropped, emitted, lost, gone,
                  main, paused, out, written, discarded, joined>>
  BY DEF Hear, HearOf, thread, loopVars
<1>5. /\ batch' \in Batches' /\ gone' \in Batches' /\ lost' \subseteq Batches'
      /\ discarded' \subseteq Batches'
      /\ q' \in Seq(Batches') /\ out' \in Seq(Batches') /\ written' \in Seq(Batches')
  BY <1>1, <1>2, <1>4 DEF TypeOK, ScanTypeOK
<1> QED
  BY <1>1, <1>3, <1>4, <1>5 DEF TypeOK, ScanTypeOK, Rec

\* The types of a step of the scanner that leaves the log alone.
LEMMA ScanStep ==
  ASSUME TypeOK, UNCHANGED <<backend, log, loopVars>>,
         stop' \in BOOLEAN, ending' \in BOOLEAN, child' \in {"up", "dead", "none"},
         pc' \in {"top", "poll", "read", "put", "get", "again", "ended"},
         window' \in Batches, batch' \in Batches,
         q' \in Seq(Batches), Len(q') <= QueueMax,
         dropped' \in Nat, emitted' \in Nat, lost' \subseteq Batches, gone' \in Batches
  PROVE  TypeOK'
BY DEF TypeOK, ScanTypeOK, Heard, Batches, loopVars

LEMMA CloseFacts ==
  ASSUME TypeOK, NEW b \in BOOLEAN, Close(b)
  PROVE  /\ ending' \in BOOLEAN /\ emitted' \in Nat
         /\ pc' \in {"top", "poll", "read", "put", "get", "again", "ended"}
         /\ window' \in Batches /\ batch' \in Batches
BY DEF Close, After, TypeOK, ScanTypeOK, Batches

LEMMA ScannerTypeOK ==
  ASSUME TypeOK, Scan, UNCHANGED loopVars
  PROVE  TypeOK'
<1> USE QueueAssumption
<1>0. /\ {} \in Batches /\ window \in Batches /\ batch \in Batches /\ gone \in Batches
      /\ lost \subseteq Batches /\ q \in Seq(Batches) /\ Len(q) <= QueueMax
      /\ dropped \in Nat /\ emitted \in Nat /\ stop \in BOOLEAN /\ ending \in BOOLEAN
      /\ child \in {"up", "dead", "none"}
      /\ \A b \in Batches : gone \cup b \in Batches
  BY DEF TypeOK, ScanTypeOK, Batches
<1>1. CASE Top \/ Poll
  <2>1. \/ Close(TRUE)
        \/ pc' \in {"poll", "read"} /\ UNCHANGED <<window, batch, ending, emitted>>
    BY <1>1 DEF Top, Poll
  <2>2. UNCHANGED <<backend, stop, child, q, dropped, log, lost, gone>>
    BY <1>1 DEF Top, Poll, Unchanged
  <2> QED
    BY <1>0, <2>1, <2>2, CloseFacts, ScanStep
<1>2. CASE PollRaises \/ StreamCorrupt \/ SweepFails
  <2>1. GiveUp("ended") \/ GiveUp("top")
    BY <1>2 DEF PollRaises, StreamCorrupt, SweepFails
  <2> QED
    BY <1>0, <2>1, ScanStep DEF GiveUp
<1>3. CASE Emit \/ SourceEnds
  <2>1. Close(TRUE) \/ Close(FALSE)
    BY <1>3 DEF Emit, SourceEnds
  <2>2. UNCHANGED <<backend, stop, child, q, dropped, log, lost, gone>>
    BY <1>3 DEF Emit, SourceEnds, Unchanged
  <2> QED
    BY <1>0, <2>1, <2>2, CloseFacts, ScanStep
<1>4. CASE KeepOpen
  BY <1>0, <1>4, ScanStep DEF KeepOpen, Unchanged
<1>5. CASE ChildDies
  BY <1>0, <1>5, ScanStep DEF ChildDies, history, TypeOK, ScanTypeOK
<1>6. ASSUME PutDone, Room
      PROVE  /\ q' \in Seq(Batches) /\ Len(q') <= QueueMax /\ batch' \in Batches
             /\ pc' \in {"top", "poll", "read", "put", "get", "again", "ended"}
  BY <1>0, <1>6 DEF PutDone, Room, After
<1>7. CASE Put
  <2>1. UNCHANGED <<backend, stop, child, ending, window, dropped, log, emitted, lost, gone>>
    BY <1>7 DEF Put, history
  <2>2. (PutDone /\ Room) \/ (pc' = "get" /\ UNCHANGED <<q, batch>>)
    BY <1>7 DEF Put
  <2> QED
    BY <1>0, <1>6, <2>1, <2>2, ScanStep
<1>8. CASE GetOldest
  <2>1. Head(q) \in Batches /\ Tail(q) \in Seq(Batches) /\ Len(Tail(q)) = Len(q) - 1
        /\ Len(q) \in Nat
    BY <1>0, <1>8, TailElems DEF GetOldest
  <2>2. q' = Tail(q) /\ lost' = lost \cup {Head(q)} /\ pc' = "again"
    BY <1>8 DEF GetOldest
  <2>3. Len(q') <= QueueMax /\ lost' \subseteq Batches
    BY <1>0, <2>1, <2>2
  <2> QED
    BY <1>0, <1>8, <2>1, <2>2, <2>3, ScanStep DEF GetOldest
<1>9. CASE GetEmpty
  BY <1>0, <1>9, ScanStep DEF GetEmpty, After
<1>10. CASE PutAgain
  <2>1. UNCHANGED <<backend, stop, child, ending, window, log, emitted, lost, gone>>
    BY <1>10 DEF PutAgain, history
  <2>2. PutDone /\ Room /\ dropped' = dropped + 1
    BY <1>10 DEF PutAgain
  <2> QED
    BY <1>0, <1>6, <2>1, <2>2, ScanStep
<1> QED
  BY <1>1, <1>2, <1>3, <1>4, <1>5, <1>7, <1>8, <1>9, <1>10 DEF Scan

\* The types of a step of the scan loop.
LEMMA LoopStep ==
  ASSUME TypeOK,
         UNCHANGED <<backend, pc, ending, window, batch, dropped, log, emitted, lost, gone>>,
         stop' \in BOOLEAN, child' \in {"up", "dead", "none"},
         q' \in Seq(Batches), Len(q') <= QueueMax,
         main' \in {"drain", "input", "dialog", "stop", "clear", "join", "lastDrain",
                   "closed"},
         paused' \in BOOLEAN, joined' \in BOOLEAN,
         out' \in Seq(Batches), written' \in Seq(Batches), discarded' \subseteq Batches
  PROVE  TypeOK'
BY DEF TypeOK, ScanTypeOK, Heard, Batches

LEMMA NextTypeOK ==
  ASSUME TypeOK, [Next]_vars
  PROVE  TypeOK'
<1>0. /\ q \in Seq(Batches) /\ Len(q) <= QueueMax /\ stop \in BOOLEAN
      /\ child \in {"up", "dead", "none"}
      /\ main \in {"drain", "input", "dialog", "stop", "clear", "join", "lastDrain",
                   "closed"}
      /\ paused \in BOOLEAN /\ joined \in BOOLEAN
      /\ out \in Seq(Batches) /\ written \in Seq(Batches) /\ discarded \subseteq Batches
      /\ <<>> \in Seq(Batches)
  BY DEF TypeOK, ScanTypeOK
<1>1. ASSUME NEW mac \in Macs, NEW rssi \in Rssis, Hear(mac, rssi)
      PROVE  TypeOK'
  BY <1>1, HearTypeOK
<1>2. CASE Scanner
  BY <1>2, ScannerTypeOK DEF Scanner
<1>3. CASE Drain
  <2>1. Head(q) \in Batches /\ Tail(q) \in Seq(Batches) /\ Len(Tail(q)) = Len(q) - 1
        /\ Len(q) \in Nat
    BY <1>0, <1>3, TailElems DEF Drain
  <2>2. q' = Tail(q) /\ out' \in Seq(Batches)
    BY <1>0, <1>3, <2>1 DEF Drain
  <2>3. Len(q') <= QueueMax
    BY <1>0, <2>1, <2>2, QueueAssumption
  <2> QED
    BY <1>0, <1>3, <2>1, <2>2, <2>3, LoopStep DEF Drain, ScannerKeeps
<1>4. CASE Drained
  <2>1. written' \in Seq(Batches) /\ discarded' \subseteq Batches
    <3>1. ToSet(out) \subseteq Batches
      BY <1>0, ElementOfSeq DEF ToSet
    <3> QED
      BY <1>0, <1>4, <3>1, ConcatElems DEF Drained
  <2> QED
    BY <1>0, <1>4, <2>1, LoopStep DEF Drained, scanVars
<1>5. CASE LastDrained
  <2>1. written' \in Seq(Batches)
    BY <1>0, <1>5, ConcatElems DEF LastDrained
  <2> QED
    BY <1>0, <1>5, <2>1, LoopStep DEF LastDrained, scanVars
<1>6. CASE NoInput \/ PressA \/ PressB \/ Answer
  BY <1>0, <1>6, LoopStep DEF NoInput, PressA, PressB, Answer, scanVars
<1>7. CASE SetStop
  BY <1>0, <1>7, LoopStep DEF SetStop, history
<1>8. CASE ClearChild
  <2>1. child' \in {"up", "dead", "none"}
    BY <1>0, <1>8, QueueAssumption DEF ClearChild, TypeOK, ScanTypeOK, AllBackends
  <2> QED
    BY <1>0, <1>8, <2>1, LoopStep DEF ClearChild, history
<1>9. CASE Join
  <2>1. joined' \in BOOLEAN
    BY <1>9 DEF Join
  <2> QED
    BY <1>0, <1>9, <2>1, LoopStep DEF Join, scanVars
<1>10. CASE UNCHANGED vars
  BY <1>0, <1>10, LoopStep DEF vars, scanVars, loopVars
<1> QED
  BY <1>1, <1>2, <1>3, <1>4, <1>5, <1>6, <1>7, <1>8, <1>9, <1>10 DEF Next

-------------------------------------------------------------------------------
(* What is in hand, and where. *)

\* A batch is in hand only while it is put on the queue, with the window empty;
\* a thread that has ended has nothing in hand, and fills the queue no more.
Hands ==
  /\ pc \in {"put", "get", "again", "ended"} => window = {}
  /\ pc \notin {"put", "get", "again"} => batch = {}
  /\ joined => pc = "ended"
  /\ main = "closed" /\ joined => q = <<>>

LEMMA NextHands ==
  ASSUME TypeOK, Hands, [Next]_vars
  PROVE  Hands'
<1>1. ASSUME NEW mac \in Macs, NEW rssi \in Rssis, Hear(mac, rssi)
      PROVE  Hands'
  BY <1>1 DEF Hear, HearOf, Hands, thread, loopVars
<1>2. CASE Scanner
  <2>1. UNCHANGED <<main, joined>>
    BY <1>2 DEF Scanner, loopVars
  <2>2. CASE Top \/ Poll \/ Emit \/ SourceEnds
    <3>1. /\ pc \in {"top", "poll", "read"} /\ q' = q
          /\ \/ Close(TRUE) \/ Close(FALSE)
             \/ pc' \in {"poll", "read"} /\ UNCHANGED batch
      BY <2>2 DEF Top, Poll, Emit, SourceEnds, Unchanged
    <3> QED
      BY <2>1, <3>1 DEF Close, After, Hands
  <2>3. CASE KeepOpen
    BY <2>1, <2>3 DEF KeepOpen, Unchanged, Hands
  <2>4. CASE PollRaises \/ StreamCorrupt \/ SweepFails
    <3>1. /\ pc \in {"poll", "read"} /\ UNCHANGED <<batch, q>> /\ window' = {}
          /\ pc' \in {"ended", "top"}
      BY <2>4 DEF PollRaises, StreamCorrupt, SweepFails, GiveUp
    <3> QED
      BY <2>1, <3>1 DEF Hands
  <2>5. CASE ChildDies
    BY <2>1, <2>5 DEF ChildDies, Hands
  <2>6. CASE Put
    BY <2>1, <2>6 DEF Put, PutDone, After, Hands
  <2>7. CASE GetOldest
    BY <2>1, <2>7 DEF GetOldest, Hands
  <2>8. CASE GetEmpty
    BY <2>1, <2>8 DEF GetEmpty, After, Hands
  <2>9. CASE PutAgain
    BY <2>1, <2>9 DEF PutAgain, PutDone, After, Hands
  <2> QED
    BY <1>2, <2>2, <2>3, <2>4, <2>5, <2>6, <2>7, <2>8, <2>9 DEF Scanner, Scan
<1>3. CASE Drain
  BY <1>3 DEF Drain, ScannerKeeps, Hands
<1>4. CASE Drained \/ NoInput \/ PressA \/ PressB \/ Answer
  BY <1>4 DEF Drained, NoInput, PressA, PressB, Answer, scanVars, Hands
<1>5. CASE SetStop \/ ClearChild
  BY <1>5 DEF SetStop, ClearChild, history, Hands
<1>6. CASE Join
  BY <1>6 DEF Join, scanVars, Hands
<1>7. CASE LastDrained
  BY <1>7 DEF LastDrained, scanVars, Hands
<1>8. CASE UNCHANGED vars
  BY <1>8 DEF vars, scanVars, loopVars, Hands
<1> QED
  BY <1>1, <1>2, <1>3, <1>4, <1>5, <1>6, <1>7, <1>8 DEF Next

-------------------------------------------------------------------------------
(* The strongest of a window. *)

\* The batches that have left their window and are on their way or written.
OnTheWay == ToSet(written) \cup ToSet(out) \cup ToSet(q) \cup {batch}

\* Nothing heard of the same device in the same window is stronger.
Strongest(n) ==
  \A m \in Heard : log[m].mac = log[n].mac /\ log[m].window = log[n].window
                    => log[m].rssi <= log[n].rssi

\* The batches hold the strongest of windows that are closed, the window the
\* strongest of its own, and one of every device heard in it.
BestKept ==
  /\ \A n \in Heard : log[n].window <= emitted
  /\ \A b \in OnTheWay : \A n \in b : log[n].window < emitted /\ Strongest(n)
  /\ \A n \in window : log[n].window = emitted /\ Strongest(n)
  /\ pc # "ended" =>
       \A m \in Heard : log[m].window = emitted => \E w \in window : log[w].mac = log[m].mac

\* No step but hearing changes the log, and but closing the window its number.
LEMMA BestStep ==
  ASSUME TypeOK, BestKept, UNCHANGED <<log, emitted>>,
         \A b \in OnTheWay' : b \in OnTheWay \/ b = {},
         window' = window \/ (window' = {} /\ pc' = "ended"),
         pc = "ended" => pc' = "ended"
  PROVE  BestKept'
<1>1. Heard' = Heard /\ \A n : Strongest(n)' = Strongest(n)
  BY DEF Heard, Strongest
<1>2. /\ \A n \in Heard' : log'[n].window <= emitted'
      /\ \A b \in OnTheWay' : \A n \in b : log'[n].window < emitted' /\ Strongest(n)'
      /\ \A n \in window' : log'[n].window = emitted' /\ Strongest(n)'
  BY <1>1 DEF BestKept
<1>3. pc' # "ended" =>
        \A m \in Heard' : log'[m].window = emitted' => \E w \in window' : log'[w].mac = log'[m].mac
  BY <1>1 DEF BestKept
<1> QED
  BY <1>2, <1>3 DEF BestKept

LEMMA BestClose ==
  ASSUME TypeOK, Hands, BestKept, NEW b \in BOOLEAN, Close(b), UNCHANGED <<log, q, loopVars>>,
         pc \in {"top", "poll", "read"}
  PROVE  BestKept'
<1>0. /\ Heard' = Heard /\ emitted \in Nat
      /\ \A n : Strongest(n)' = Strongest(n)
      /\ \A n \in Heard : log[n].window \in Nat /\ window \subseteq Heard
      /\ UNCHANGED <<out, written>>
  BY HeardFacts DEF Heard, Strongest, Rec, TypeOK, ScanTypeOK, Batches, loopVars
<1>1. CASE window = {}
  <2>1. UNCHANGED <<window, batch, emitted>>
    BY <1>1 DEF Close
  <2>2. OnTheWay' = OnTheWay
    BY <1>0, <2>1 DEF OnTheWay
  <2> QED
    BY <2>1, <2>2, BestStep
<1>2. CASE window # {}
  <2>1. batch' = window /\ window' = {} /\ emitted' = emitted + 1
    BY <1>2 DEF Close
  <2>2. \A c \in OnTheWay' : c \in OnTheWay \/ c = window
    BY <1>0, <2>1 DEF OnTheWay
  <2>3. \A n \in Heard' : log'[n].window <= emitted' /\ log'[n].window # emitted'
    BY <1>0, <2>1 DEF BestKept
  <2>4. \A c \in OnTheWay' : \A n \in c : log'[n].window < emitted' /\ Strongest(n)'
    <3> SUFFICES ASSUME NEW c \in OnTheWay', NEW n \in c
                 PROVE  log'[n].window < emitted' /\ Strongest(n)'
      OBVIOUS
    <3>1. CASE c = window
      <4>1. log[n].window = emitted /\ Strongest(n)
        BY <3>1 DEF BestKept
      <4> QED
        BY <1>0, <2>1, <4>1
    <3>2. CASE c \in OnTheWay
      <4>1. log[n].window < emitted /\ Strongest(n) /\ n \in Heard
        <5>1. c \subseteq Heard
          <6>1. /\ written \in Seq(Batches) /\ out \in Seq(Batches) /\ q \in Seq(Batches)
                /\ batch \in Batches
            BY DEF TypeOK, ScanTypeOK
          <6> QED
            BY <3>2, <6>1, ElementOfSeq DEF OnTheWay, ToSet, Batches
        <5> QED
          BY <3>2, <5>1 DEF BestKept
      <4> QED
        BY <1>0, <2>1, <4>1
    <3> QED
      BY <2>2, <3>1, <3>2
  <2> QED
    BY <2>1, <2>3, <2>4 DEF BestKept
<1> QED
  BY <1>1, <1>2

\* The batches hold only what was heard.
LEMMA BatchesHeard ==
  ASSUME TypeOK
  PROVE  window \subseteq Heard /\ \A b \in OnTheWay : b \subseteq Heard
<1>1. /\ written \in Seq(Batches) /\ out \in Seq(Batches) /\ q \in Seq(Batches)
      /\ batch \in Batches /\ window \in Batches
  BY DEF TypeOK, ScanTypeOK
<1> QED
  BY <1>1, ElementOfSeq DEF OnTheWay, ToSet, Batches

LEMMA BestHear ==
  ASSUME TypeOK, BestKept, NEW mac \in Macs, NEW rssi \in Rssis, Hear(mac, rssi)
  PROVE  BestKept'
<1>k. PICK k \in Nat : k = Len(log) + 1
  BY HeardFacts
<1>0. /\ Heard' = Heard \cup {k} /\ k \notin Heard
      /\ log'[k] = [mac |-> mac, rssi |-> rssi, window |-> emitted]
      /\ \A m \in Heard : log'[m] = log[m]
  BY <1>k, HearFacts DEF Hear
<1>1. /\ Heard' = Heard \cup {k} /\ k \notin Heard
      /\ log'[k].mac = mac /\ log'[k].rssi = rssi /\ log'[k].window = emitted
      /\ \A m \in Heard : log'[m] = log[m]
  BY <1>0
<1>2. /\ emitted \in Nat /\ Rssis \subseteq Int
      /\ \A m \in Heard : log[m].rssi \in Rssis /\ log[m].window \in Nat
      /\ rssi \in Int
  BY HeardFacts, QueueAssumption DEF TypeOK, ScanTypeOK, Rec
<1>3. /\ pc = "read" /\ UNCHANGED <<pc, emitted>> /\ OnTheWay' = OnTheWay
      /\ window' = IF \A p \in Pending(mac) : Stronger(p, rssi)
                   THEN (window \ Pending(mac)) \cup {k} ELSE window
  BY <1>k DEF Hear, HearOf, thread, loopVars, OnTheWay
<1>4. window \subseteq Heard /\ \A b \in OnTheWay : b \subseteq Heard
  BY BatchesHeard
<1>5. \A n \in Heard' : log'[n].window <= emitted'
  BY <1>1, <1>2, <1>3 DEF BestKept
<1>6. \A b \in OnTheWay' : \A n \in b : log'[n].window < emitted' /\ Strongest(n)'
  <2> SUFFICES ASSUME NEW b \in OnTheWay', NEW n \in b
               PROVE  log'[n].window < emitted' /\ Strongest(n)'
    OBVIOUS
  <2>1. n \in Heard /\ log[n].window < emitted /\ Strongest(n) /\ log'[n] = log[n]
    BY <1>1, <1>3, <1>4 DEF BestKept
  <2>2. log'[k].window # log'[n].window
    BY <1>1, <1>2, <2>1
  <2>3. Strongest(n)'
    BY <1>1, <2>1, <2>2 DEF Strongest
  <2> QED
    BY <1>3, <2>1, <2>3
<1>7. \A n \in window :
        n \in Heard /\ log[n].window = emitted /\ Strongest(n) /\ log'[n] = log[n]
  BY <1>1, <1>4 DEF BestKept
<1>8. /\ \A n \in window' : log'[n].window = emitted' /\ Strongest(n)'
      /\ \A m \in Heard' : log'[m].window = emitted' =>
                              \E w \in window' : log'[w].mac = log'[m].mac
  <2>1. CASE \A p \in Pending(mac) : Stronger(p, rssi)
    <3>1. window' = (window \ Pending(mac)) \cup {k}
      BY <1>3, <2>1
    <3>2. \A n \in window' : n # k => log'[n].window = emitted' /\ Strongest(n)'
      <4> SUFFICES ASSUME NEW n \in window', n # k
                   PROVE  log'[n].window = emitted' /\ Strongest(n)'
        OBVIOUS
      <4>1. n \in window /\ log[n].mac # mac
        BY <3>1 DEF Pending
      <4> QED
        BY <1>1, <1>3, <1>7, <4>1 DEF Strongest
    <3>3. Strongest(k)'
      <4>1. ASSUME NEW m \in Heard, log[m].mac = mac, log[m].window = emitted
            PROVE  log[m].rssi <= rssi
        <5>1. PICK p \in window : log[p].mac = mac
          BY <1>3, <4>1 DEF BestKept
        <5>2. rssi > log[p].rssi
          BY <2>1, <5>1 DEF Pending, Stronger
        <5>3. log[m].rssi <= log[p].rssi /\ p \in Heard
          BY <1>7, <4>1, <5>1 DEF Strongest
        <5>4. log[m].rssi \in Int /\ log[p].rssi \in Int
          BY <1>2, <4>1, <5>3
        <5> QED
          BY <1>2, <5>2, <5>3, <5>4
      <4>2. \A m \in Heard' : log'[m].mac = mac /\ log'[m].window = emitted => log'[m].rssi <= rssi
        BY <1>1, <1>2, <4>1
      <4> QED
        BY <1>1, <4>2 DEF Strongest
    <3>4. \A m \in Heard' : log'[m].window = emitted' => \E w \in window' : log'[w].mac = log'[m].mac
      <4> SUFFICES ASSUME NEW m \in Heard', log'[m].window = emitted'
                   PROVE  \E w \in window' : log'[w].mac = log'[m].mac
        OBVIOUS
      <4>1. CASE log'[m].mac = mac
        BY <1>1, <3>1, <4>1
      <4>2. CASE log'[m].mac # mac
        <5>1. m \in Heard /\ log[m].mac # mac /\ log[m].window = emitted /\ log'[m] = log[m]
          BY <1>1, <1>3, <4>2
        <5>2. PICK p \in window : log[p].mac = log[m].mac
          BY <1>3, <5>1 DEF BestKept
        <5> QED
          BY <1>7, <3>1, <5>1, <5>2 DEF Pending
      <4> QED
        BY <4>1, <4>2
    <3>5. log'[k].window = emitted'
      BY <1>1, <1>3
    <3> QED
      BY <3>2, <3>3, <3>4, <3>5
  <2>2. CASE ~(\A p \in Pending(mac) : Stronger(p, rssi))
    <3>1. window' = window
      BY <1>3, <2>2
    <3>2. PICK p \in Pending(mac) : ~(rssi > log[p].rssi)
      BY <2>2 DEF Stronger
    <3>3. p \in window /\ log[p].mac = mac /\ p \in Heard /\ log[p].window = emitted
      BY <1>7, <3>2 DEF Pending
    <3>4. \A n \in window : log'[n].window = emitted' /\ Strongest(n)'
      <4> SUFFICES ASSUME NEW n \in window
                   PROVE  log'[n].window = emitted' /\ Strongest(n)'
        OBVIOUS
      <4>1. ASSUME log[n].mac = mac
            PROVE  rssi <= log[n].rssi
        <5>1. log[p].rssi <= log[n].rssi
          BY <1>7, <3>3, <4>1 DEF Strongest
        <5>2. n \in Heard
          BY <1>7
        <5>3. log[n].rssi \in Int /\ log[p].rssi \in Int
          BY <1>2, <3>3, <5>2
        <5> QED
          BY <1>2, <3>2, <5>1, <5>3
      <4> QED
        BY <1>1, <1>3, <1>7, <4>1 DEF Strongest
    <3>5. \A m \in Heard' : log'[m].window = emitted' => \E w \in window' : log'[w].mac = log'[m].mac
      <4> SUFFICES ASSUME NEW m \in Heard', log'[m].window = emitted'
                   PROVE  \E w \in window' : log'[w].mac = log'[m].mac
        OBVIOUS
      <4>1. PICK w \in window : log[w].mac = log'[m].mac
        <5>1. CASE m = k
          BY <1>1, <3>3, <5>1
        <5>2. CASE m \in Heard
          <6>1. log[m].window = emitted /\ log'[m] = log[m]
            BY <1>1, <1>3, <5>2
          <6> QED
            BY <1>3, <5>2, <6>1 DEF BestKept
        <5> QED
          BY <1>1, <5>1, <5>2
      <4> QED
        BY <1>7, <3>1, <4>1
    <3> QED
      BY <3>1, <3>4, <3>5
  <2> QED
    BY <2>1, <2>2
<1> QED
  BY <1>5, <1>6, <1>8 DEF BestKept

LEMMA NextBest ==
  ASSUME TypeOK, Hands, backend # "iw", BestKept, [Next]_vars
  PROVE  BestKept'
<1>0. /\ written \in Seq(Batches) /\ out \in Seq(Batches) /\ q \in Seq(Batches)
      /\ batch \in Batches
  BY DEF TypeOK, ScanTypeOK
<1>1. ASSUME NEW mac \in Macs, NEW rssi \in Rssis, Hear(mac, rssi)
      PROVE  BestKept'
  BY <1>1, BestHear
<1>2. CASE Scanner
  <2>0. UNCHANGED <<written, out>> /\ UNCHANGED loopVars
    BY <1>2 DEF Scanner, loopVars
  <2>1. CASE Top \/ Poll \/ Emit \/ SourceEnds
    <3>1. /\ pc \in {"top", "poll", "read"} /\ UNCHANGED <<q, log>>
          /\ \/ Close(TRUE) \/ Close(FALSE)
             \/ pc' \in {"poll", "read"} /\ UNCHANGED <<window, batch, emitted>>
      BY <2>1 DEF Top, Poll, Emit, SourceEnds, Unchanged
    <3>2. CASE Close(TRUE) \/ Close(FALSE)
      BY <2>0, <3>1, <3>2, BestClose
    <3>3. CASE pc' \in {"poll", "read"} /\ UNCHANGED <<window, batch, emitted>>
      <4>1. OnTheWay' = OnTheWay
        BY <2>0, <3>1, <3>3 DEF OnTheWay
      <4> QED
        BY <3>1, <3>3, <4>1, BestStep
    <3> QED
      BY <3>1, <3>2, <3>3
  <2>2. CASE KeepOpen \/ ChildDies
    <3>1. UNCHANGED <<log, emitted, window, batch, q>> /\ (pc = "ended" => pc' = "ended")
      BY <2>2 DEF KeepOpen, ChildDies, Unchanged, history
    <3>2. OnTheWay' = OnTheWay
      BY <2>0, <3>1 DEF OnTheWay
    <3> QED
      BY <3>1, <3>2, BestStep
  <2>3. CASE PollRaises \/ StreamCorrupt
    <3>1. UNCHANGED <<log, emitted, batch, q>> /\ window' = {} /\ pc' = "ended"
      BY <2>3 DEF PollRaises, StreamCorrupt, GiveUp
    <3>2. OnTheWay' = OnTheWay
      BY <2>0, <3>1 DEF OnTheWay
    <3> QED
      BY <3>1, <3>2, BestStep
  <2>4. CASE SweepFails
    BY <2>4 DEF SweepFails
  <2>5. CASE Put \/ PutAgain
    <3>1. UNCHANGED <<log, emitted, window>> /\ pc # "ended"
      BY <2>5 DEF Put, PutAgain, history
    <3>2. (q' = Append(q, batch) /\ batch' = {}) \/ UNCHANGED <<q, batch>>
      BY <2>5 DEF Put, PutAgain, PutDone
    <3>3. \A b \in OnTheWay' : b \in OnTheWay \/ b = {}
      <4>1. CASE q' = Append(q, batch) /\ batch' = {}
        <5>1. ToSet(q') = ToSet(q) \cup {batch}
          BY <1>0, <4>1, AppendElems
        <5> QED
          BY <2>0, <4>1, <5>1 DEF OnTheWay
      <4>2. CASE UNCHANGED <<q, batch>>
        BY <2>0, <4>2 DEF OnTheWay
      <4> QED
        BY <3>2, <4>1, <4>2
    <3> QED
      BY <3>1, <3>3, BestStep
  <2>6. CASE GetOldest
    <3>1. UNCHANGED <<log, emitted, window, batch>> /\ pc # "ended" /\ q # <<>> /\ q' = Tail(q)
      BY <2>6 DEF GetOldest
    <3>2. \A b \in OnTheWay' : b \in OnTheWay
      BY <1>0, <2>0, <3>1, TailElems DEF OnTheWay
    <3> QED
      BY <3>1, <3>2, BestStep
  <2>7. CASE GetEmpty
    <3>1. UNCHANGED <<log, emitted, window, q>> /\ pc # "ended" /\ batch' = {}
      BY <2>7 DEF GetEmpty
    <3>2. \A b \in OnTheWay' : b \in OnTheWay \/ b = {}
      BY <2>0, <3>1 DEF OnTheWay
    <3> QED
      BY <3>1, <3>2, BestStep
  <2> QED
    BY <1>2, <2>1, <2>2, <2>3, <2>4, <2>5, <2>6, <2>7 DEF Scanner, Scan
<1>3. CASE Drain
  <2>1. /\ UNCHANGED <<log, emitted, window, batch, pc, written>>
        /\ q # <<>> /\ q' = Tail(q) /\ out' = Append(out, Head(q))
    BY <1>3 DEF Drain, ScannerKeeps
  <2>2. Head(q) \in Batches /\ Head(q) \in ToSet(q) /\ ToSet(Tail(q)) \subseteq ToSet(q)
    BY <1>0, <2>1, TailElems
  <2>3. ToSet(out') = ToSet(out) \cup {Head(q)}
    BY <1>0, <2>1, <2>2, AppendElems
  <2>4. \A b \in OnTheWay' : b \in OnTheWay
    BY <2>1, <2>2, <2>3 DEF OnTheWay
  <2> QED
    BY <2>1, <2>4, BestStep
<1>4. CASE Drained \/ LastDrained
  <2>1. /\ UNCHANGED <<log, emitted, window, batch, pc, q>> /\ out' = <<>>
        /\ written' = written \/ written' = written \o out
    BY <1>4 DEF Drained, LastDrained, scanVars
  <2>2. ToSet(written') \subseteq ToSet(written) \cup ToSet(out)
    BY <1>0, <2>1, ConcatElems
  <2>3. \A b \in OnTheWay' : b \in OnTheWay
    BY <2>1, <2>2, NoElems DEF OnTheWay
  <2> QED
    BY <2>1, <2>3, BestStep
<1>5. CASE NoInput \/ PressA \/ PressB \/ Answer \/ SetStop \/ ClearChild \/ Join
           \/ UNCHANGED vars
  <2>1. UNCHANGED <<log, emitted, window, batch, pc, q, out, written>>
    BY <1>5 DEF NoInput, PressA, PressB, Answer, SetStop, ClearChild, Join, scanVars,
                history, vars, loopVars
  <2>2. OnTheWay' = OnTheWay
    BY <2>1 DEF OnTheWay
  <2> QED
    BY <2>1, <2>2, BestStep
<1> QED
  BY <1>1, <1>2, <1>3, <1>4, <1>5 DEF Next

LEMMA BackendStays ==
  ASSUME [Next]_vars
  PROVE  backend' = backend
<1>1. CASE \E mac \in Macs, rssi \in Rssis : Hear(mac, rssi)
  BY <1>1 DEF Hear, HearOf
<1>2. CASE Scanner
  BY <1>2 DEF Scanner, Scan, Top, Poll, PollRaises, Emit, KeepOpen, SourceEnds,
              StreamCorrupt, SweepFails, ChildDies, Put, GetOldest, GetEmpty, PutAgain,
              GiveUp, Unchanged
<1>3. CASE \/ Drain \/ Drained \/ NoInput \/ PressA \/ PressB \/ Answer \/ SetStop
           \/ ClearChild \/ Join \/ LastDrained \/ UNCHANGED vars
  BY <1>3 DEF Drain, Drained, NoInput, PressA, PressB, Answer, SetStop, ClearChild, Join,
              LastDrained, vars, scanVars, ScannerKeeps
<1> QED
  BY <1>1, <1>2, <1>3 DEF Next

-------------------------------------------------------------------------------
(* The theorems. *)

LiveInv == TypeOK /\ Hands /\ (backend # "iw" => BestKept)

LEMMA LiveInvariant == Spec => []LiveInv
<1>1. Init => LiveInv
  <2> SUFFICES ASSUME Init
               PROVE  LiveInv
    OBVIOUS
  <2>1. Heard = {} /\ {} \in Batches /\ OnTheWay = {{}}
    BY NoElems DEF Init, ScanInit, Heard, Batches, OnTheWay
  <2>2. TypeOK
    <3>1. log \in Seq([mac : Macs, rssi : Rssis, window : Nat]) /\ Len(q) <= QueueMax
      BY QueueAssumption DEF Init, ScanInit
    <3>2. q \in Seq(Batches) /\ out \in Seq(Batches) /\ written \in Seq(Batches)
      BY DEF Init, ScanInit
    <3> QED
      BY <2>1, <3>1, <3>2 DEF Init, ScanInit, TypeOK, ScanTypeOK
  <2>3. Hands
    BY DEF Init, ScanInit, Hands
  <2>4. BestKept
    BY <2>1 DEF Init, ScanInit, BestKept
  <2> QED
    BY <2>2, <2>3, <2>4 DEF LiveInv
<1>2. LiveInv /\ [Next]_vars => LiveInv'
  BY NextTypeOK, NextHands, NextBest, BackendStays DEF LiveInv
<1> QED
  BY <1>1, <1>2, PTL DEF Spec

\* Types, and that the queue never holds more than maxsize (_flush(), _ingest()).
THEOREM LiveTypeOK == Spec => []TypeOK
<1>1. LiveInv => TypeOK
  BY DEF LiveInv
<1> QED
  BY <1>1, LiveInvariant, PTL

\* A scanner whose thread stop() has seen end leaves nothing behind the last
\* drain (App._live_scan, stop(), drain()).
THEOREM LiveNothingLeftBehind == Spec => []NothingLeftBehind
<1>1. LiveInv => NothingLeftBehind
  BY DEF LiveInv, Hands, NothingLeftBehind
<1> QED
  BY <1>1, LiveInvariant, PTL

\* What is written of a device is the strongest heard of it in its window
\* (_ingest() of the windowed backends).
THEOREM LiveStrongestWritten == Spec => []StrongestWritten
<1>1. LiveInv => StrongestWritten
  <2> SUFFICES ASSUME LiveInv, backend # "iw", NEW i \in DOMAIN written,
                      NEW n \in written[i], NEW m \in Heard,
                      log[m].mac = log[n].mac, log[m].window = log[n].window
               PROVE  log[m].rssi <= log[n].rssi
    BY DEF StrongestWritten
  <2>1. written[i] \in OnTheWay
    BY DEF OnTheWay, ToSet
  <2>2. Strongest(n)
    BY <2>1 DEF LiveInv, BestKept
  <2> QED
    BY <2>2 DEF Strongest
<1> QED
  BY <1>1, LiveInvariant, PTL

-------------------------------------------------------------------------------
(* The order of the windows, and their number. *)

\* WindowOf(), of any log.
Win(l, b) == l[CHOOSE n \in b : TRUE].window

\* The windows of a sequence of batches go up; those of A are before those of B.
Line(l, s) == \A i, j \in DOMAIN s : i < j => Win(l, s[i]) < Win(l, s[j])
Before(l, A, B) == \A a \in A, b \in B : Win(l, a) < Win(l, b)

\* The batch in hand, and the batches there are between thread and file.
Hand == {batch} \ {{}}
OnLine == ToSet(written) \cup ToSet(out) \cup ToSet(q) \cup Hand
Given == lost \cup discarded

\* Every batch is that of a window closed, the window is the one that is open.
Closed ==
  /\ \A b \in OnLine \cup Given : b # {} /\ Win(log, b) \in 0..emitted - 1
  /\ \A n \in window : log[n].window = emitted

\* From file to thread the windows go up.
InLine ==
  /\ Line(log, written) /\ Line(log, out) /\ Line(log, q)
  /\ Before(log, ToSet(written), ToSet(out) \cup ToSet(q) \cup Hand)
  /\ Before(log, ToSet(out), ToSet(q) \cup Hand)
  /\ Before(log, ToSet(q), Hand)

Apart == OnLine \cap Given = {} /\ lost \cap discarded = {}

\* Every window closed is counted where it has come to.  The batch given up for
\* another is counted when that one is on the queue.
Counted ==
  /\ IsFiniteSet(lost) /\ IsFiniteSet(discarded)
  /\ emitted = Len(written) + Len(out) + Len(q) + (IF batch = {} THEN 0 ELSE 1)
                 + Cardinality(lost) + Cardinality(discarded)
  /\ Cardinality(lost) = dropped + (IF pc = "again" THEN 1 ELSE 0)

OrderInv == Closed /\ InLine /\ Apart /\ Counted

\* Lines grow at one end and are used up at the other.
LEMMA LineAppend ==
  ASSUME NEW S, NEW l, NEW s \in Seq(S), NEW e \in S, Line(l, s), Before(l, ToSet(s), {e})
  PROVE  Line(l, Append(s, e))
<1>1. /\ DOMAIN s = 1..Len(s) /\ DOMAIN Append(s, e) = 1..Len(s) + 1 /\ Len(s) \in Nat
      /\ \A i \in 1..Len(s) : Append(s, e)[i] = s[i]
      /\ Append(s, e)[Len(s) + 1] = e
  OBVIOUS
<1> SUFFICES ASSUME NEW i \in 1..Len(s) + 1, NEW j \in 1..Len(s) + 1, i < j
             PROVE  Win(l, Append(s, e)[i]) < Win(l, Append(s, e)[j])
  BY <1>1 DEF Line
<1>2. i \in 1..Len(s) /\ s[i] \in ToSet(s) /\ Append(s, e)[i] = s[i]
  BY <1>1 DEF ToSet
<1>3. CASE j = Len(s) + 1
  BY <1>1, <1>2, <1>3 DEF Before
<1>4. CASE j # Len(s) + 1
  BY <1>1, <1>2, <1>4 DEF Line
<1> QED
  BY <1>3, <1>4

LEMMA LineTail ==
  ASSUME NEW S, NEW l, NEW s \in Seq(S), s # <<>>, Line(l, s)
  PROVE  /\ Line(l, Tail(s)) /\ Before(l, {Head(s)}, ToSet(Tail(s)))
         /\ ToSet(s) = {Head(s)} \cup ToSet(Tail(s))
<1>1. /\ DOMAIN s = 1..Len(s) /\ DOMAIN Tail(s) = 1..Len(s) - 1 /\ Len(s) \in Nat \ {0}
      /\ \A i \in 1..Len(s) - 1 : Tail(s)[i] = s[i + 1]
      /\ Head(s) = s[1]
  OBVIOUS
<1>2. \A i \in 1..Len(s) - 1 : i + 1 \in 1..Len(s) /\ 1 < i + 1
  BY <1>1
<1>3. Line(l, Tail(s))
  <2> SUFFICES ASSUME NEW i \in 1..Len(s) - 1, NEW j \in 1..Len(s) - 1, i < j
               PROVE  Win(l, Tail(s)[i]) < Win(l, Tail(s)[j])
    BY <1>1 DEF Line
  <2>1. i + 1 < j + 1
    OBVIOUS
  <2> QED
    BY <1>1, <1>2, <2>1 DEF Line
<1>4. Before(l, {Head(s)}, ToSet(Tail(s)))
  <2> SUFFICES ASSUME NEW i \in 1..Len(s) - 1
               PROVE  Win(l, s[1]) < Win(l, s[i + 1])
    BY <1>1 DEF Before, ToSet
  <2> QED
    BY <1>1, <1>2 DEF Line
<1>5. ToSet(s) \subseteq {Head(s)} \cup ToSet(Tail(s))
  <2> SUFFICES ASSUME NEW i \in 1..Len(s), i # 1
               PROVE  s[i] \in ToSet(Tail(s))
    BY <1>1 DEF ToSet
  <2>1. i - 1 \in 1..Len(s) - 1 /\ Tail(s)[i - 1] = s[i]
    BY <1>1
  <2> QED
    BY <1>1, <2>1 DEF ToSet
<1> QED
  BY <1>3, <1>4, <1>5, TailElems

LEMMA LineConcat ==
  ASSUME NEW S, NEW l, NEW s \in Seq(S), NEW t \in Seq(S), Line(l, s), Line(l, t),
         Before(l, ToSet(s), ToSet(t))
  PROVE  Line(l, s \o t)
<1>1. /\ DOMAIN s = 1..Len(s) /\ DOMAIN t = 1..Len(t)
      /\ Len(s) \in Nat /\ Len(t) \in Nat /\ DOMAIN (s \o t) = 1..Len(s) + Len(t)
      /\ \A i \in 1..Len(s) : (s \o t)[i] = s[i]
      /\ \A i \in 1..Len(s) + Len(t) : i > Len(s) => (s \o t)[i] = t[i - Len(s)]
  OBVIOUS
<1> SUFFICES ASSUME NEW i \in 1..Len(s) + Len(t), NEW j \in 1..Len(s) + Len(t), i < j
             PROVE  Win(l, (s \o t)[i]) < Win(l, (s \o t)[j])
  BY <1>1 DEF Line
<1>2. CASE j <= Len(s)
  <2>1. i \in 1..Len(s) /\ j \in 1..Len(s)
    BY <1>1, <1>2
  <2> QED
    BY <1>1, <2>1 DEF Line
<1>3. CASE i <= Len(s) /\ j > Len(s)
  <2>1. i \in 1..Len(s) /\ j - Len(s) \in 1..Len(t)
    BY <1>1, <1>3
  <2>2. s[i] \in ToSet(s) /\ t[j - Len(s)] \in ToSet(t)
    BY <1>1, <2>1 DEF ToSet
  <2> QED
    BY <1>1, <1>3, <2>1, <2>2 DEF Before
<1>4. CASE i > Len(s)
  <2>1. i - Len(s) \in 1..Len(t) /\ j - Len(s) \in 1..Len(t) /\ i - Len(s) < j - Len(s)
    BY <1>1, <1>4
  <2> QED
    BY <1>1, <1>4, <2>1 DEF Line
<1> QED
  BY <1>1, <1>2, <1>3, <1>4

\* A line has as many batches as places.
LEMMA LineCount ==
  ASSUME NEW S, NEW l, NEW s \in Seq(S), Line(l, s), \A b \in ToSet(s) : Win(l, b) \in Int
  PROVE  IsFiniteSet(ToSet(s)) /\ Cardinality(ToSet(s)) = Len(s)
<1>1. DOMAIN s = 1..Len(s) /\ Len(s) \in Nat /\ s \in [1..Len(s) -> ToSet(s)]
  BY DEF ToSet
<1>2. ASSUME NEW i \in 1..Len(s), NEW j \in 1..Len(s), s[i] = s[j]
      PROVE  i = j
  <2>1. Win(l, s[i]) \in Int /\ Win(l, s[j]) = Win(l, s[i])
    BY <1>1, <1>2 DEF ToSet
  <2> QED
    BY <1>1, <2>1 DEF Line
<1>3. \A b \in ToSet(s) : \E i \in 1..Len(s) : s[i] = b
  BY <1>1 DEF ToSet
<1>4. s \in Bijection(1..Len(s), ToSet(s))
  BY <1>1, <1>2, <1>3 DEF Bijection, Injection, Surjection, IsInjective
<1>5. IsFiniteSet(1..Len(s)) /\ ExistsBijection(1..Len(s), ToSet(s))
  BY <1>1, <1>4, FS_Interval DEF ExistsBijection
<1> QED
  BY <1>1, <1>5, FS_Bijection, FS_CountingElements

\* What is on its way, and where.
LEMMA OrderTypes ==
  ASSUME TypeOK
  PROVE  /\ q \in Seq(Batches) /\ out \in Seq(Batches) /\ written \in Seq(Batches)
         /\ Len(q) \in Nat /\ Len(out) \in Nat /\ Len(written) \in Nat
         /\ OnLine \cup Given \subseteq Batches
         /\ dropped \in Nat /\ emitted \in Nat
<1>1. /\ q \in Seq(Batches) /\ out \in Seq(Batches) /\ written \in Seq(Batches)
      /\ batch \in Batches /\ lost \subseteq Batches /\ discarded \subseteq Batches
      /\ dropped \in Nat /\ emitted \in Nat
  BY DEF TypeOK, ScanTypeOK
<1>2. \A s \in Seq(Batches) : ToSet(s) \subseteq Batches /\ Len(s) \in Nat
  BY ElementOfSeq DEF ToSet
<1> QED
  BY <1>1, <1>2 DEF OnLine, Given, Hand

\* A step that moves no batch.
LEMMA NothingMoves ==
  ASSUME OrderInv, UNCHANGED <<log, written, out, q, batch, lost, discarded, emitted, dropped>>,
         window' \subseteq window, pc' = "again" <=> pc = "again"
  PROVE  OrderInv'
<1>1. OnLine' = OnLine /\ Given' = Given /\ Hand' = Hand
  BY DEF OnLine, Given, Hand
<1> QED
  BY <1>1 DEF OrderInv, Closed, InLine, Apart, Counted

LEMMA HearOrder ==
  ASSUME TypeOK, OrderInv, NEW mac \in Macs, NEW rssi \in Rssis, Hear(mac, rssi)
  PROVE  OrderInv'
<1>1. /\ Heard' = Heard \cup {Len(log) + 1} /\ Len(log) + 1 \notin Heard
      /\ log'[Len(log) + 1].window = emitted
      /\ \A m \in Heard : log'[m] = log[m]
  <2>1. HearOf(mac, rssi)
    BY DEF Hear
  <2>2. log'[Len(log) + 1] = [mac |-> mac, rssi |-> rssi, window |-> emitted]
    BY <2>1, HearFacts
  <2> QED
    BY <2>1, <2>2, HearFacts
<1>2. UNCHANGED <<pc, batch, q, dropped, emitted, lost, written, out, discarded>>
  BY DEF Hear, HearOf, thread, loopVars
<1>3. OnLine' = OnLine /\ Given' = Given /\ Hand' = Hand
  BY <1>2 DEF OnLine, Given, Hand
<1>4. ASSUME NEW b \in OnLine \cup Given
      PROVE  Win(log', b) = Win(log, b)
  <2>1. b # {} /\ b \subseteq Heard
    BY OrderTypes DEF OrderInv, Closed, Batches
  <2>2. (CHOOSE n \in b : TRUE) \in Heard
    BY <2>1
  <2> QED
    BY <1>1, <2>2 DEF Win
<1>5. Closed'
  <2>1. ASSUME NEW n \in window'
        PROVE  log'[n].window = emitted
    <3>1. window' \subseteq window \cup {Len(log) + 1}
      BY DEF Hear, HearOf
    <3>2. window \subseteq Heard
      BY DEF TypeOK, ScanTypeOK, Batches
    <3> QED
      BY <1>1, <3>1, <3>2 DEF OrderInv, Closed
  <2> QED
    BY <1>2, <1>3, <1>4, <2>1 DEF OrderInv, Closed
<1>6. InLine'
  <2>1. ASSUME NEW s, Line(log, s), ToSet(s) \subseteq OnLine
        PROVE  Line(log', s)
    BY <1>4, <2>1 DEF Line, ToSet
  <2>2. ASSUME NEW A \in SUBSET OnLine, NEW B \in SUBSET OnLine, Before(log, A, B)
        PROVE  Before(log', A, B)
    BY <1>4, <2>2 DEF Before
  <2>3. /\ ToSet(written) \subseteq OnLine /\ ToSet(out) \subseteq OnLine
        /\ ToSet(q) \subseteq OnLine /\ Hand \subseteq OnLine
    BY DEF OnLine
  <2>4. Line(log', written) /\ Line(log', out) /\ Line(log', q)
    BY <2>1, <2>3 DEF OrderInv, InLine
  <2>5. /\ Before(log', ToSet(written), ToSet(out) \cup ToSet(q) \cup Hand)
        /\ Before(log', ToSet(out), ToSet(q) \cup Hand)
        /\ Before(log', ToSet(q), Hand)
    BY <2>2, <2>3 DEF OrderInv, InLine
  <2> QED
    BY <1>2, <1>3, <2>4, <2>5 DEF InLine
<1>7. Apart' /\ Counted'
  BY <1>2, <1>3 DEF OrderInv, Apart, Counted
<1> QED
  BY <1>5, <1>6, <1>7 DEF OrderInv

\* A window is closed and its batch taken in hand: the latest of all.
LEMMA CloseOrder ==
  ASSUME TypeOK, Hands, OrderInv, pc \in {"top", "poll", "read"}, NEW last \in BOOLEAN,
         Close(last), UNCHANGED <<log, written, out, q, lost, discarded, dropped>>
  PROVE  OrderInv'
<1>1. CASE window = {}
  BY <1>1, NothingMoves DEF Close, After
<1>2. CASE window # {}
  <2>1. batch = {} /\ batch' = window /\ window' = {} /\ emitted' = emitted + 1 /\ pc' = "put"
    BY <1>2 DEF Close, Hands
  <2>2. Hand = {} /\ Hand' = {window} /\ OnLine' = OnLine \cup {window} /\ Given' = Given
    BY <1>2, <2>1 DEF Hand, OnLine, Given
  <2>3. Win(log, window) = emitted
    BY <1>2 DEF OrderInv, Closed, Win
  <2>4. emitted \in Nat
    BY OrderTypes
  <2>5. \A b \in OnLine \cup Given : Win(log, b) < emitted /\ b # window
    BY <2>3, <2>4 DEF OrderInv, Closed
  <2>6. Closed'
    BY <1>2, <2>1, <2>2, <2>3, <2>4 DEF OrderInv, Closed
  <2>7. InLine'
    BY <2>2, <2>3, <2>5 DEF OrderInv, InLine, Before, OnLine
  <2>8. Apart'
    BY <2>2, <2>5 DEF OrderInv, Apart, Given
  <2>9. Counted'
    <3>1. Cardinality(lost) \in Nat /\ Cardinality(discarded) \in Nat
      BY FS_CardinalityType DEF OrderInv, Counted
    <3>2. emitted = Len(written) + Len(out) + Len(q) + 0 + Cardinality(lost)
                      + Cardinality(discarded)
      BY <2>1 DEF OrderInv, Counted
    <3>3. emitted + 1 = Len(written) + Len(out) + Len(q) + 1 + Cardinality(lost)
                          + Cardinality(discarded)
      <4>1. Len(written) \in Nat /\ Len(out) \in Nat /\ Len(q) \in Nat
        BY OrderTypes
      <4> QED
        BY <3>1, <3>2, <4>1
    <3>4. emitted' = Len(written') + Len(out') + Len(q') + (IF batch' = {} THEN 0 ELSE 1)
                       + Cardinality(lost') + Cardinality(discarded')
      BY <1>2, <2>1, <3>3
    <3> QED
      BY <2>1, <3>4 DEF OrderInv, Counted
  <2> QED
    BY <2>6, <2>7, <2>8, <2>9 DEF OrderInv
<1> QED
  BY <1>1, <1>2

\* The batch in hand is put at the end of the queue.
LEMMA PutOrder ==
  ASSUME TypeOK, OrderInv, pc \in {"put", "again"}, PutDone,
         UNCHANGED <<log, window, written, out, lost, discarded, emitted>>,
         dropped' = dropped + (IF pc = "again" THEN 1 ELSE 0), batch # {}
  PROVE  OrderInv'
<1>1. q' = Append(q, batch) /\ batch' = {} /\ pc' # "again"
  BY DEF PutDone, After
<1>2. /\ ToSet(q') = ToSet(q) \cup {batch} /\ Len(q') = Len(q) + 1
      /\ Hand = {batch} /\ Hand' = {} /\ batch \in Batches
  <2>1. q \in Seq(Batches) /\ batch \in Batches
    BY DEF TypeOK, ScanTypeOK
  <2>2. ToSet(Append(q, batch)) = ToSet(q) \cup {batch}
    BY <2>1, AppendElems
  <2>3. Len(Append(q, batch)) = Len(q) + 1
    BY <2>1
  <2> QED
    BY <1>1, <2>1, <2>2, <2>3 DEF Hand
<1>3. OnLine' = OnLine /\ Given' = Given
  BY <1>2 DEF OnLine, Given
<1>4. Closed' /\ Apart'
  BY <1>3 DEF OrderInv, Closed, Apart
<1>5. InLine'
  <2>1. Line(log, q')
    BY <1>1, <1>2, OrderTypes, LineAppend DEF OrderInv, InLine
  <2> QED
    BY <1>2, <2>1 DEF OrderInv, InLine, Before
<1>6. Counted'
  <2>1. Cardinality(lost) \in Nat /\ Cardinality(discarded) \in Nat
    BY FS_CardinalityType DEF OrderInv, Counted
  <2>2. /\ Len(q') = Len(q) + 1 /\ Len(q) \in Nat /\ Len(out) \in Nat /\ Len(written) \in Nat
        /\ dropped \in Nat /\ batch' = {} /\ pc' # "again" /\ batch # {}
    BY <1>1, <1>2, OrderTypes
  <2>3. emitted' = Len(written') + Len(out') + Len(q') + (IF batch' = {} THEN 0 ELSE 1)
                     + Cardinality(lost') + Cardinality(discarded')
    <3>1. emitted = Len(written) + Len(out) + Len(q) + 1 + Cardinality(lost)
                      + Cardinality(discarded)
      BY <2>2 DEF OrderInv, Counted
    <3>2. emitted = Len(written) + Len(out) + Len(q') + 0 + Cardinality(lost)
                      + Cardinality(discarded)
      BY <2>1, <2>2, <3>1
    <3> QED
      BY <2>2, <3>2
  <2>4. Cardinality(lost') = dropped' + (IF pc' = "again" THEN 1 ELSE 0)
    BY <2>1, <2>2 DEF OrderInv, Counted
  <2> QED
    BY <2>3, <2>4 DEF OrderInv, Counted
<1> QED
  BY <1>4, <1>5, <1>6 DEF OrderInv

\* The oldest batch of the queue, which is on nobody's list, is given up.
LEMMA GetOrder ==
  ASSUME TypeOK, OrderInv, GetOldest, UNCHANGED <<written, out, discarded>>
  PROVE  OrderInv'
<1>1. /\ q # <<>> /\ q' = Tail(q) /\ lost' = lost \cup {Head(q)} /\ pc = "get" /\ pc' = "again"
      /\ UNCHANGED <<log, window, batch, emitted, dropped>>
  BY DEF GetOldest
<1>2. /\ Line(log, Tail(q)) /\ Before(log, {Head(q)}, ToSet(Tail(q)))
      /\ ToSet(q) = {Head(q)} \cup ToSet(Tail(q)) /\ Len(Tail(q)) = Len(q) - 1
  BY <1>1, OrderTypes, LineTail, TailElems DEF OrderInv, InLine
<1>3. Hand' = Hand /\ OnLine = OnLine' \cup {Head(q)} /\ Given' = Given \cup {Head(q)}
  BY <1>1, <1>2 DEF Hand, OnLine, Given
<1>4. Head(q) \notin OnLine'
  <2>1. /\ \A b \in ToSet(written) \cup ToSet(out) : Win(log, b) < Win(log, Head(q))
        /\ \A b \in ToSet(Tail(q)) \cup Hand : Win(log, Head(q)) < Win(log, b)
    BY <1>2 DEF OrderInv, InLine, Before
  <2>2. Win(log, Head(q)) \in Int
    BY <1>3 DEF OrderInv, Closed
  <2> QED
    BY <1>1, <1>3, <2>1, <2>2 DEF OnLine
<1>5. Closed'
  BY <1>1, <1>3 DEF OrderInv, Closed
<1>6. InLine'
  BY <1>1, <1>2, <1>3 DEF OrderInv, InLine, Before
<1>7. Apart'
  BY <1>1, <1>3, <1>4 DEF OrderInv, Apart, Given
<1>8. Counted'
  <2>1. Head(q) \notin lost /\ IsFiniteSet(lost)
    BY <1>3 DEF OrderInv, Apart, Given, Counted
  <2>2. /\ Cardinality(lost') = Cardinality(lost) + 1 /\ IsFiniteSet(lost')
        /\ Cardinality(lost) \in Nat /\ Cardinality(discarded) \in Nat
    BY <1>1, <2>1, FS_AddElement, FS_CardinalityType DEF OrderInv, Counted
  <2>3. /\ Len(q') = Len(q) - 1 /\ Len(q) \in Nat /\ Len(out) \in Nat /\ Len(written) \in Nat
        /\ dropped \in Nat
    BY <1>1, <1>2, OrderTypes
  <2>4. emitted' = Len(written') + Len(out') + Len(q') + (IF batch' = {} THEN 0 ELSE 1)
                     + Cardinality(lost') + Cardinality(discarded')
    <3> DEFINE hand == IF batch = {} THEN 0 ELSE 1
    <3>1. emitted = Len(written) + Len(out) + Len(q) + hand + Cardinality(lost)
                      + Cardinality(discarded)
      BY DEF OrderInv, Counted
    <3>2. hand \in Nat
      OBVIOUS
    <3> HIDE DEF hand
    <3>3. emitted = Len(written) + Len(out) + Len(q') + hand + Cardinality(lost')
                      + Cardinality(discarded)
      BY <2>2, <2>3, <3>1, <3>2
    <3> QED
      BY <1>1, <3>3 DEF hand
  <2>5. Cardinality(lost') = dropped' + (IF pc' = "again" THEN 1 ELSE 0)
    BY <1>1, <2>2, <2>3 DEF OrderInv, Counted
  <2> QED
    BY <2>2, <2>4, <2>5 DEF OrderInv, Counted
<1> QED
  BY <1>5, <1>6, <1>7, <1>8 DEF OrderInv

\* The batch in hand is given up.
LEMMA EmptyOrder ==
  ASSUME TypeOK, OrderInv, GetEmpty, UNCHANGED <<written, out, discarded>>, batch # {}
  PROVE  OrderInv'
<1>1. /\ lost' = lost \cup {batch} /\ batch' = {} /\ dropped' = dropped + 1
      /\ pc = "get" /\ pc' # "again" /\ UNCHANGED <<log, window, q, emitted>>
  BY DEF GetEmpty, After
<1>2. Hand = {batch} /\ Hand' = {}
  BY <1>1 DEF Hand
<1>3. OnLine = OnLine' \cup {batch} /\ Given' = Given \cup {batch}
  BY <1>1, <1>2 DEF OnLine, Given
<1>4. batch \notin OnLine'
  <2>1. \A b \in ToSet(written) \cup ToSet(out) \cup ToSet(q) : Win(log, b) < Win(log, batch)
    BY <1>2 DEF OrderInv, InLine, Before
  <2>2. Win(log, batch) \in Int
    BY <1>3 DEF OrderInv, Closed
  <2> QED
    BY <1>1, <1>2, <2>1, <2>2 DEF OnLine
<1>5. Closed'
  BY <1>1, <1>3 DEF OrderInv, Closed
<1>6. InLine'
  BY <1>1, <1>2 DEF OrderInv, InLine, Before
<1>7. Apart'
  BY <1>1, <1>3, <1>4 DEF OrderInv, Apart, Given
<1>8. Counted'
  <2>1. batch \notin lost /\ IsFiniteSet(lost)
    BY <1>3 DEF OrderInv, Apart, Given, Counted
  <2>2. /\ Cardinality(lost') = Cardinality(lost) + 1 /\ IsFiniteSet(lost')
        /\ Cardinality(lost) \in Nat /\ Cardinality(discarded) \in Nat
    BY <1>1, <2>1, FS_AddElement, FS_CardinalityType DEF OrderInv, Counted
  <2>3. /\ Len(q) \in Nat /\ Len(out) \in Nat /\ Len(written) \in Nat /\ dropped \in Nat
    BY OrderTypes
  <2>4. emitted' = Len(written') + Len(out') + Len(q') + (IF batch' = {} THEN 0 ELSE 1)
                     + Cardinality(lost') + Cardinality(discarded')
    <3>1. emitted = Len(written) + Len(out) + Len(q) + 1 + Cardinality(lost)
                      + Cardinality(discarded)
      BY DEF OrderInv, Counted
    <3>2. emitted = Len(written) + Len(out) + Len(q) + 0 + Cardinality(lost')
                      + Cardinality(discarded)
      BY <2>2, <2>3, <3>1
    <3> QED
      BY <1>1, <3>2
  <2>5. Cardinality(lost') = dropped' + (IF pc' = "again" THEN 1 ELSE 0)
    BY <1>1, <2>2, <2>3 DEF OrderInv, Counted
  <2> QED
    BY <2>2, <2>4, <2>5 DEF OrderInv, Counted
<1> QED
  BY <1>5, <1>6, <1>7, <1>8 DEF OrderInv

\* A batch goes from the head of the queue to the end of the list.
LEMMA DrainOrder ==
  ASSUME TypeOK, OrderInv, Drain
  PROVE  OrderInv'
<1>1. /\ q # <<>> /\ q' = Tail(q) /\ out' = Append(out, Head(q))
      /\ UNCHANGED <<pc, log, window, batch, emitted, dropped, lost, written, discarded>>
  BY DEF Drain, ScannerKeeps
<1>2. /\ Line(log, Tail(q)) /\ Before(log, {Head(q)}, ToSet(Tail(q)))
      /\ ToSet(q) = {Head(q)} \cup ToSet(Tail(q)) /\ Len(Tail(q)) = Len(q) - 1
      /\ Head(q) \in Batches
  BY <1>1, OrderTypes, LineTail, TailElems DEF OrderInv, InLine
<1>3. ToSet(out') = ToSet(out) \cup {Head(q)} /\ Len(out') = Len(out) + 1
  <2>1. out \in Seq(Batches) /\ Head(q) \in Batches
    BY <1>2, OrderTypes
  <2>2. ToSet(Append(out, Head(q))) = ToSet(out) \cup {Head(q)}
    BY <2>1, AppendElems
  <2>3. Len(Append(out, Head(q))) = Len(out) + 1
    BY <2>1
  <2> QED
    BY <1>1, <2>2, <2>3
<1>4. Hand' = Hand /\ OnLine' = OnLine /\ Given' = Given
  BY <1>1, <1>2, <1>3 DEF Hand, OnLine, Given
<1>5. Closed' /\ Apart'
  BY <1>1, <1>4 DEF OrderInv, Closed, Apart
<1>6. InLine'
  <2>1. Before(log, ToSet(out), {Head(q)})
    BY <1>2 DEF OrderInv, InLine, Before
  <2>2. Line(log, out')
    BY <1>1, <1>2, <2>1, OrderTypes, LineAppend DEF OrderInv, InLine
  <2>3. Before(log, ToSet(out'), ToSet(q') \cup Hand)
    BY <1>1, <1>2, <1>3 DEF OrderInv, InLine, Before
  <2> QED
    BY <1>1, <1>2, <1>3, <1>4, <2>2, <2>3 DEF OrderInv, InLine, Before
<1>7. Counted'
  <2>1. Len(written) + Len(out') + Len(q') = Len(written) + Len(out) + Len(q)
    BY <1>1, <1>2, <1>3, OrderTypes
  <2> QED
    BY <1>1, <2>1 DEF OrderInv, Counted
<1> QED
  BY <1>5, <1>6, <1>7 DEF OrderInv

\* The list is written.
LEMMA WriteOrder ==
  ASSUME TypeOK, OrderInv, written' = written \o out, out' = <<>>,
         UNCHANGED <<pc, log, window, batch, q, emitted, dropped, lost, discarded>>
  PROVE  OrderInv'
<1>1. /\ written' \in Seq(Batches) /\ ToSet(written') \subseteq ToSet(written) \cup ToSet(out)
      /\ Len(written') = Len(written) + Len(out) /\ ToSet(out') = {} /\ Len(out') = 0
  BY OrderTypes, ConcatElems, NoElems
<1>2. Hand' = Hand /\ OnLine' \subseteq OnLine /\ Given' = Given
  BY <1>1 DEF Hand, OnLine, Given
<1>3. Closed' /\ Apart'
  BY <1>2 DEF OrderInv, Closed, Apart
<1>4. InLine'
  <2>1. Before(log, ToSet(written), ToSet(out))
    BY DEF OrderInv, InLine, Before
  <2>2. Line(log, written')
    BY <2>1, OrderTypes, LineConcat DEF OrderInv, InLine
  <2>3. Line(log, out')
    BY DEF Line
  <2> QED
    BY <1>1, <1>2, <2>2, <2>3 DEF OrderInv, InLine, Before
<1>5. Counted'
  <2>1. Len(written') + Len(out') + Len(q') = Len(written) + Len(out) + Len(q)
    BY <1>1, OrderTypes
  <2> QED
    BY <2>1 DEF OrderInv, Counted
<1> QED
  BY <1>3, <1>4, <1>5 DEF OrderInv

\* The list is thrown away.
LEMMA DiscardOrder ==
  ASSUME TypeOK, OrderInv, discarded' = discarded \cup ToSet(out), out' = <<>>,
         UNCHANGED <<pc, log, window, batch, q, emitted, dropped, lost, written>>
  PROVE  OrderInv'
<1>1. ToSet(out') = {} /\ Len(out') = 0 /\ Hand' = Hand
  BY NoElems DEF Hand
<1>2. OnLine' \subseteq OnLine /\ OnLine' \cap ToSet(out) = {}
  <2>1. /\ \A a \in ToSet(written), b \in ToSet(out) : Win(log, a) < Win(log, b)
        /\ \A a \in ToSet(out), b \in ToSet(q) \cup Hand : Win(log, a) < Win(log, b)
    BY DEF OrderInv, InLine, Before
  <2>2. \A b \in ToSet(out) : Win(log, b) \in Int
    BY DEF OrderInv, Closed, OnLine
  <2> QED
    BY <1>1, <2>1, <2>2 DEF OnLine
<1>3. Given' = Given \cup ToSet(out) /\ ToSet(out) \subseteq OnLine
  BY DEF Given, OnLine
<1>4. Closed'
  BY <1>2, <1>3 DEF OrderInv, Closed
<1>5. Apart'
  BY <1>2, <1>3 DEF OrderInv, Apart, Given
<1>6. InLine'
  <2>1. Line(log, out')
    BY DEF Line
  <2> QED
    BY <1>1, <2>1 DEF OrderInv, InLine, Before
<1>7. Counted'
  <2>1. IsFiniteSet(ToSet(out)) /\ Cardinality(ToSet(out)) = Len(out)
    <3>1. \A b \in ToSet(out) : Win(log, b) \in Int
      BY DEF OrderInv, Closed, OnLine
    <3> QED
      BY <3>1, OrderTypes, LineCount DEF OrderInv, InLine
  <2>2. discarded \cap ToSet(out) = {} /\ IsFiniteSet(discarded) /\ IsFiniteSet(lost)
    BY <1>3 DEF OrderInv, Apart, Given, Counted
  <2>3. /\ IsFiniteSet(discarded') /\ Cardinality(lost) \in Nat
        /\ Cardinality(discarded) \in Nat
        /\ Cardinality(discarded') = Cardinality(discarded) + Len(out)
    <3>1. /\ Cardinality(lost) \in Nat /\ Cardinality(discarded) \in Nat /\ Len(out) \in Nat
      BY <2>2, FS_CardinalityType, OrderTypes
    <3>2. /\ IsFiniteSet(discarded \cup ToSet(out))
          /\ Cardinality(discarded \cup ToSet(out))
               = Cardinality(discarded) + Cardinality(ToSet(out))
                   - Cardinality(discarded \cap ToSet(out))
      BY <2>1, <2>2, FS_Union
    <3>3. Cardinality(discarded \cap ToSet(out)) = 0
      BY <2>2, FS_EmptySet
    <3> QED
      BY <2>1, <3>1, <3>2, <3>3
  <2> DEFINE hand == IF batch = {} THEN 0 ELSE 1
  <2>4. /\ emitted = Len(written) + Len(out) + Len(q) + hand + Cardinality(lost)
                       + Cardinality(discarded)
        /\ hand \in Nat
    BY DEF OrderInv, Counted
  <2> HIDE DEF hand
  <2>5. emitted = Len(written) + 0 + Len(q) + hand + Cardinality(lost) + Cardinality(discarded')
    BY <2>3, <2>4, OrderTypes
  <2>6. emitted' = Len(written') + Len(out') + Len(q') + (IF batch' = {} THEN 0 ELSE 1)
                     + Cardinality(lost') + Cardinality(discarded')
    BY <1>1, <2>5 DEF hand
  <2> QED
    BY <2>2, <2>3, <2>6 DEF OrderInv, Counted
<1> QED
  BY <1>4, <1>5, <1>6, <1>7 DEF OrderInv

\* While a batch is put on the queue, there is one.
InPut == pc \in {"put", "get", "again"} => batch # {}

LEMMA NextInPut ==
  ASSUME InPut, [Next]_vars
  PROVE  InPut'
<1>1. CASE Scanner
  <2>1. ASSUME NEW b \in BOOLEAN, Close(b)
        PROVE  InPut'
    BY <2>1 DEF Close, After, InPut
  <2>2. CASE Top \/ Poll \/ Emit \/ SourceEnds \/ KeepOpen
    BY <2>1, <2>2 DEF Top, Poll, Emit, SourceEnds, KeepOpen, InPut
  <2>3. CASE PollRaises \/ StreamCorrupt \/ SweepFails \/ ChildDies
    BY <2>3 DEF PollRaises, StreamCorrupt, SweepFails, GiveUp, ChildDies, InPut
  <2>4. CASE Put \/ GetOldest \/ GetEmpty \/ PutAgain
    BY <2>4 DEF Put, GetOldest, GetEmpty, PutAgain, PutDone, After, InPut
  <2> QED
    BY <1>1, <2>2, <2>3, <2>4 DEF Scanner, Scan
<1>2. CASE UNCHANGED <<pc, batch>>
  BY <1>2 DEF InPut
<1>3. CASE ~Scanner
  <2>1. UNCHANGED <<pc, batch>> \/ \E mac \in Macs, rssi \in Rssis : Hear(mac, rssi)
    BY <1>3 DEF Next, Drain, ScannerKeeps, Drained, NoInput, PressA, PressB, Answer, SetStop,
       ClearChild, Join, LastDrained, scanVars, history, vars
  <2> QED
    BY <1>2, <2>1 DEF Hear, HearOf, thread
<1> QED
  BY <1>1, <1>3

LEMMA NextOrder ==
  ASSUME TypeOK, Hands, InPut, OrderInv, [Next]_vars
  PROVE  OrderInv'
<1>1. ASSUME NEW mac \in Macs, NEW rssi \in Rssis, Hear(mac, rssi)
      PROVE  OrderInv'
  BY <1>1, HearOrder
<1>2. CASE Scanner
  <2>1. UNCHANGED <<written, out, discarded>>
    BY <1>2 DEF Scanner, loopVars
  <2>2. CASE Top \/ Poll \/ Emit \/ SourceEnds \/ KeepOpen
    <3>1. /\ pc \in {"top", "poll", "read"} /\ UNCHANGED <<log, q, lost, dropped>>
          /\ \/ \E b \in BOOLEAN : Close(b)
             \/ pc' \in {"poll", "read", "top"} /\ UNCHANGED <<window, batch, emitted>>
      BY <2>2 DEF Top, Poll, Emit, SourceEnds, KeepOpen, Unchanged
    <3> QED
      BY <2>1, <3>1, CloseOrder, NothingMoves
  <2>3. CASE PollRaises \/ StreamCorrupt \/ SweepFails
    <3>1. /\ pc \in {"poll", "read"} /\ pc' \in {"ended", "top"} /\ window' = {}
          /\ UNCHANGED <<batch, q, dropped, log, emitted, lost>>
      BY <2>3 DEF PollRaises, StreamCorrupt, SweepFails, GiveUp
    <3> QED
      BY <2>1, <3>1, NothingMoves
  <2>4. CASE ChildDies
    BY <2>1, <2>4, NothingMoves DEF ChildDies, history
  <2>5. CASE Put
    <3>1. /\ pc = "put" /\ batch # {}
          /\ UNCHANGED <<window, dropped, log, emitted, lost>>
          /\ PutDone \/ (pc' = "get" /\ UNCHANGED <<q, batch>>)
      BY <2>5 DEF Put, history, InPut
    <3>2. dropped = dropped + 0
      BY OrderTypes
    <3> QED
      BY <2>1, <3>1, <3>2, PutOrder, NothingMoves
  <2>6. CASE PutAgain
    <3>1. /\ pc = "again" /\ batch # {} /\ PutDone /\ dropped' = dropped + 1
          /\ UNCHANGED <<window, log, emitted, lost>>
      BY <2>6 DEF PutAgain, history, InPut
    <3> QED
      BY <2>1, <3>1, PutOrder
  <2>7. CASE GetOldest
    BY <2>1, <2>7, GetOrder
  <2>8. CASE GetEmpty
    BY <2>1, <2>8, EmptyOrder DEF GetEmpty, InPut
  <2> QED
    BY <1>2, <2>2, <2>3, <2>4, <2>5, <2>6, <2>7, <2>8 DEF Scanner, Scan
<1>3. CASE Drain
  BY <1>3, DrainOrder
<1>4. CASE Drained \/ LastDrained
  <2>1. /\ UNCHANGED <<pc, log, window, batch, q, emitted, dropped, lost>> /\ out' = <<>>
        /\ \/ written' = written \o out /\ UNCHANGED discarded
           \/ discarded' = discarded \cup ToSet(out) /\ UNCHANGED written
    BY <1>4 DEF Drained, LastDrained, scanVars
  <2> QED
    BY <2>1, WriteOrder, DiscardOrder
<1>5. CASE NoInput \/ PressA \/ PressB \/ Answer \/ Join \/ UNCHANGED vars
  <2>1. UNCHANGED <<pc, log, window, batch, q, emitted, dropped, lost, written, out, discarded>>
    BY <1>5 DEF NoInput, PressA, PressB, Answer, Join, vars, scanVars, loopVars
  <2> QED
    BY <2>1, NothingMoves
<1>6. CASE SetStop \/ ClearChild
  <2>1. UNCHANGED <<pc, log, window, batch, q, emitted, dropped, lost, written, out, discarded>>
    BY <1>6 DEF SetStop, ClearChild, history
  <2> QED
    BY <2>1, NothingMoves
<1> QED
  BY <1>1, <1>2, <1>3, <1>4, <1>5, <1>6 DEF Next

\* What the invariant says of the whole line, from the file to the thread.
LEMMA PipelineFacts ==
  ASSUME TypeOK, OrderInv
  PROVE  /\ Line(log, Pipeline) /\ ToSet(Pipeline) \subseteq OnLine
         /\ Len(Pipeline) = Len(written) + Len(out) + Len(q) + (IF batch = {} THEN 0 ELSE 1)
<1> DEFINE last == IF batch = {} THEN <<>> ELSE <<batch>>
<1>1. last \in Seq(Batches) /\ Line(log, last) /\ ToSet(last) = Hand
      /\ Len(last) = IF batch = {} THEN 0 ELSE 1
  <2>1. CASE batch = {}
    BY <2>1, NoElems DEF Line, Hand
  <2>2. CASE batch # {}
    <3>1. last = <<batch>> /\ batch \in Batches
      BY <2>2 DEF TypeOK, ScanTypeOK
    <3>2. Len(<<batch>>) = 1 /\ DOMAIN <<batch>> = {1} /\ <<batch>>[1] = batch
      OBVIOUS
    <3> QED
      BY <2>2, <3>1, <3>2 DEF Line, Hand, ToSet
  <2> QED
    BY <2>1, <2>2
<1> HIDE DEF last
<1>2. /\ written \o out \in Seq(Batches) /\ Line(log, written \o out)
      /\ ToSet(written \o out) \subseteq ToSet(written) \cup ToSet(out)
      /\ Len(written \o out) = Len(written) + Len(out)
  <2>1. Before(log, ToSet(written), ToSet(out))
    BY DEF OrderInv, InLine, Before
  <2> QED
    BY <2>1, OrderTypes, LineConcat, ConcatElems DEF OrderInv, InLine
<1> DEFINE front == written \o out
<1> HIDE DEF front
<1>3. /\ front \o q \in Seq(Batches) /\ Line(log, front \o q)
      /\ ToSet(front \o q) \subseteq ToSet(written) \cup ToSet(out) \cup ToSet(q)
      /\ Len(front \o q) = Len(written) + Len(out) + Len(q)
  <2>1. Before(log, ToSet(front), ToSet(q))
    BY <1>2 DEF OrderInv, InLine, Before, front
  <2>2. /\ front \in Seq(Batches) /\ Line(log, front) /\ Line(log, q) /\ q \in Seq(Batches)
        /\ ToSet(front) \subseteq ToSet(written) \cup ToSet(out)
        /\ Len(front) = Len(written) + Len(out)
    BY <1>2, OrderTypes DEF OrderInv, InLine, front
  <2>3. Line(log, front \o q)
    BY <2>1, <2>2, LineConcat
  <2>4. front \o q \in Seq(Batches) /\ ToSet(front \o q) \subseteq ToSet(front) \cup ToSet(q)
    BY <2>2, ConcatElems
  <2>5. Len(front \o q) = Len(front) + Len(q)
    BY <2>2
  <2> QED
    BY <2>2, <2>3, <2>4, <2>5
<1> DEFINE most == front \o q
<1> HIDE DEF most
<1>4. /\ Line(log, most \o last) /\ ToSet(most \o last) \subseteq OnLine
      /\ Len(most \o last) = Len(written) + Len(out) + Len(q) + Len(last)
  <2>1. Before(log, ToSet(most), ToSet(last))
    BY <1>1, <1>3 DEF OrderInv, InLine, Before, most
  <2>2. /\ most \in Seq(Batches) /\ Line(log, most)
        /\ ToSet(most) \subseteq ToSet(written) \cup ToSet(out) \cup ToSet(q)
        /\ Len(most) = Len(written) + Len(out) + Len(q)
    BY <1>3 DEF most
  <2>3. Line(log, most \o last)
    BY <1>1, <2>1, <2>2, LineConcat
  <2>4. ToSet(most \o last) \subseteq ToSet(most) \cup ToSet(last)
    BY <1>1, <2>2, ConcatElems
  <2>5. Len(most \o last) = Len(most) + Len(last)
    <3>1. most \in Seq(Batches) /\ last \in Seq(Batches)
      BY <1>1, <2>2
    <3> QED
      BY <3>1
  <2> QED
    BY <1>1, <2>2, <2>3, <2>4, <2>5 DEF OnLine
<1> QED
  BY <1>1, <1>4 DEF Pipeline, front, most, last

LEMMA OrderInvariant == Spec => [](LiveInv /\ InPut /\ OrderInv)
<1>1. Init => InPut /\ OrderInv
  <2> SUFFICES ASSUME Init
               PROVE  InPut /\ OrderInv
    OBVIOUS
  <2>1. /\ OnLine = {} /\ Given = {} /\ Hand = {} /\ Len(q) = 0 /\ Len(out) = 0
        /\ Len(written) = 0 /\ Cardinality(lost) = 0 /\ Cardinality(discarded) = 0
        /\ IsFiniteSet(lost) /\ IsFiniteSet(discarded)
    BY NoElems, FS_EmptySet DEF Init, ScanInit, OnLine, Given, Hand
  <2> QED
    BY <2>1, NoElems
       DEF Init, ScanInit, InPut, OrderInv, Closed, InLine, Line, Before, Apart, Counted
<1>2. LiveInv /\ InPut /\ OrderInv /\ [Next]_vars => InPut' /\ OrderInv'
  BY NextInPut, NextOrder DEF LiveInv
<1> QED
  BY <1>1, <1>2, LiveInvariant, PTL DEF Spec

\* Batches are written in the order of their windows, and each one given up is
\* counted (drain(), and the three calls of _flush() and _ingest()).
THEOREM LiveQueueKept == Spec => []QueueKept
<1>1. LiveInv /\ InPut /\ OrderInv => QueueKept
  <2> SUFFICES ASSUME LiveInv, OrderInv
               PROVE  QueueKept
    OBVIOUS
  <2>1. TypeOK
    BY DEF LiveInv
  <2>2. WrittenInOrder
    BY <2>1, PipelineFacts DEF WrittenInOrder, Line, Win, WindowOf
  <2>3. DropsCounted
    BY <2>1, OrderTypes DEF OrderInv, Counted, DropsCounted
  <2> QED
    BY <2>1, <2>2, <2>3 DEF QueueKept
<1> QED
  BY <1>1, OrderInvariant, PTL

\* Every window closed is in one place (the queue, drain() and the pause).
THEOREM LiveEveryWindowAccounted == Spec => []EveryWindowAccounted
<1>1. LiveInv /\ InPut /\ OrderInv => EveryWindowAccounted
  <2> SUFFICES ASSUME LiveInv, OrderInv
               PROVE  EveryWindowAccounted
    OBVIOUS
  <2>1. TypeOK
    BY DEF LiveInv
  <2>2. /\ ToSet(Pipeline) \cap discarded = {}
        /\ (ToSet(Pipeline) \cup discarded) \cap lost = {}
    BY <2>1, PipelineFacts DEF OrderInv, Apart, Given
  <2>3. /\ Cardinality(lost) \in Nat /\ Cardinality(discarded) \in Nat
        /\ emitted = Len(Pipeline) + Cardinality(lost) + Cardinality(discarded)
    BY <2>1, PipelineFacts, FS_CardinalityType DEF OrderInv, Counted
  <2>4. Len(Pipeline) \in Nat
    BY <2>1, PipelineFacts, OrderTypes
  <2> QED
    BY <2>2, <2>3, <2>4 DEF EveryWindowAccounted
<1> QED
  BY <1>1, OrderInvariant, PTL
===============================================================================
