---------------------------- MODULE ObservationsProofs ----------------------------
(***************************************************************************)
(* Theorems about what the backends make of what they hear: the identity   *)
(* and the place of an AP (MonitorCapture), the devices that bluetoothctl  *)
(* tells of (BleEvents), the spelling of security (AuthMode).              *)
(***************************************************************************)
EXTENDS Observations, FiniteSetTheorems, TLAPS

-------------------------------------------------------------------------------
(* Channels. *)

\* A channel that has a frequency is the channel of that frequency.
LEMMA ChannelOfFreqOf ==
  ASSUME NEW c \in Nat, FreqOf(c) # 0
  PROVE  FreqOf(c) \in Nat /\ ChannelOf(FreqOf(c)) = c
<1>1. CASE c = 14
  BY <1>1 DEF FreqOf, ChannelOf
<1>2. CASE c \in 1..13
  <2> DEFINE f == 2407 + c * 5
  <2>1. FreqOf(c) = f
    BY <1>2 DEF FreqOf
  <2>2. f \in 2412..2472 /\ f # 2484 /\ f # 0
    BY <1>2
  <2>3. (f - 2407) \div 5 = c
    BY <1>2
  <2> HIDE DEF f
  <2>4. ChannelOf(f) = (f - 2407) \div 5
    BY <2>2 DEF ChannelOf
  <2> QED
    BY <2>1, <2>2, <2>3, <2>4
<1>3. CASE c \in 32..177
  <2> DEFINE f == 5000 + c * 5
  <2>1. FreqOf(c) = f
    BY <1>3 DEF FreqOf
  <2>2. /\ f \in 5000..5899 /\ f \notin 2412..2472
        /\ f # 2484 /\ f # 5935 /\ f \notin 5955..7115
    BY <1>3
  <2>3. (f - 5000) \div 5 = c
    BY <1>3
  <2> HIDE DEF f
  <2>4. ChannelOf(f) = (f - 5000) \div 5
    BY <2>2 DEF ChannelOf
  <2> QED
    BY <2>1, <2>2, <2>3, <2>4
<1>4. c = 14 \/ c \in 1..13 \/ c \in 32..177
  BY DEF FreqOf
<1> QED
  BY <1>1, <1>2, <1>3, <1>4

LEMMA ChannelOfNat ==
  ASSUME NEW f \in Nat
  PROVE  ChannelOf(f) \in Nat
<1>1. \A n \in Nat : n \div 5 \in Nat
  OBVIOUS
<1>2. f \in 2412..2472 => f - 2407 \in Nat
  OBVIOUS
<1>3. f \in 5955..7115 => f - 5950 \in Nat
  OBVIOUS
<1>4. f \in 5000..5899 => f - 5000 \in Nat
  OBVIOUS
<1>5. f \in 4910..4999 => f - 4000 \in Nat
  OBVIOUS
<1> QED
  BY <1>1, <1>2, <1>3, <1>4, <1>5 DEF ChannelOf

\* A row of the log says one place: its channel is that of its frequency, and its
\* band the one it was heard in; an AP that says where it is is believed if it was
\* heard in that band (MonitorScanner._resolve_channel).
THEOREM ResolveAgrees ==
  ASSUME NEW rx \in Nat, NEW ie \in Nat
  PROVE  LET place == Resolve(rx, ie)
         IN  /\ place.frequency \in Nat /\ place.channel \in Nat
             /\ place.channel = ChannelOf(place.frequency)
             /\ rx # 0 => BandOf(place.frequency) = BandOf(rx)
             /\ FreqOf(ie) # 0 /\ (rx = 0 \/ BandOf(rx) = BandOf(FreqOf(ie)))
                  => place.frequency = FreqOf(ie)
<1>1. CASE FreqOf(ie) # 0 /\ (rx = 0 \/ BandOf(rx) = BandOf(FreqOf(ie)))
  <2>1. Resolve(rx, ie) = [frequency |-> FreqOf(ie), channel |-> ie]
    BY <1>1 DEF Resolve
  <2>2. FreqOf(ie) \in Nat /\ ChannelOf(FreqOf(ie)) = ie
    BY <1>1, ChannelOfFreqOf
  <2> QED
    BY <1>1, <2>1, <2>2
<1>2. CASE ~(FreqOf(ie) # 0 /\ (rx = 0 \/ BandOf(rx) = BandOf(FreqOf(ie))))
  <2>1. Resolve(rx, ie) = [frequency |-> rx, channel |-> ChannelOf(rx)]
    BY <1>2 DEF Resolve
  <2> QED
    BY <1>2, <2>1, ChannelOfNat
<1> QED
  BY <1>1, <1>2

-------------------------------------------------------------------------------
(* MonitorCapture. *)

\* The clock goes on, or was set back.
Clock ==
  ~setBack => (\A b \in DOMAIN info : info[b].at <= now) /\ (\A a \in Aps : movedAt[a] <= now)

\* What is known of an AP that says where it is is where it is, or was read before
\* it moved.
CacheIsFresh ==
  ~setBack /\ (radiotap \/ broken = 0) =>
    \A a \in Aps \cap DOMAIN info :
      a \notin silent => info[a].channel = ChannelOf(tuned[a]) \/ info[a].at <= movedAt[a]

ToldIsKnown == told \subseteq DOMAIN info

CaptureInv ==
  /\ CaptureTypeOK /\ NameRemembered /\ NoGhosts /\ PlaceAgrees /\ PlaceIsFresh
  /\ Clock /\ CacheIsFresh /\ ToldIsKnown

\* A frame that may be heard, whole or broken.
Frame(f) ==
  \/ \E a \in Aps : f \in GoodFrames(a)
  \/ f \in BrokenFrames

LEMMA BrokenFacts ==
  ASSUME NEW f \in BrokenFrames
  PROVE  /\ f.bssid \in Bssids /\ f.ssid = Ghost /\ f.channel = 0 /\ f.rx = 0
         /\ f.signal \in Signals /\ f.damaged = TRUE
BY DEF BrokenFrames

LEMMA GoodFacts ==
  ASSUME CaptureTypeOK, NEW a \in Aps, NEW f \in GoodFrames(a)
  PROVE  /\ f.bssid = a /\ f.ssid \in {a, Hidden} /\ f.channel = Element(a)
         /\ f.rx \in RxOf(a) /\ f.signal \in Signals /\ f.damaged = FALSE
         /\ f.channel \in Nat /\ f.rx \in Nat
<1>1. /\ f.bssid = a /\ f.ssid \in {a, Hidden} /\ f.channel = Element(a)
      /\ f.rx \in RxOf(a) /\ f.signal \in Signals /\ f.damaged = FALSE
  BY DEF GoodFrames
<1>2. tuned[a] \in Nat
  BY CaptureAssumption DEF CaptureAssumption, CaptureTypeOK
<1>3. Element(a) \in Nat
  BY <1>2, ChannelOfNat DEF Element
<1>4. RxOf(a) \subseteq Nat
  <2>1. Freqs \subseteq Nat
    BY CaptureAssumption DEF CaptureAssumption
  <2>2. radiotap => RxOf(a) \subseteq Freqs
    BY DEF RxOf
  <2>3. ~radiotap => RxOf(a) \subseteq Nat
    BY DEF RxOf
  <2> QED
    BY <2>1, <2>2, <2>3
<1> QED
  BY <1>1, <1>3, <1>4

LEMMA FrameFacts ==
  ASSUME CaptureTypeOK, NEW f, Frame(f)
  PROVE  /\ f.bssid \in Bssids /\ f.ssid \in Names /\ f.channel \in Nat /\ f.rx \in Nat
         /\ f.signal \in Signals
<1>1. CASE f \in BrokenFrames
  <2>1. /\ f.bssid \in Bssids /\ f.ssid = Ghost /\ f.channel = 0 /\ f.rx = 0
        /\ f.signal \in Signals
    BY <1>1, BrokenFacts
  <2> QED
    BY <2>1 DEF Names
<1>2. ASSUME NEW a \in Aps, f \in GoodFrames(a)
      PROVE  f.bssid \in Bssids /\ f.ssid \in Names /\ f.channel \in Nat /\ f.rx \in Nat
             /\ f.signal \in Signals
  <2>1. f.bssid = a /\ f.ssid \in {a, Hidden}
    BY <1>2, GoodFacts
  <2>2. f.channel \in Nat /\ f.rx \in Nat /\ f.signal \in Signals
    BY <1>2, GoodFacts
  <2> QED
    BY <2>1, <2>2 DEF Bssids, Names
<1> QED
  BY <1>1, <1>2 DEF Frame

\* What a frame makes known of an AP: what was known, or what the frame says, the
\* name apart, which is kept.
LEMMA KnownFacts ==
  ASSUME CaptureInv, NEW f, Frame(f)
  PROVE  LET cached == f.bssid \in DOMAIN info
         IN  /\ Known(f) \in Info
             /\ f.bssid \in told \/ f.ssid # Hidden => Known(f).ssid # Hidden
             /\ Known(f).ssid = f.ssid \/ (cached /\ Known(f).ssid = info[f.bssid].ssid)
             /\ \/ cached /\ Known(f) = info[f.bssid] /\ now - info[f.bssid].at <= IeRefresh
                \/ Known(f).channel = f.channel /\ Known(f).at = now
<1> DEFINE b == f.bssid
           cached == b \in DOMAIN info
           keep == cached /\ now - info[b].at <= IeRefresh /\ info[b].ssid # Hidden
           name == IF f.ssid = Hidden /\ cached THEN info[b].ssid ELSE f.ssid
<1>1. CaptureTypeOK /\ NameRemembered /\ ToldIsKnown
  BY DEF CaptureInv
<1>2. f.ssid \in Names /\ f.channel \in Nat
  BY <1>1, FrameFacts
<1>3. now \in Int
  <2>1. now \in 0..MaxTime
    BY <1>1 DEF CaptureTypeOK
  <2> QED
    BY <2>1
<1>4. cached => info[b] \in Info
  BY <1>1 DEF CaptureTypeOK
<1>5. cached => info[b].ssid \in Names
  BY <1>4 DEF Info
<1>6. b \in told => cached /\ info[b].ssid # Hidden
  BY <1>1 DEF NameRemembered, ToldIsKnown
<1>7. CASE keep
  <2>1. Known(f) = info[b]
    BY <1>7 DEF Known
  <2> QED
    BY <1>4, <1>6, <1>7, <2>1
<1>8. CASE ~keep
  <2>1. Known(f) = [ssid |-> name, channel |-> f.channel, at |-> now]
    BY <1>8 DEF Known
  <2>2. name \in Names
    BY <1>2, <1>5
  <2> HIDE DEF name
  <2>3. Known(f) \in Info
    BY <1>2, <1>3, <2>1, <2>2 DEF Info
  <2>4. Known(f).ssid = name /\ Known(f).channel = f.channel /\ Known(f).at = now
    BY <2>1
  <2>5. b \in told \/ f.ssid # Hidden => name # Hidden
    BY <1>6 DEF name
  <2>6. name = f.ssid \/ (cached /\ name = info[b].ssid)
    BY DEF name
  <2> QED
    BY <2>3, <2>4, <2>5, <2>6
<1> QED
  BY <1>7, <1>8

\* What the invariant says of the entry of one AP.
LEMMA CaptureTypes ==
  ASSUME CaptureTypeOK
  PROVE  /\ now \in Int /\ \A a \in Aps : tuned[a] \in Nat /\ movedAt[a] \in Int
         /\ \A b \in DOMAIN info : info[b].at \in Int /\ info[b].ssid \in Names
                                   /\ info[b].channel \in Nat
<1>1. now \in 0..MaxTime /\ tuned \in [Aps -> Freqs] /\ movedAt \in [Aps -> Int]
  BY DEF CaptureTypeOK
<1>2. \A b \in DOMAIN info : info[b] \in Info
  BY DEF CaptureTypeOK
<1>3. Freqs \subseteq Nat
  BY CaptureAssumption DEF CaptureAssumption
<1>4. now \in Int
  BY <1>1
<1>5. \A a \in Aps : tuned[a] \in Nat
  BY <1>1, <1>3
<1>6. \A a \in Aps : movedAt[a] \in Int
  BY <1>1
<1>7. \A b \in DOMAIN info : info[b].at \in Int /\ info[b].ssid \in Names
                                   /\ info[b].channel \in Nat
  BY <1>2 DEF Info
<1> QED
  BY <1>4, <1>5, <1>6, <1>7

\* The observation that a frame adds to the window.
ObsOf(f) ==
  LET place == Resolve(f.rx, Known(f).channel)
  IN  [ssid |-> Known(f).ssid, channel |-> place.channel,
       frequency |-> place.frequency, rssi |-> f.signal,
       tuned |-> IF f.bssid \in Aps THEN tuned[f.bssid] ELSE 0,
       settled |-> IF f.bssid \in Aps THEN now - movedAt[f.bssid] ELSE 0,
       named |-> f.bssid \in told \/ f.ssid # Hidden]

LEMMA KnownAt ==
  ASSUME CaptureInv, NEW f, Frame(f)
  PROVE  Known(f).channel \in Nat /\ Known(f).ssid \in Names /\ Known(f).at \in Int
<1>1. Known(f) \in Info
  BY KnownFacts
<1> QED
  BY <1>1 DEF Info

LEMMA ObsTyped ==
  ASSUME CaptureInv, NEW f, Frame(f)
  PROVE  ObsOf(f) \in Obs /\ ObsOf(f).channel = ChannelOf(ObsOf(f).frequency)
<1> DEFINE place == Resolve(f.rx, Known(f).channel)
           tun == IF f.bssid \in Aps THEN tuned[f.bssid] ELSE 0
           set == IF f.bssid \in Aps THEN now - movedAt[f.bssid] ELSE 0
           nam == f.bssid \in told \/ f.ssid # Hidden
<1>1. CaptureTypeOK
  BY DEF CaptureInv
<1>2. f.rx \in Nat /\ f.signal \in Signals
  BY <1>1, FrameFacts
<1>3. Known(f).channel \in Nat /\ Known(f).ssid \in Names
  BY KnownAt
<1>4. /\ place.frequency \in Nat /\ place.channel \in Nat
      /\ place.channel = ChannelOf(place.frequency)
  BY <1>2, <1>3, ResolveAgrees
<1>5. tun \in Nat
  BY <1>1, CaptureTypes
<1>6. set \in Int
  BY <1>1, CaptureTypes
<1>7. nam \in BOOLEAN
  OBVIOUS
<1>8. ObsOf(f) = [ssid |-> Known(f).ssid, channel |-> place.channel,
                  frequency |-> place.frequency, rssi |-> f.signal,
                  tuned |-> tun, settled |-> set, named |-> nam]
  BY DEF ObsOf
<1> HIDE DEF place, tun, set, nam
<1>9. ObsOf(f) \in Obs
  BY <1>2, <1>3, <1>4, <1>5, <1>6, <1>7, <1>8 DEF Obs
<1>10. ObsOf(f).channel = place.channel /\ ObsOf(f).frequency = place.frequency
  BY <1>8
<1> QED
  BY <1>4, <1>9, <1>10

LEMMA ObsFields ==
  ASSUME NEW f
  PROVE  LET place == Resolve(f.rx, Known(f).channel)
         IN  /\ ObsOf(f).ssid = Known(f).ssid
             /\ ObsOf(f).channel = place.channel /\ ObsOf(f).frequency = place.frequency
             /\ ObsOf(f).named = (f.bssid \in told \/ f.ssid # Hidden)
             /\ f.bssid \in Aps =>
                  /\ ObsOf(f).tuned = tuned[f.bssid]
                  /\ ObsOf(f).settled = now - movedAt[f.bssid]
BY DEF ObsOf

\* Where a frame of an AP says it is.
LEMMA ObsPlaced ==
  ASSUME CaptureInv, NEW a \in Aps, NEW f \in GoodFrames(a)
  PROVE  /\ radiotap => BandOf(ObsOf(f).frequency) = BandOf(ObsOf(f).tuned)
         /\ /\ ~setBack /\ (radiotap \/ broken = 0)
            /\ a \notin silent /\ BandOf(ObsOf(f).tuned) # 6 /\ ObsOf(f).settled > IeRefresh
            => ObsOf(f).frequency = ObsOf(f).tuned
<1> DEFINE place == Resolve(f.rx, Known(f).channel)
<1>1. CaptureTypeOK /\ CacheIsFresh /\ Frame(f)
  BY DEF CaptureInv, Frame
<1>2. f.bssid = a /\ f.channel = Element(a) /\ f.rx \in RxOf(a)
  BY <1>1, GoodFacts
<1>3. f.rx \in Nat /\ Known(f).channel \in Nat
  BY <1>1, FrameFacts, KnownAt
<1>4. /\ ObsOf(f).channel = place.channel /\ ObsOf(f).frequency = place.frequency
      /\ ObsOf(f).tuned = tuned[a] /\ ObsOf(f).settled = now - movedAt[a]
  BY <1>2, ObsFields
<1>5. /\ place.frequency \in Nat /\ place.channel = ChannelOf(place.frequency)
      /\ f.rx # 0 => BandOf(place.frequency) = BandOf(f.rx)
      /\ FreqOf(Known(f).channel) # 0
         /\ (f.rx = 0 \/ BandOf(f.rx) = BandOf(FreqOf(Known(f).channel)))
         => place.frequency = FreqOf(Known(f).channel)
  BY <1>3, ResolveAgrees
<1> HIDE DEF place
<1>6. radiotap => f.rx # 0 /\ BandOf(f.rx) = BandOf(tuned[a])
  BY <1>2, CaptureAssumption DEF CaptureAssumption, RxOf
<1>7. ~radiotap => f.rx = 0
  BY <1>2 DEF RxOf
<1>8. ASSUME ~setBack, radiotap \/ broken = 0, a \notin silent, BandOf(tuned[a]) # 6,
             now - movedAt[a] > IeRefresh
      PROVE  place.frequency = tuned[a]
  <2>1. Known(f).channel = ChannelOf(tuned[a])
    <3>1. CASE Known(f).channel = f.channel /\ Known(f).at = now
      BY <1>2, <1>8, <3>1 DEF Element
    <3>2. CASE a \in DOMAIN info /\ Known(f) = info[a] /\ now - info[a].at <= IeRefresh
      <4>1. info[a].channel = ChannelOf(tuned[a]) \/ info[a].at <= movedAt[a]
        BY <1>1, <1>8, <3>2 DEF CacheIsFresh
      <4>2. now \in Int /\ info[a].at \in Int /\ movedAt[a] \in Int /\ IeRefresh \in Int
        <5>1. IeRefresh \in Nat
          BY CaptureAssumption DEF CaptureAssumption
        <5> QED
          BY <1>1, <3>2, <5>1, CaptureTypes
      <4>3. ~(info[a].at <= movedAt[a])
        BY <1>8, <3>2, <4>2
      <4> QED
        BY <3>2, <4>1, <4>3
    <3> QED
      BY <1>1, <1>2, <3>1, <3>2, KnownFacts
  <2>2. tuned[a] \in Freqs
    BY <1>1 DEF CaptureTypeOK
  <2>3. FreqOf(Known(f).channel) = tuned[a]
    BY <1>8, <2>1, <2>2, FreqsAreChannels DEF FreqsAreChannels
  <2>4. tuned[a] # 0
    BY <2>2, CaptureAssumption DEF CaptureAssumption
  <2> QED
    BY <1>5, <1>6, <1>7, <2>3, <2>4
<1> QED
  BY <1>4, <1>5, <1>6, <1>8

\* What a frame that is not dropped does to the state.
LEMMA HandleShape ==
  ASSUME NEW f, Handle(f), ~Dropped(f)
  PROVE  /\ DOMAIN info' = DOMAIN info \cup {f.bssid}
         /\ info'[f.bssid] = Known(f)
         /\ \A b \in DOMAIN info : b # f.bssid => info'[b] = info[b]
         /\ DOMAIN pending' \subseteq DOMAIN pending \cup {f.bssid}
         /\ \A b \in DOMAIN pending' :
              \/ b \in DOMAIN pending /\ pending'[b] = pending[b]
              \/ b = f.bssid /\ pending'[b] = ObsOf(f)
         /\ told' = IF f.ssid = Hidden THEN told ELSE told \cup {f.bssid}
<1> DEFINE b == f.bssid
<1>1. info' = Put(info, b, Known(f))
  BY DEF Handle
<1>2. \/ pending' = pending
      \/ pending' = Put(pending, b, ObsOf(f))
  BY DEF Handle, ObsOf
<1>3. told' = IF f.ssid = Hidden THEN told ELSE told \cup {b}
  BY DEF Handle
<1> HIDE DEF b
<1>4. /\ DOMAIN info' = DOMAIN info \cup {b} /\ info'[b] = Known(f)
      /\ \A x \in DOMAIN info : x # b => info'[x] = info[x]
  BY <1>1 DEF Put
<1>5. DOMAIN pending' \subseteq DOMAIN pending \cup {b}
  BY <1>2 DEF Put
<1>6. \A x \in DOMAIN pending' :
        \/ x \in DOMAIN pending /\ pending'[x] = pending[x]
        \/ x = b /\ pending'[x] = ObsOf(f)
  BY <1>2 DEF Put
<1> QED
  BY <1>3, <1>4, <1>5, <1>6 DEF b

\* A frame that is used, whole or broken, keeps the types, the names and the clock.
LEMMA HandleKeeps ==
  ASSUME CaptureInv, NEW f, Frame(f), Handle(f), ~Dropped(f), UNCHANGED <<radiotap, air>>,
         broken' \in 0..MaxBad
  PROVE  /\ CaptureTypeOK' /\ NameRemembered' /\ Clock' /\ ToldIsKnown'
         /\ \A b \in DOMAIN pending' : pending'[b].channel = ChannelOf(pending'[b].frequency)
<1> DEFINE b == f.bssid
<1>1. CaptureTypeOK /\ NameRemembered /\ Clock /\ ToldIsKnown /\ PlaceAgrees
  BY DEF CaptureInv
<1>2. b \in Bssids
  BY <1>1, FrameFacts
<1>3. /\ DOMAIN info' = DOMAIN info \cup {b} /\ info'[b] = Known(f)
      /\ \A x \in DOMAIN info : x # b => info'[x] = info[x]
      /\ DOMAIN pending' \subseteq DOMAIN pending \cup {b}
      /\ \A x \in DOMAIN pending' :
           \/ x \in DOMAIN pending /\ pending'[x] = pending[x]
           \/ x = b /\ pending'[x] = ObsOf(f)
      /\ told' = IF f.ssid = Hidden THEN told ELSE told \cup {b}
  BY HandleShape
<1>4. Known(f) \in Info /\ (b \in told \/ f.ssid # Hidden => Known(f).ssid # Hidden)
  BY KnownFacts
<1>5. ObsOf(f) \in Obs /\ ObsOf(f).channel = ChannelOf(ObsOf(f).frequency)
  BY ObsTyped
<1>6. ObsOf(f).ssid = Known(f).ssid /\ ObsOf(f).named = (b \in told \/ f.ssid # Hidden)
  BY ObsFields
<1>7. /\ radiotap' = radiotap /\ tuned' = tuned /\ silent' = silent /\ now' = now
      /\ movedAt' = movedAt /\ setBack' = setBack
  BY DEF air
<1>8. /\ DOMAIN info \subseteq Bssids /\ \A x \in DOMAIN info : info[x] \in Info
      /\ DOMAIN pending \subseteq DOMAIN info
      /\ \A x \in DOMAIN pending : pending[x] \in Obs
      /\ told \subseteq Bssids /\ told \subseteq DOMAIN info
  BY <1>1 DEF CaptureTypeOK, ToldIsKnown
<1> HIDE DEF b
<1>9. CaptureTypeOK'
  <2>1. DOMAIN info' \subseteq Bssids /\ \A x \in DOMAIN info' : info'[x] \in Info
    BY <1>2, <1>3, <1>4, <1>8
  <2>2. DOMAIN pending' \subseteq DOMAIN info'
    BY <1>3, <1>8
  <2>3. \A x \in DOMAIN pending' : pending'[x] \in Obs
    BY <1>3, <1>5, <1>8
  <2>4. told' \subseteq Bssids
    BY <1>2, <1>3, <1>8
  <2>5. /\ radiotap \in BOOLEAN /\ tuned \in [Aps -> Freqs] /\ silent \subseteq Aps
        /\ now \in 0..MaxTime /\ movedAt \in [Aps -> Int] /\ setBack \in BOOLEAN
    BY <1>1 DEF CaptureTypeOK
  <2> QED
    BY <1>7, <2>1, <2>2, <2>3, <2>4, <2>5 DEF CaptureTypeOK, Bssids, Info, Obs, Names, Hidden
<1>10. NameRemembered'
  <2>1. ASSUME NEW x \in told' PROVE info'[x].ssid # ""
    BY <1>1, <1>3, <1>4, <1>8 DEF NameRemembered, Hidden
  <2>2. ASSUME NEW x \in DOMAIN pending', pending'[x].named PROVE pending'[x].ssid # ""
    <3>1. CASE x \in DOMAIN pending /\ pending'[x] = pending[x]
      BY <1>1, <2>2, <3>1 DEF NameRemembered, Hidden
    <3>2. CASE x = b /\ pending'[x] = ObsOf(f)
      BY <1>4, <1>6, <2>2, <3>2 DEF Hidden
    <3> QED
      BY <1>3, <3>1, <3>2
  <2> QED
    BY <2>1, <2>2 DEF NameRemembered, Hidden
<1>11. Clock'
  <2>1. Known(f).at <= now \/ setBack
    <3>1. now \in Int
      BY <1>1, CaptureTypes
    <3>2. \/ Known(f).at = now
          \/ b \in DOMAIN info /\ Known(f) = info[b]
      BY KnownFacts DEF b
    <3> QED
      BY <1>1, <3>1, <3>2 DEF Clock
  <2> QED
    BY <1>1, <1>3, <1>7, <2>1 DEF Clock
<1>12. ToldIsKnown'
  BY <1>3, <1>8 DEF ToldIsKnown
<1>13. ASSUME NEW x \in DOMAIN pending'
       PROVE  pending'[x].channel = ChannelOf(pending'[x].frequency)
  BY <1>1, <1>3, <1>5, <1>13 DEF PlaceAgrees
<1> QED
  BY <1>9, <1>10, <1>11, <1>12, <1>13

LEMMA HearKeeps ==
  ASSUME CaptureInv, NEW a \in Aps, Hear(a)
  PROVE  CaptureInv'
<1>1. PICK f \in GoodFrames(a) : Handle(f)
  BY DEF Hear
<1>2. UNCHANGED <<radiotap, broken, air>>
  BY DEF Hear
<1>3. CaptureTypeOK /\ NoGhosts /\ PlaceAgrees /\ PlaceIsFresh /\ CacheIsFresh /\ Frame(f)
  BY DEF CaptureInv, Frame
<1>4. /\ f.bssid = a /\ f.ssid \in {a, Hidden} /\ f.channel = Element(a) /\ f.damaged = FALSE
  BY <1>3, GoodFacts
<1>5. ~Dropped(f)
  BY <1>4 DEF Dropped
<1>6. /\ CaptureTypeOK' /\ NameRemembered' /\ Clock' /\ ToldIsKnown'
      /\ \A b \in DOMAIN pending' : pending'[b].channel = ChannelOf(pending'[b].frequency)
  BY <1>1, <1>2, <1>3, <1>5, HandleKeeps DEF CaptureTypeOK
<1>7. /\ DOMAIN info' = DOMAIN info \cup {a} /\ info'[a] = Known(f)
      /\ \A x \in DOMAIN info : x # a => info'[x] = info[x]
      /\ \A x \in DOMAIN pending' :
           \/ x \in DOMAIN pending /\ pending'[x] = pending[x]
           \/ x = a /\ pending'[x] = ObsOf(f)
  BY <1>1, <1>4, <1>5, HandleShape
<1>8. /\ radiotap' = radiotap /\ broken' = broken /\ tuned' = tuned /\ silent' = silent
      /\ now' = now /\ movedAt' = movedAt /\ setBack' = setBack
  BY <1>2 DEF air
<1>9. NoGhosts'
  <2>1. Known(f).ssid \in {a, Hidden} \/ ~radiotap
    BY <1>3, <1>4, KnownFacts DEF NoGhosts
  <2>2. a # Ghost
    BY CaptureAssumption DEF CaptureAssumption
  <2> QED
    BY <1>3, <1>7, <1>8, <2>1, <2>2 DEF NoGhosts, Hidden
<1>10. PlaceAgrees'
  <2>1. radiotap => BandOf(ObsOf(f).frequency) = BandOf(ObsOf(f).tuned)
    BY ObsPlaced
  <2>2. \A b \in DOMAIN pending' :
          radiotap => BandOf(pending'[b].frequency) = BandOf(pending'[b].tuned)
    BY <1>3, <1>7, <2>1 DEF PlaceAgrees
  <2> QED
    BY <1>6, <1>8, <2>2 DEF PlaceAgrees
<1>11. PlaceIsFresh'
  <2> SUFFICES ASSUME ~setBack, radiotap \/ broken = 0, NEW x \in Aps \cap DOMAIN pending',
                      x \notin silent, BandOf(pending'[x].tuned) # 6,
                      pending'[x].settled > IeRefresh
               PROVE  pending'[x].frequency = pending'[x].tuned
    BY <1>8 DEF PlaceIsFresh
  <2>1. CASE x \in DOMAIN pending /\ pending'[x] = pending[x]
    BY <1>3, <2>1 DEF PlaceIsFresh
  <2>2. CASE x = a /\ pending'[x] = ObsOf(f)
    BY <2>2, ObsPlaced
  <2> QED
    BY <1>7, <2>1, <2>2
<1>12. CacheIsFresh'
  <2> SUFFICES ASSUME ~setBack, radiotap \/ broken = 0, NEW x \in Aps \cap DOMAIN info',
                      x \notin silent
               PROVE  info'[x].channel = ChannelOf(tuned[x]) \/ info'[x].at <= movedAt[x]
    BY <1>8 DEF CacheIsFresh
  <2>1. CASE x # a
    BY <1>3, <1>7, <2>1 DEF CacheIsFresh
  <2>2. CASE x = a
    <3>1. \/ Known(f).channel = Element(a)
          \/ a \in DOMAIN info /\ Known(f) = info[a]
      BY <1>3, <1>4, KnownFacts
    <3>2. CASE Known(f).channel = Element(a)
      BY <1>7, <2>2, <3>2 DEF Element
    <3>3. CASE a \in DOMAIN info /\ Known(f) = info[a]
      BY <1>3, <1>7, <2>2, <3>3 DEF CacheIsFresh
    <3> QED
      BY <3>1, <3>2, <3>3
  <2> QED
    BY <2>1, <2>2
<1> QED
  BY <1>6, <1>9, <1>10, <1>11, <1>12 DEF CaptureInv

\* A broken frame is dropped by a capture that can tell; one that cannot has heard
\* one from then on.
LEMMA HearBrokenKeeps ==
  ASSUME CaptureInv, HearBroken
  PROVE  CaptureInv'
<1>1. PICK f \in BrokenFrames : Handle(f)
  BY DEF HearBroken
<1>2. /\ broken < MaxBad /\ broken' = broken + 1 /\ UNCHANGED <<radiotap, air>>
  BY DEF HearBroken
<1>3. CaptureTypeOK /\ Frame(f) /\ broken \in 0..MaxBad
  BY DEF CaptureInv, CaptureTypeOK, Frame
<1>4. MaxBad \in Nat
  BY CaptureAssumption DEF CaptureAssumption
<1>5. broken' \in 0..MaxBad /\ broken' # 0
  BY <1>2, <1>3, <1>4
<1>6. /\ radiotap' = radiotap /\ tuned' = tuned /\ silent' = silent
      /\ now' = now /\ movedAt' = movedAt /\ setBack' = setBack
  BY <1>2 DEF air
<1>7. f.damaged = TRUE
  BY BrokenFacts
<1>8. CASE Dropped(f)
  <2>1. UNCHANGED <<info, pending, told>> /\ radiotap
    BY <1>1, <1>8 DEF Handle, Dropped
  <2>2. CaptureTypeOK'
    BY <1>3, <1>5, <1>6, <2>1 DEF CaptureTypeOK, Bssids, Info, Obs, Names, Hidden
  <2>3. NameRemembered' /\ NoGhosts' /\ PlaceAgrees' /\ PlaceIsFresh'
    BY <1>6, <2>1 DEF CaptureInv, NameRemembered, NoGhosts, PlaceAgrees, PlaceIsFresh
  <2>4. Clock' /\ CacheIsFresh' /\ ToldIsKnown'
    BY <1>6, <2>1 DEF CaptureInv, Clock, CacheIsFresh, ToldIsKnown
  <2> QED
    BY <2>2, <2>3, <2>4 DEF CaptureInv
<1>9. CASE ~Dropped(f)
  <2>1. ~radiotap
    BY <1>7, <1>9 DEF Dropped
  <2>2. /\ CaptureTypeOK' /\ NameRemembered' /\ Clock' /\ ToldIsKnown'
        /\ \A b \in DOMAIN pending' : pending'[b].channel = ChannelOf(pending'[b].frequency)
    BY <1>1, <1>2, <1>3, <1>5, <1>9, HandleKeeps
  <2>3. NoGhosts' /\ PlaceAgrees' /\ PlaceIsFresh' /\ CacheIsFresh'
    BY <1>5, <1>6, <2>1, <2>2 DEF NoGhosts, PlaceAgrees, PlaceIsFresh, CacheIsFresh
  <2> QED
    BY <2>2, <2>3 DEF CaptureInv
<1> QED
  BY <1>8, <1>9

LEMMA FlushKeeps ==
  ASSUME CaptureInv, Flush
  PROVE  CaptureInv'
<1>1. DOMAIN pending' = {} /\ UNCHANGED <<radiotap, info, broken, told, air>>
  BY DEF Flush, Nothing
<1>2. /\ tuned' = tuned /\ silent' = silent /\ now' = now /\ movedAt' = movedAt
      /\ setBack' = setBack /\ radiotap' = radiotap /\ broken' = broken /\ told' = told
      /\ info' = info
  BY <1>1 DEF air
<1>3. CaptureTypeOK'
  BY <1>1, <1>2 DEF CaptureInv, CaptureTypeOK, Bssids, Info, Obs, Names, Hidden
<1>4. NameRemembered' /\ NoGhosts' /\ PlaceAgrees' /\ PlaceIsFresh'
  BY <1>1, <1>2 DEF CaptureInv, NameRemembered, NoGhosts, PlaceAgrees, PlaceIsFresh
<1>5. Clock' /\ CacheIsFresh' /\ ToldIsKnown'
  BY <1>2 DEF CaptureInv, Clock, CacheIsFresh, ToldIsKnown
<1> QED
  BY <1>3, <1>4, <1>5 DEF CaptureInv

\* What was known of an AP that moves was read before it moved.
LEMMA MoveKeeps ==
  ASSUME CaptureInv, NEW a \in Aps, Move(a)
  PROVE  CaptureInv'
<1>1. PICK f \in Freqs : tuned' = [tuned EXCEPT ![a] = f]
  BY DEF Move
<1>2. /\ movedAt' = [movedAt EXCEPT ![a] = now]
      /\ radiotap' = radiotap /\ info' = info /\ pending' = pending /\ broken' = broken
      /\ told' = told /\ silent' = silent /\ now' = now /\ setBack' = setBack
  BY DEF Move
<1>3. CaptureTypeOK /\ Clock /\ CacheIsFresh
  BY DEF CaptureInv
<1>4. tuned \in [Aps -> Freqs] /\ movedAt \in [Aps -> Int] /\ now \in Int
  BY <1>3, CaptureTypes DEF CaptureTypeOK
<1>5. tuned' \in [Aps -> Freqs] /\ movedAt' \in [Aps -> Int]
  BY <1>1, <1>2, <1>4
<1>6. CaptureTypeOK'
  BY <1>2, <1>3, <1>5 DEF CaptureTypeOK, Bssids, Info, Obs, Names, Hidden
<1>7. NameRemembered' /\ NoGhosts' /\ PlaceAgrees' /\ PlaceIsFresh' /\ ToldIsKnown'
  BY <1>2 DEF CaptureInv, NameRemembered, NoGhosts, PlaceAgrees, PlaceIsFresh, ToldIsKnown
<1>8. Clock'
  <2>1. \A x \in Aps : movedAt'[x] = now \/ movedAt'[x] = movedAt[x]
    BY <1>2, <1>4
  <2> QED
    BY <1>2, <1>3, <1>4, <2>1 DEF Clock
<1>9. CacheIsFresh'
  <2>1. \A x \in Aps : x # a => tuned'[x] = tuned[x] /\ movedAt'[x] = movedAt[x]
    BY <1>1, <1>2, <1>4
  <2>2. movedAt'[a] = now
    BY <1>2, <1>4
  <2>3. ~setBack => \A b \in DOMAIN info : info[b].at <= now
    BY <1>3 DEF Clock
  <2> QED
    BY <1>2, <1>3, <2>1, <2>2, <2>3 DEF CacheIsFresh
<1> QED
  BY <1>6, <1>7, <1>8, <1>9 DEF CaptureInv

LEMMA TickKeeps ==
  ASSUME CaptureInv, Tick
  PROVE  CaptureInv'
<1>1. /\ now < MaxTime /\ now' = now + 1 /\ radiotap' = radiotap /\ info' = info
      /\ pending' = pending /\ broken' = broken /\ told' = told /\ tuned' = tuned
      /\ silent' = silent /\ movedAt' = movedAt /\ setBack' = setBack
  BY DEF Tick
<1>2. CaptureTypeOK /\ Clock
  BY DEF CaptureInv
<1>3. MaxTime \in Nat
  BY CaptureAssumption DEF CaptureAssumption
<1>4. now \in 0..MaxTime
  BY <1>2 DEF CaptureTypeOK
<1>5. now' \in 0..MaxTime
  BY <1>1, <1>3, <1>4
<1>6. CaptureTypeOK'
  BY <1>1, <1>2, <1>5 DEF CaptureTypeOK, Bssids, Info, Obs, Names, Hidden
<1>7. NameRemembered' /\ NoGhosts' /\ PlaceAgrees' /\ PlaceIsFresh' /\ ToldIsKnown' /\ CacheIsFresh'
  BY <1>1 DEF CaptureInv, NameRemembered, NoGhosts, PlaceAgrees, PlaceIsFresh, ToldIsKnown,
              CacheIsFresh
<1>8. Clock'
  <2>1. /\ now \in Int
        /\ \A a \in Aps : movedAt[a] \in Int
        /\ \A b \in DOMAIN info : info[b].at \in Int
    BY <1>2, CaptureTypes
  <2> QED
    BY <1>1, <1>2, <2>1 DEF Clock
<1> QED
  BY <1>6, <1>7, <1>8 DEF CaptureInv

LEMMA SetBackKeeps ==
  ASSUME CaptureInv, SetBack
  PROVE  CaptureInv'
<1>1. /\ now' \in 0..now - 1 /\ setBack' = TRUE /\ radiotap' = radiotap /\ info' = info
      /\ pending' = pending /\ broken' = broken /\ told' = told /\ tuned' = tuned
      /\ silent' = silent /\ movedAt' = movedAt
  BY DEF SetBack
<1>2. now \in 0..MaxTime
  BY DEF CaptureInv, CaptureTypeOK
<1>3. MaxTime \in Nat
  BY CaptureAssumption DEF CaptureAssumption
<1>4. now' \in 0..MaxTime
  BY <1>1, <1>2, <1>3
<1>5. CaptureTypeOK'
  BY <1>1, <1>4 DEF CaptureInv, CaptureTypeOK, Bssids, Info, Obs, Names, Hidden
<1>6. NameRemembered' /\ NoGhosts' /\ PlaceAgrees' /\ PlaceIsFresh' /\ ToldIsKnown'
  BY <1>1 DEF CaptureInv, NameRemembered, NoGhosts, PlaceAgrees, PlaceIsFresh, ToldIsKnown
<1>7. CacheIsFresh' /\ Clock'
  BY <1>1 DEF CacheIsFresh, Clock
<1> QED
  BY <1>5, <1>6, <1>7 DEF CaptureInv

LEMMA CaptureStart == CaptureInit => CaptureInv
<1> SUFFICES ASSUME CaptureInit
             PROVE  CaptureInv
  OBVIOUS
<1>1. DOMAIN info = {} /\ DOMAIN pending = {} /\ told = {} /\ now = 0 /\ broken = 0
  BY DEF CaptureInit, Nothing
<1>2. MaxTime \in Nat /\ MaxBad \in Nat
  BY CaptureAssumption DEF CaptureAssumption
<1>3. movedAt = [a \in Aps |-> -IeRefresh] /\ IeRefresh \in Nat
  BY CaptureAssumption DEF CaptureAssumption, CaptureInit
<1>4. movedAt \in [Aps -> Int] /\ \A a \in Aps : movedAt[a] <= 0
  BY <1>3
<1>5. CaptureTypeOK
  <2>1. now \in 0..MaxTime /\ broken \in 0..MaxBad
    BY <1>1, <1>2
  <2> QED
    BY <1>1, <1>4, <2>1 DEF CaptureInit, CaptureTypeOK
<1>6. NameRemembered /\ NoGhosts /\ PlaceAgrees /\ PlaceIsFresh /\ CacheIsFresh /\ ToldIsKnown
  BY <1>1 DEF NameRemembered, NoGhosts, PlaceAgrees, PlaceIsFresh, CacheIsFresh, ToldIsKnown
<1>7. Clock
  BY <1>1, <1>4 DEF Clock
<1> QED
  BY <1>5, <1>6, <1>7 DEF CaptureInv

LEMMA CaptureKeeps == CaptureInv /\ [CaptureNext]_captureVars => CaptureInv'
<1> SUFFICES ASSUME CaptureInv, [CaptureNext]_captureVars
             PROVE  CaptureInv'
  OBVIOUS
<1>1. CASE UNCHANGED captureVars
  BY <1>1 DEF captureVars, air, CaptureInv, CaptureTypeOK, NameRemembered, NoGhosts,
              PlaceAgrees, PlaceIsFresh, Clock, CacheIsFresh, ToldIsKnown, Bssids, Info, Obs,
              Names, Hidden
<1>2. CASE CaptureNext
  BY <1>2, HearKeeps, HearBrokenKeeps, FlushKeeps, MoveKeeps, TickKeeps, SetBackKeeps
     DEF CaptureNext
<1> QED
  BY <1>1, <1>2

-------------------------------------------------------------------------------
(* BleEvents. *)

\* Besides, the program knows which device the lines are about.
BleInv == DevicesDescribed /\ current = subject

LEMMA NoMacIsNone == NoMac \notin Macs /\ Rssis \subseteq Int /\ MaxAttr \in Nat
BY BleAssumption DEF BleAssumption

LEMMA NameIsText ==
  ASSUME BleTypeOK, NEW m
  PROVE  /\ NameOf(m) \in Text \cup {Unnamed}
         /\ m \in DOMAIN names => NameOf(m) # Unnamed
<1>1. CASE m \in DOMAIN names
  <2>1. NameOf(m) \in Text
    BY <1>1 DEF BleTypeOK, NameOf
  <2>2. NameOf(m).of \in Macs
    BY <2>1 DEF Text
  <2>3. Unnamed.of \notin Macs
    BY NoMacIsNone DEF Unnamed
  <2> QED
    BY <2>1, <2>2, <2>3
<1>2. CASE m \notin DOMAIN names
  BY <1>2 DEF NameOf
<1> QED
  BY <1>1, <1>2

\* The strongest of the signals, and a name as soon as there is one.
LEMMA SightingFacts ==
  ASSUME BleInv, NEW m \in Macs, NEW rssi \in Rssis
  PROVE  LET s == Sighting(m, rssi)
         IN  /\ s.rssi \in Rssis /\ s.name \in Text \cup {Unnamed}
             /\ s.rssi = IF m \in DOMAIN peak /\ peak[m] > rssi THEN peak[m] ELSE rssi
             /\ m \in DOMAIN names => s.name # Unnamed
<1>1. BleTypeOK /\ StrongestKept
  BY DEF BleInv, DevicesDescribed
<1>2. /\ NameOf(m) \in Text \cup {Unnamed} /\ (m \in DOMAIN names => NameOf(m) # Unnamed)
  BY <1>1, NameIsText
<1>3. DOMAIN peak = DOMAIN window
  BY <1>1 DEF BleTypeOK
<1>4. m \in DOMAIN window =>
        /\ window[m].rssi \in Rssis /\ window[m].name \in Text \cup {Unnamed}
        /\ window[m].rssi = peak[m]
  BY <1>1 DEF BleTypeOK, StrongestKept
<1>5. rssi \in Int /\ (m \in DOMAIN window => window[m].rssi \in Int)
  BY <1>4, NoMacIsNone
<1>6. CASE m \notin DOMAIN window \/ rssi > window[m].rssi
  <2>1. Sighting(m, rssi) = [name |-> NameOf(m), rssi |-> rssi]
    BY <1>6 DEF Sighting
  <2>2. ~(m \in DOMAIN peak /\ peak[m] > rssi)
    BY <1>3, <1>4, <1>5, <1>6
  <2> QED
    BY <1>2, <2>1, <2>2
<1>7. CASE m \in DOMAIN window /\ ~(rssi > window[m].rssi)
  <2>1. /\ Sighting(m, rssi).rssi = window[m].rssi
        /\ Sighting(m, rssi).name =
             IF window[m].name = Unnamed THEN NameOf(m) ELSE window[m].name
    <3>1. CASE window[m].name = Unnamed
      <4>1. Sighting(m, rssi) = [window[m] EXCEPT !.name = NameOf(m)]
        BY <1>7, <3>1 DEF Sighting
      <4> QED
        BY <3>1, <4>1
    <3>2. CASE window[m].name # Unnamed
      BY <1>7, <3>2 DEF Sighting
    <3> QED
      BY <3>1, <3>2
  <2>2. window[m].rssi = IF peak[m] > rssi THEN peak[m] ELSE rssi
    BY <1>4, <1>5, <1>7
  <2> QED
    BY <1>2, <1>3, <1>4, <1>7, <2>1, <2>2
<1> QED
  BY <1>6, <1>7

LEMMA LineFacts ==
  ASSUME BleInv, NEW mac \in Macs \cup {NoMac}, NEW found \in BOOLEAN, Line(mac, found)
  PROVE  /\ current' = About(mac) /\ subject' = About(mac) /\ Truly(mac) = About(mac)
         /\ About(mac) \in Macs \cup {NoMac} /\ (found => About(mac) \in Macs)
         /\ mac # NoMac => About(mac) = mac
<1>1. current = subject /\ current \in Macs \cup {NoMac}
  BY DEF BleInv, DevicesDescribed, BleTypeOK
<1>2. Truly(mac) = About(mac) /\ About(mac) \in Macs \cup {NoMac}
  BY <1>1 DEF Truly, About
<1>3. mac # NoMac => About(mac) = mac
  BY DEF About
<1> QED
  BY <1>2, <1>3 DEF Line

LEMMA RssiKeeps ==
  ASSUME BleInv, NEW mac \in Macs \cup {NoMac}, NEW rssi \in Rssis, Rssi(mac, rssi)
  PROVE  BleInv'
<1> DEFINE m == About(mac)
<1>1. BleTypeOK /\ StrongestKept /\ NamedWhenKnown /\ NameSticks /\ NameIsOwn
  BY DEF BleInv, DevicesDescribed
<1>2. m \in Macs /\ current' = m /\ subject' = m
  BY LineFacts DEF Rssi
<1>3. /\ window' = Put(window, m, Sighting(m, rssi))
      /\ peak' = Put(peak, m, IF m \in DOMAIN peak /\ peak[m] > rssi THEN peak[m] ELSE rssi)
      /\ known' = IF m \in DOMAIN names THEN known \cup {m} ELSE known \ {m}
      /\ names' = names /\ introduced' = introduced /\ leaked' = leaked /\ attrs' = attrs
  BY DEF Rssi
<1> HIDE DEF m
<1>4. PICK s : s = Sighting(m, rssi)
  OBVIOUS
<1>5. /\ s.rssi \in Rssis /\ s.name \in Text \cup {Unnamed}
      /\ s.rssi = IF m \in DOMAIN peak /\ peak[m] > rssi THEN peak[m] ELSE rssi
      /\ m \in DOMAIN names => s.name # Unnamed
  BY <1>2, <1>4, SightingFacts
<1>6. /\ DOMAIN window' = DOMAIN window \cup {m} /\ window'[m] = s
      /\ \A x \in DOMAIN window : x # m => window'[x] = window[x]
  BY <1>3, <1>4 DEF Put
<1>7. /\ DOMAIN peak' = DOMAIN peak \cup {m} /\ peak'[m] = s.rssi
      /\ \A x \in DOMAIN peak : x # m => peak'[x] = peak[x]
  BY <1>3, <1>5 DEF Put
<1>8. DOMAIN window \subseteq Macs /\ DOMAIN peak = DOMAIN window /\ known \subseteq DOMAIN window
  BY <1>1 DEF BleTypeOK
<1>9. BleTypeOK'
  <2>1. \A x \in DOMAIN window' :
          window'[x].rssi \in Rssis /\ window'[x].name \in Text \cup {Unnamed}
    BY <1>1, <1>5, <1>6 DEF BleTypeOK
  <2>2. DOMAIN window' \subseteq Macs /\ DOMAIN peak' = DOMAIN window'
        /\ known' \subseteq DOMAIN window'
    BY <1>2, <1>3, <1>6, <1>7, <1>8
  <2>3. /\ DOMAIN names \subseteq Macs /\ \A x \in DOMAIN names : names[x] \in Text
        /\ introduced \subseteq DOMAIN names /\ leaked \subseteq Macs /\ attrs \in 0..MaxAttr
    BY <1>1 DEF BleTypeOK
  <2> QED
    BY <1>2, <1>3, <2>1, <2>2, <2>3 DEF BleTypeOK, Text, Unnamed
<1>10. StrongestKept'
  BY <1>1, <1>6, <1>7, <1>8 DEF StrongestKept
<1>11. NamedWhenKnown'
  <2>1. \A x \in known' : window'[x].name # Unnamed
    BY <1>1, <1>3, <1>5, <1>6, <1>8 DEF NamedWhenKnown
  <2> QED
    BY <2>1 DEF NamedWhenKnown, Unnamed
<1>12. NameSticks' /\ NameIsOwn'
  BY <1>1, <1>3 DEF NameSticks, NameIsOwn
<1> QED
  BY <1>2, <1>9, <1>10, <1>11, <1>12 DEF BleInv, DevicesDescribed

\* A change of the names alone.
LEMMA NamesChange ==
  ASSUME BleInv, NEW m \in Macs, NEW text \in Text, text.of = m,
         \/ UNCHANGED <<names, introduced, leaked>>
         \/ /\ names' = Put(names, m, text) /\ introduced' \subseteq introduced \cup {m}
            /\ m \in introduced' => text.is = "name"
            /\ leaked' \subseteq leaked \cup {m} /\ leaked \ {m} \subseteq leaked'
            /\ m \notin leaked' => text.is # "attribute",
         UNCHANGED <<window, peak, known>>, attrs' \in 0..MaxAttr,
         current' = subject', current' \in Macs \cup {NoMac}
  PROVE  BleInv'
<1>1. BleTypeOK /\ StrongestKept /\ NamedWhenKnown /\ NameSticks /\ NameIsOwn
  BY DEF BleInv, DevicesDescribed
<1>2. window' = window /\ peak' = peak /\ known' = known
  OBVIOUS
<1>3. StrongestKept' /\ NamedWhenKnown'
  BY <1>1, <1>2 DEF StrongestKept, NamedWhenKnown, Unnamed
<1>4. /\ DOMAIN window \subseteq Macs /\ DOMAIN peak = DOMAIN window
      /\ \A x \in DOMAIN window :
           window[x].rssi \in Rssis /\ window[x].name \in Text \cup {Unnamed}
      /\ known \subseteq DOMAIN window
      /\ DOMAIN names \subseteq Macs /\ \A x \in DOMAIN names : names[x] \in Text
      /\ introduced \subseteq DOMAIN names /\ leaked \subseteq Macs
  BY <1>1 DEF BleTypeOK
<1>5. CASE UNCHANGED <<names, introduced, leaked>>
  <2>1. BleTypeOK'
    BY <1>2, <1>4, <1>5 DEF BleTypeOK, Text, Unnamed
  <2>2. NameSticks' /\ NameIsOwn'
    BY <1>1, <1>5 DEF NameSticks, NameIsOwn
  <2> QED
    BY <1>3, <2>1, <2>2 DEF BleInv, DevicesDescribed
<1>6. CASE /\ names' = Put(names, m, text) /\ introduced' \subseteq introduced \cup {m}
           /\ m \in introduced' => text.is = "name"
           /\ leaked' \subseteq leaked \cup {m} /\ leaked \ {m} \subseteq leaked'
           /\ m \notin leaked' => text.is # "attribute"
  <2>1. /\ DOMAIN names' = DOMAIN names \cup {m} /\ names'[m] = text
        /\ \A x \in DOMAIN names : x # m => names'[x] = names[x]
    BY <1>6 DEF Put
  <2>2. DOMAIN names' \subseteq Macs /\ \A x \in DOMAIN names' : names'[x] \in Text
    BY <1>4, <2>1
  <2>3. introduced' \subseteq DOMAIN names' /\ leaked' \subseteq Macs
    BY <1>4, <1>6, <2>1
  <2>4. BleTypeOK'
    BY <1>2, <1>4, <2>2, <2>3 DEF BleTypeOK, Text, Unnamed
  <2>5. NameSticks'
    <3> SUFFICES ASSUME NEW x \in introduced'
                 PROVE  names'[x].is = "name"
      BY DEF NameSticks
    <3>1. x # m => x \in introduced
      BY <1>6
    <3> QED
      BY <1>1, <1>4, <1>6, <2>1, <3>1 DEF NameSticks
  <2>6. NameIsOwn'
    <3> SUFFICES ASSUME NEW x \in DOMAIN names'
                 PROVE  names'[x].of = x /\ (x \notin leaked' => names'[x].is # "attribute")
      BY DEF NameIsOwn
    <3>1. x # m => x \in DOMAIN names /\ (x \notin leaked' => x \notin leaked)
      BY <1>6, <2>1
    <3> QED
      BY <1>1, <1>6, <2>1, <3>1 DEF NameIsOwn
  <2> QED
    BY <1>3, <2>4, <2>5, <2>6 DEF BleInv, DevicesDescribed
<1> QED
  BY <1>5, <1>6

LEMMA BleKeeps == BleInv /\ [BleNext]_bleVars => BleInv'
<1> SUFFICES ASSUME BleInv, [BleNext]_bleVars
             PROVE  BleInv'
  OBVIOUS
<1>1. /\ attrs \in 0..MaxAttr /\ current = subject /\ current \in Macs \cup {NoMac}
      /\ introduced \subseteq DOMAIN names /\ NameSticks
  BY DEF BleInv, DevicesDescribed, BleTypeOK
<1>2. ASSUME NEW mac \in Macs \cup {NoMac}, Name(mac)
      PROVE  BleInv'
  <2>1. PICK m : m = About(mac)
    OBVIOUS
  <2>2. m \in Macs /\ Truly(mac) = m /\ current' = m /\ subject' = m
    BY <1>2, <2>1, LineFacts DEF Name
  <2> DEFINE text == [of |-> m, is |-> "name"]
  <2>3. text \in Text /\ text.of = m /\ text.is = "name"
    BY <2>2 DEF Text
  <2>4. /\ names' = Put(names, m, text) /\ introduced' = introduced \cup {m}
        /\ leaked' = leaked \ {m} /\ UNCHANGED <<window, peak, known>> /\ attrs' = attrs
    BY <1>2, <2>1, <2>2 DEF Name
  <2> HIDE DEF text
  <2> QED
    BY <1>1, <2>2, <2>3, <2>4, NamesChange
<1>3. ASSUME NEW m \in Macs, Alias(m)
      PROVE  BleInv'
  <2>1. current' = m /\ subject' = m
    BY <1>3, LineFacts, NoMacIsNone DEF Alias
  <2> DEFINE text == [of |-> m, is |-> "alias"]
  <2>2. text \in Text /\ text.of = m /\ text.is = "alias"
    BY DEF Text
  <2>3. /\ names' = Default(m, text) /\ introduced' = introduced /\ leaked' = leaked
        /\ UNCHANGED <<window, peak, known>> /\ attrs' = attrs
    BY <1>3 DEF Alias
  <2> HIDE DEF text
  <2>4. CASE m \in DOMAIN names
    BY <1>1, <2>1, <2>2, <2>3, <2>4, NamesChange DEF Default
  <2>5. CASE m \notin DOMAIN names
    BY <1>1, <2>1, <2>2, <2>3, <2>5, NamesChange DEF Default
  <2> QED
    BY <2>4, <2>5
<1>4. ASSUME NEW m \in Macs, NEW listed \in BOOLEAN, Attribute(m, listed)
      PROVE  BleInv'
  <2>1. current' = m /\ subject' = m
    BY <1>4, LineFacts, NoMacIsNone DEF Attribute
  <2>2. attrs' \in 0..MaxAttr
    BY <1>1, <1>4, NoMacIsNone DEF Attribute
  <2> DEFINE text == [of |-> m, is |-> "attribute"]
  <2>3. text \in Text /\ text.of = m /\ text.is = "attribute"
    BY DEF Text
  <2>4. /\ names' = (IF listed THEN names ELSE Default(m, text)) /\ introduced' = introduced
        /\ leaked' = (IF listed \/ m \in DOMAIN names THEN leaked ELSE leaked \cup {m})
        /\ UNCHANGED <<window, peak, known>>
    BY <1>4 DEF Attribute, Skipped
  <2> HIDE DEF text
  <2>5. CASE listed \/ m \in DOMAIN names
    <3>1. UNCHANGED <<names, introduced, leaked>>
      BY <2>4, <2>5 DEF Default
    <3> QED
      BY <1>1, <2>1, <2>2, <2>3, <2>4, <3>1, NamesChange
  <2>6. CASE ~listed /\ m \notin DOMAIN names
    <3>1. names' = Put(names, m, text) /\ leaked' = leaked \cup {m} /\ m \notin introduced
      BY <1>1, <2>4, <2>6 DEF Default
    <3> QED
      BY <1>1, <2>1, <2>2, <2>3, <2>4, <3>1, NamesChange
  <2> QED
    BY <2>5, <2>6
<1>5. CASE BleFlush
  <2>1. /\ DOMAIN window' = {} /\ DOMAIN peak' = {} /\ known' = {} /\ current' = current
        /\ subject' = subject /\ names' = names /\ introduced' = introduced
        /\ leaked' = leaked /\ attrs' = attrs
    BY <1>5 DEF BleFlush, NoneHeard
  <2>2. BleTypeOK'
    BY <2>1 DEF BleInv, DevicesDescribed, BleTypeOK, Text, Unnamed
  <2>3. StrongestKept' /\ NamedWhenKnown' /\ NameSticks' /\ NameIsOwn'
    BY <2>1 DEF BleInv, DevicesDescribed, StrongestKept, NamedWhenKnown, NameSticks, NameIsOwn
  <2> QED
    BY <1>1, <2>1, <2>2, <2>3 DEF BleInv, DevicesDescribed
<1>6. CASE UNCHANGED bleVars
  BY <1>6 DEF bleVars, BleInv, DevicesDescribed, BleTypeOK, StrongestKept, NamedWhenKnown,
              NameSticks, NameIsOwn, Text, Unnamed
<1> QED
  BY <1>2, <1>3, <1>4, <1>5, <1>6, RssiKeeps DEF BleNext

LEMMA BleStart == BleInit => BleInv
BY NoMacIsNone DEF BleInit, NoneHeard, BleInv, DevicesDescribed, BleTypeOK, StrongestKept,
                   NamedWhenKnown, NameSticks, NameIsOwn

-------------------------------------------------------------------------------
(* AuthMode. *)

\* The brackets of the keys.
KeyBrackets == {"WPA-EAP", "WPA-PSK", "WPA3-OWE", "WPA3-SAE", "WPA3-EAP", "WPA2-EAP", "WPA2-PSK"}
Keys(has, wpa, rsn) ==
  (IF "WPA" \in has THEN WpaBrackets(wpa) ELSE {})
    \cup (IF "RSN" \in has THEN RsnBrackets(rsn) ELSE {})

LEMMA WpaSome ==
  ASSUME NEW akms
  PROVE  WpaBrackets(akms) \subseteq KeyBrackets
BY DEF WpaBrackets, KeyBrackets

\* An RSN element always gets a bracket.
LEMMA RsnSome ==
  ASSUME NEW akms
  PROVE  RsnBrackets(akms) \subseteq KeyBrackets /\ RsnBrackets(akms) # {}
<1>1. RsnBrackets(akms) \subseteq KeyBrackets
  BY DEF RsnBrackets, KeyBrackets
<1>2. CASE "OWE" \in akms
  <2>1. "WPA3-OWE" \in RsnBrackets(akms)
    BY <1>2 DEF RsnBrackets
  <2> QED
    BY <1>1, <2>1
<1>3. CASE "SAE" \in akms
  <2>1. "WPA3-SAE" \in RsnBrackets(akms)
    BY <1>3 DEF RsnBrackets
  <2> QED
    BY <1>1, <2>1
<1>4. CASE "SUITE-B" \in akms
  <2>1. "WPA3-EAP" \in RsnBrackets(akms)
    BY <1>4 DEF RsnBrackets
  <2> QED
    BY <1>1, <2>1
<1>5. CASE "EAP" \in akms /\ "SUITE-B" \notin akms
  <2>1. "WPA2-EAP" \in RsnBrackets(akms)
    BY <1>5 DEF RsnBrackets
  <2> QED
    BY <1>1, <2>1
<1>6. CASE akms \cap {"SAE", "OWE", "EAP", "SUITE-B"} = {}
  <2>1. "WPA2-PSK" \in RsnBrackets(akms)
    BY <1>6 DEF RsnBrackets
  <2> QED
    BY <1>1, <2>1
<1> QED
  BY <1>1, <1>2, <1>3, <1>4, <1>5, <1>6

LEMMA KeysFacts ==
  ASSUME NEW has, NEW wpa, NEW rsn
  PROVE  /\ Keys(has, wpa, rsn) \subseteq KeyBrackets
         /\ has \cap {"RSN", "WPA"} = {} => Keys(has, wpa, rsn) = {}
         /\ \A els \in SUBSET has : Keys(els, wpa, rsn) \subseteq Keys(has, wpa, rsn)
BY WpaSome, RsnSome DEF Keys

LEMMA BuildAuthIs ==
  ASSUME NEW p, NEW ibss, NEW has, NEW wpa, NEW rsn
  PROVE  BuildAuth(p, ibss, has, wpa, rsn) =
           (IF Keys(has, wpa, rsn) = {} /\ p THEN {"WEP"} ELSE Keys(has, wpa, rsn))
             \cup (has \cap {"WPS"}) \cup {IF ibss THEN "IBSS" ELSE "ESS"}
BY DEF BuildAuth, Keys

\* The spelling ends in the type of the network, calls none WEP that has keys, and
\* none open that has privacy.
LEMMA BuildAuthFacts ==
  ASSUME NEW p \in BOOLEAN, NEW ibss \in BOOLEAN, NEW has \in SUBSET Elements, NEW wpa, NEW rsn,
         has \cap {"RSN", "WPA"} # {} => p
  PROVE  LET s == BuildAuth(p, ibss, has, wpa, rsn)
         IN  /\ s \in SUBSET Brackets /\ Cardinality(s \cap {"ESS", "IBSS"}) = 1
             /\ "WEP" \in s => s \subseteq {"WEP", "WPS", "ESS", "IBSS"}
             /\ p <=> ~(s \subseteq {"WPS", "ESS", "IBSS"})
<1> DEFINE s == BuildAuth(p, ibss, has, wpa, rsn)
           keys == Keys(has, wpa, rsn)
           kind == IF ibss THEN "IBSS" ELSE "ESS"
<1>1. s = (IF keys = {} /\ p THEN {"WEP"} ELSE keys) \cup (has \cap {"WPS"}) \cup {kind}
  BY BuildAuthIs
<1>2. keys \subseteq KeyBrackets /\ (has \cap {"RSN", "WPA"} = {} => keys = {})
  BY KeysFacts
<1>3. kind \in {"IBSS", "ESS"}
  OBVIOUS
<1> HIDE DEF s, keys, kind
<1>4. s \cap {"ESS", "IBSS"} = {kind}
  BY <1>1, <1>2, <1>3 DEF KeyBrackets
<1>5. Cardinality(s \cap {"ESS", "IBSS"}) = 1
  BY <1>4, FS_Singleton
<1>6. s \in SUBSET Brackets
  BY <1>1, <1>2, <1>3 DEF KeyBrackets, Brackets
<1>7. CASE keys = {} /\ p
  <2>1. "WEP" \in s /\ s \subseteq {"WEP", "WPS", "ESS", "IBSS"}
    BY <1>1, <1>3, <1>7
  <2> QED
    BY <1>5, <1>6, <1>7, <2>1 DEF s
<1>8. CASE keys = {} /\ ~p
  <2>1. s \subseteq {"WPS", "ESS", "IBSS"}
    BY <1>1, <1>3, <1>8
  <2> QED
    BY <1>5, <1>6, <1>8, <2>1 DEF s
<1>9. CASE keys # {}
  <2>1. p
    BY <1>2, <1>9
  <2>2. "WEP" \notin s
    BY <1>1, <1>2, <1>3, <1>9 DEF KeyBrackets
  <2>3. ~(s \subseteq {"WPS", "ESS", "IBSS"})
    BY <1>1, <1>2, <1>9 DEF KeyBrackets
  <2> QED
    BY <1>5, <1>6, <2>1, <2>2, <2>3 DEF s
<1> QED
  BY <1>7, <1>8, <1>9

\* The spellings of AP a: from the elements els of a frame, and from iw's text.
WpaTold(a) == UNION {WpaAkm(s) : s \in a.wpa}
RsnTold(S) == UNION {RsnAkm(s) : s \in S}
WpaPrinted(a) == Akms(UNION {Words(s) : s \in a.wpa})
RsnPrinted(S) == Akms(UNION {Words(s) : s \in S})
SeenOf(a) == a.has \cup (IF a.wpsNamed THEN {"WPS"} ELSE {})
Told(a, els) == BuildAuth(a.privacy, a.ibss, els, WpaTold(a), RsnTold(a.rsn))
Printed(a) == BuildAuth(a.privacy, a.ibss, SeenOf(a), WpaPrinted(a), RsnPrinted(a.rsn))

LEMMA ApFacts ==
  ASSUME NEW a \in ApTypes
  PROVE  /\ a.has \in SUBSET Elements /\ a.rsn \in SUBSET Suites /\ a.wpa \in SUBSET {1, 2}
         /\ a.privacy \in BOOLEAN /\ a.ibss \in BOOLEAN /\ a.wpsNamed \in BOOLEAN
         /\ a.has \cap {"RSN", "WPA"} # {} => a.privacy
BY DEF ApTypes

\* What the two backends see in a suite.
LEMMA SuiteWords ==
  ASSUME NEW s \in Nat
  PROVE  /\ "OWE" \in RsnAkm(s) <=> "OWE" \in Words(s)
         /\ s \notin {19, 20} =>
              ("SAE" \in RsnAkm(s) <=> "SAE" \in Words(s)) /\ ("PSK" \in RsnAkm(s) <=> "PSK" \in Words(s))
         /\ "EAP" \in RsnAkm(s) \/ "SUITE-B" \in RsnAkm(s)
              <=> "802.1X" \in Words(s) \/ "SUITE-B" \in Words(s)
         /\ s \notin {11, 13} => ("SUITE-B" \in RsnAkm(s) <=> "SUITE-B" \in Words(s))
BY DEF RsnAkm, Words

\* And in a set of suites.
LEMMA SuitesWords ==
  ASSUME NEW S \in SUBSET Suites
  PROVE  LET R == RsnTold(S)
             A == RsnPrinted(S)
         IN  /\ "OWE" \in R <=> "OWE" \in A
             /\ S \cap {19, 20} = {} => ("SAE" \in R <=> "SAE" \in A) /\ ("PSK" \in R <=> "PSK" \in A)
             /\ "EAP" \in R \/ "SUITE-B" \in R <=> "EAP" \in A \/ "SUITE-B" \in A
             /\ S \cap {11, 13} = {} => ("SUITE-B" \in R <=> "SUITE-B" \in A)
<1> DEFINE R == RsnTold(S)
           W == UNION {Words(s) : s \in S}
           A == Akms(W)
<1>1. \A s \in S : s \in Nat
  BY AuthAssumption DEF AuthAssumption
<1>2. "OWE" \in R <=> "OWE" \in W
  BY <1>1, SuiteWords DEF RsnTold
<1>3. S \cap {19, 20} = {} => ("SAE" \in R <=> "SAE" \in W)
  BY <1>1, SuiteWords DEF RsnTold
<1>4. S \cap {19, 20} = {} => ("PSK" \in R <=> "PSK" \in W)
  BY <1>1, SuiteWords DEF RsnTold
<1>5. "EAP" \in R \/ "SUITE-B" \in R <=> "802.1X" \in W \/ "SUITE-B" \in W
  BY <1>1, SuiteWords DEF RsnTold
<1>6. S \cap {11, 13} = {} => ("SUITE-B" \in R <=> "SUITE-B" \in W)
  BY <1>1, SuiteWords DEF RsnTold
<1> HIDE DEF R, W
<1>7. \A w \in {"SAE", "OWE", "PSK", "SUITE-B"} : w \in A <=> w \in W
  BY DEF Akms
<1>8. "EAP" \in A \/ "SUITE-B" \in A <=> "802.1X" \in W \/ "SUITE-B" \in W
  BY DEF Akms
<1> HIDE DEF A
<1>9. /\ "SAE" \in A <=> "SAE" \in W
      /\ "OWE" \in A <=> "OWE" \in W
      /\ "PSK" \in A <=> "PSK" \in W
      /\ "SUITE-B" \in A <=> "SUITE-B" \in W
  BY <1>7
<1>10. /\ "OWE" \in R <=> "OWE" \in A
       /\ S \cap {19, 20} = {} => ("SAE" \in R <=> "SAE" \in A) /\ ("PSK" \in R <=> "PSK" \in A)
       /\ "EAP" \in R \/ "SUITE-B" \in R <=> "EAP" \in A \/ "SUITE-B" \in A
       /\ S \cap {11, 13} = {} => ("SUITE-B" \in R <=> "SUITE-B" \in A)
  BY <1>2, <1>3, <1>4, <1>5, <1>6, <1>8, <1>9
<1> QED
  BY <1>10 DEF R, W, A, RsnPrinted

\* What a set of tokens gives, bracket by bracket.
LEMMA RsnEach ==
  ASSUME NEW akms
  PROVE  LET b == RsnBrackets(akms)
         IN  /\ "WPA3-OWE" \in b <=> "OWE" \in akms
             /\ "WPA3-SAE" \in b <=> "SAE" \in akms
             /\ "WPA3-EAP" \in b <=> "SUITE-B" \in akms
             /\ "WPA2-EAP" \in b <=> "EAP" \in akms /\ "SUITE-B" \notin akms
             /\ "WPA2-PSK" \in b <=>
                  "PSK" \in akms \/ (/\ "SAE" \notin akms /\ "OWE" \notin akms
                                     /\ "EAP" \notin akms /\ "SUITE-B" \notin akms)
             /\ b \subseteq {"WPA3-OWE", "WPA3-SAE", "WPA3-EAP", "WPA2-EAP", "WPA2-PSK"}
BY DEF RsnBrackets

\* The brackets that suites S may set apart.
RsnApart(S) ==
  (IF S \cap {11, 13} # {} THEN {"WPA2-EAP", "WPA3-EAP"} ELSE {})
    \cup (IF S \cap {19, 20} # {} THEN {"WPA2-PSK", "WPA3-SAE"} ELSE {})

LEMMA NearRsn ==
  ASSUME NEW S \in SUBSET Suites
  PROVE  LET r == RsnBrackets(RsnTold(S))
             a == RsnBrackets(RsnPrinted(S))
         IN  /\ r \ a \subseteq RsnApart(S) /\ a \ r \subseteq RsnApart(S)
             /\ r \cap {"WPA2-EAP", "WPA3-EAP"} = {} <=> a \cap {"WPA2-EAP", "WPA3-EAP"} = {}
<1> DEFINE R == RsnTold(S)
           A == RsnPrinted(S)
           r == RsnBrackets(R)
           a == RsnBrackets(A)
<1>1. /\ "OWE" \in R <=> "OWE" \in A
      /\ S \cap {19, 20} = {} => ("SAE" \in R <=> "SAE" \in A) /\ ("PSK" \in R <=> "PSK" \in A)
      /\ "EAP" \in R \/ "SUITE-B" \in R <=> "EAP" \in A \/ "SUITE-B" \in A
      /\ S \cap {11, 13} = {} => ("SUITE-B" \in R <=> "SUITE-B" \in A)
  BY SuitesWords
<1> HIDE DEF R, A
<1>2. /\ "WPA3-OWE" \in r <=> "OWE" \in R
      /\ "WPA3-SAE" \in r <=> "SAE" \in R
      /\ "WPA3-EAP" \in r <=> "SUITE-B" \in R
      /\ "WPA2-EAP" \in r <=> "EAP" \in R /\ "SUITE-B" \notin R
      /\ "WPA2-PSK" \in r <=> "PSK" \in R \/ (/\ "SAE" \notin R /\ "OWE" \notin R
                                              /\ "EAP" \notin R /\ "SUITE-B" \notin R)
      /\ r \subseteq {"WPA3-OWE", "WPA3-SAE", "WPA3-EAP", "WPA2-EAP", "WPA2-PSK"}
  BY RsnEach
<1>3. /\ "WPA3-OWE" \in a <=> "OWE" \in A
      /\ "WPA3-SAE" \in a <=> "SAE" \in A
      /\ "WPA3-EAP" \in a <=> "SUITE-B" \in A
      /\ "WPA2-EAP" \in a <=> "EAP" \in A /\ "SUITE-B" \notin A
      /\ "WPA2-PSK" \in a <=> "PSK" \in A \/ (/\ "SAE" \notin A /\ "OWE" \notin A
                                              /\ "EAP" \notin A /\ "SUITE-B" \notin A)
      /\ a \subseteq {"WPA3-OWE", "WPA3-SAE", "WPA3-EAP", "WPA2-EAP", "WPA2-PSK"}
  BY RsnEach
<1> HIDE DEF r, a
<1>4. "WPA3-OWE" \in r <=> "WPA3-OWE" \in a
  BY <1>1, <1>2, <1>3
<1>5. ("WPA3-SAE" \in r <=> "WPA3-SAE" \in a) \/ "WPA3-SAE" \in RsnApart(S)
  BY <1>1, <1>2, <1>3 DEF RsnApart
<1>6. ("WPA2-PSK" \in r <=> "WPA2-PSK" \in a) \/ "WPA2-PSK" \in RsnApart(S)
  BY <1>1, <1>2, <1>3 DEF RsnApart
<1>7. ("WPA3-EAP" \in r <=> "WPA3-EAP" \in a) \/ "WPA3-EAP" \in RsnApart(S)
  BY <1>1, <1>2, <1>3 DEF RsnApart
<1>8. ("WPA2-EAP" \in r <=> "WPA2-EAP" \in a) \/ "WPA2-EAP" \in RsnApart(S)
  BY <1>1, <1>2, <1>3 DEF RsnApart
<1>9. r \cap {"WPA2-EAP", "WPA3-EAP"} = {} <=> "EAP" \notin R /\ "SUITE-B" \notin R
  BY <1>2
<1>10. a \cap {"WPA2-EAP", "WPA3-EAP"} = {} <=> "EAP" \notin A /\ "SUITE-B" \notin A
  BY <1>3
<1>11. r \ a \subseteq RsnApart(S) /\ a \ r \subseteq RsnApart(S)
  BY <1>2, <1>3, <1>4, <1>5, <1>6, <1>7, <1>8
<1>12. r \cap {"WPA2-EAP", "WPA3-EAP"} = {} <=> a \cap {"WPA2-EAP", "WPA3-EAP"} = {}
  BY <1>1, <1>9, <1>10
<1> QED
  BY <1>11, <1>12 DEF r, a, R, A

\* Of a WPA element both see the same, and always something.
LEMMA SameWpa ==
  ASSUME NEW a, a.wpa \in SUBSET {1, 2}
  PROVE  WpaPrinted(a) = WpaTold(a) /\ WpaBrackets(WpaTold(a)) # {}
<1> DEFINE R == WpaTold(a)
           W == UNION {Words(s) : s \in a.wpa}
<1>1. R = (IF 1 \in a.wpa THEN {"EAP"} ELSE {}) \cup (IF 2 \in a.wpa THEN {"PSK"} ELSE {})
  BY DEF WpaAkm, WpaTold
<1>2. Words(1) = {"802.1X"} /\ Words(2) = {"PSK"}
  BY DEF Words
<1>3. W = (IF 1 \in a.wpa THEN {"802.1X"} ELSE {}) \cup (IF 2 \in a.wpa THEN {"PSK"} ELSE {})
  BY <1>2
<1> HIDE DEF R, W
<1>4. Akms(W) = R
  BY <1>1, <1>3 DEF Akms
<1>5. CASE "EAP" \in R
  <2>1. "WPA-EAP" \in WpaBrackets(R)
    BY <1>5 DEF WpaBrackets
  <2> QED
    BY <1>4, <2>1 DEF R, W, WpaPrinted
<1>6. CASE "EAP" \notin R
  <2>1. "PSK" \in R \/ R = {}
    BY <1>1, <1>6
  <2>2. "WPA-PSK" \in WpaBrackets(R)
    BY <2>1 DEF WpaBrackets
  <2> QED
    BY <1>4, <2>2 DEF R, W, WpaPrinted
<1> QED
  BY <1>5, <1>6

\* All that may set the spellings of a apart.
ApartOf(a) == RsnApart(a.rsn) \cup (IF a.wpsNamed THEN {"WPS"} ELSE {})

\* The two spellings of a whole frame.
LEMMA NearSpelling ==
  ASSUME NEW a \in ApTypes
  PROVE  LET t == Told(a, a.has)
             u == Printed(a)
         IN  /\ t \ u \subseteq ApartOf(a) /\ u \ t \subseteq ApartOf(a)
             /\ t \cap {"WPA2-EAP", "WPA3-EAP"} = {} <=> u \cap {"WPA2-EAP", "WPA3-EAP"} = {}
<1> DEFINE t == Told(a, a.has)
           u == Printed(a)
           w == WpaBrackets(WpaTold(a))
           r == RsnBrackets(RsnTold(a.rsn))
           q == RsnBrackets(RsnPrinted(a.rsn))
           k == (IF "WPA" \in a.has THEN w ELSE {}) \cup (IF "RSN" \in a.has THEN r ELSE {})
           l == (IF "WPA" \in a.has THEN w ELSE {}) \cup (IF "RSN" \in a.has THEN q ELSE {})
           kind == {IF a.ibss THEN "IBSS" ELSE "ESS"}
           wep == IF k = {} /\ a.privacy THEN {"WEP"} ELSE {}
<1>1. a.rsn \in SUBSET Suites /\ a.wpa \in SUBSET {1, 2} /\ a.has \in SUBSET Elements
  BY ApFacts
<1>2. WpaPrinted(a) = WpaTold(a)
  BY <1>1, SameWpa
<1>3. Keys(a.has, WpaTold(a), RsnTold(a.rsn)) = k
  BY DEF Keys
<1>4. Keys(SeenOf(a), WpaPrinted(a), RsnPrinted(a.rsn)) = l
  BY <1>2 DEF Keys, SeenOf
<1>5. /\ r \ q \subseteq RsnApart(a.rsn) /\ q \ r \subseteq RsnApart(a.rsn)
      /\ r \cap {"WPA2-EAP", "WPA3-EAP"} = {} <=> q \cap {"WPA2-EAP", "WPA3-EAP"} = {}
  BY <1>1, NearRsn
<1>6. r # {} /\ q # {} /\ w \subseteq {"WPA-EAP", "WPA-PSK"}
  BY RsnSome DEF WpaBrackets
<1>7. t = (IF k = {} /\ a.privacy THEN {"WEP"} ELSE k) \cup (a.has \cap {"WPS"}) \cup kind
  BY <1>3, BuildAuthIs DEF Told
<1>8. u = (IF l = {} /\ a.privacy THEN {"WEP"} ELSE l) \cup (SeenOf(a) \cap {"WPS"}) \cup kind
  BY <1>4, BuildAuthIs DEF Printed
<1>9. SeenOf(a) \cap {"WPS"} = (a.has \cap {"WPS"}) \cup (IF a.wpsNamed THEN {"WPS"} ELSE {})
  BY DEF SeenOf
<1> HIDE DEF w, r, q, t, u
<1>10. k = {} <=> l = {}
  BY <1>6
<1>11. t = k \cup wep \cup (a.has \cap {"WPS"}) \cup kind
  BY <1>7
<1>12. u = l \cup wep \cup (a.has \cap {"WPS"}) \cup (IF a.wpsNamed THEN {"WPS"} ELSE {}) \cup kind
  BY <1>8, <1>9, <1>10
<1>13. k \ l \subseteq RsnApart(a.rsn) /\ l \ k \subseteq RsnApart(a.rsn)
  BY <1>5
<1>14. k \cap {"WPA2-EAP", "WPA3-EAP"} = {} <=> l \cap {"WPA2-EAP", "WPA3-EAP"} = {}
  BY <1>5, <1>6
<1>15. (wep \cup kind) \cap {"WPA2-EAP", "WPA3-EAP"} = {}
  OBVIOUS
<1> HIDE DEF k, l, wep, kind
<1>16. t \ u \subseteq ApartOf(a) /\ u \ t \subseteq ApartOf(a)
  BY <1>11, <1>12, <1>13 DEF ApartOf
<1>17. t \cap {"WPA2-EAP", "WPA3-EAP"} = {} <=> u \cap {"WPA2-EAP", "WPA3-EAP"} = {}
  <2>1. t \cap {"WPA2-EAP", "WPA3-EAP"} = k \cap {"WPA2-EAP", "WPA3-EAP"}
    BY <1>11, <1>15
  <2>2. u \cap {"WPA2-EAP", "WPA3-EAP"} = l \cap {"WPA2-EAP", "WPA3-EAP"}
    BY <1>12, <1>15
  <2> QED
    BY <1>14, <2>1, <2>2
<1> QED
  BY <1>16, <1>17 DEF t, u

\* A frame that is cut adds WEP at most, when no key element is left.
LEMMA CutFacts ==
  ASSUME NEW a \in ApTypes, NEW els \in SUBSET a.has
  PROVE  Told(a, els) \ Told(a, a.has) \subseteq
           IF els \cap {"RSN", "WPA"} = {} /\ a.has \cap {"RSN", "WPA"} # {} THEN {"WEP"} ELSE {}
<1> DEFINE s == Told(a, els)
           t == Told(a, a.has)
           k == Keys(els, WpaTold(a), RsnTold(a.rsn))
           l == Keys(a.has, WpaTold(a), RsnTold(a.rsn))
           kind == {IF a.ibss THEN "IBSS" ELSE "ESS"}
<1>1. s = (IF k = {} /\ a.privacy THEN {"WEP"} ELSE k) \cup (els \cap {"WPS"}) \cup kind
  BY BuildAuthIs DEF Told
<1>2. t = (IF l = {} /\ a.privacy THEN {"WEP"} ELSE l) \cup (a.has \cap {"WPS"}) \cup kind
  BY BuildAuthIs DEF Told
<1>3. k \subseteq l /\ (a.has \cap {"RSN", "WPA"} = {} => l = {})
  BY KeysFacts
<1>4. a.wpa \in SUBSET {1, 2}
  BY ApFacts
<1>5. WpaBrackets(WpaTold(a)) # {} /\ RsnBrackets(RsnTold(a.rsn)) # {}
  BY <1>4, SameWpa, RsnSome
<1>6. k = {} => els \cap {"RSN", "WPA"} = {}
  BY <1>5 DEF Keys
<1> HIDE DEF s, t, k, l, kind
<1>7. s \ t \subseteq {"WEP"}
  BY <1>1, <1>2, <1>3
<1>8. s \ t # {} => k = {} /\ l # {} /\ a.privacy
  BY <1>1, <1>2, <1>3
<1> QED
  BY <1>3, <1>6, <1>7, <1>8 DEF s, t

AuthInv ==
  /\ ap \in ApTypes /\ left \in SUBSET ap.has
  /\ captured \in {{}, Told(ap, left)} /\ swept \in {{}, Printed(ap)}

LEMMA AuthStart == AuthInit => AuthInv
BY DEF AuthInit, AuthInv

LEMMA AuthKeeps == AuthInv /\ [AuthNext]_authVars => AuthInv'
<1> SUFFICES ASSUME AuthInv, [AuthNext]_authVars
             PROVE  AuthInv'
  OBVIOUS
<1>1. CASE Capture
  <2>1. ap' = ap /\ swept' = swept /\ left' \in Cuts(ap.has) /\ captured' = Describe(left')
    BY <1>1 DEF Capture
  <2>2. left' \in SUBSET ap.has
    BY <2>1 DEF Cuts
  <2>3. captured' = Told(ap, left')
    BY <2>1 DEF Describe, WpaAkms, RsnAkms, Told, WpaTold, RsnTold
  <2> QED
    BY <2>1, <2>2, <2>3 DEF AuthInv
<1>2. CASE Sweep
  <2>1. ap' = ap /\ captured' = captured /\ left' = left
    BY <1>2 DEF Sweep
  <2>2. PICK style \in Styles : swept' = Classify(style)
    BY <1>2 DEF Sweep
  <2>3. style \in {"hex", "words"} /\ ap.privacy \in BOOLEAN
    BY ApFacts, AuthAssumption DEF AuthInv, AuthAssumption
  <2>4. Privacy(Capability(style)) = ap.privacy
    BY <2>3 DEF Privacy, Capability
  <2>5. Classify(style) = Printed(ap)
    BY <2>4 DEF Classify, Sections, Printed, SeenOf, WpaPrinted, RsnPrinted
  <2> QED
    BY <2>1, <2>2, <2>5 DEF AuthInv
<1>3. CASE UNCHANGED authVars
  BY <1>3 DEF authVars, AuthInv
<1> QED
  BY <1>1, <1>2, <1>3 DEF AuthNext

\* Each of the two spellings is one of build_auth().
LEMMA AuthSound == AuthInv => AuthTypeOK /\ SecuredNotOpen
<1> SUFFICES ASSUME AuthInv
             PROVE  AuthTypeOK /\ SecuredNotOpen
  OBVIOUS
<1>1. /\ ap.has \in SUBSET Elements /\ ap.privacy \in BOOLEAN /\ ap.ibss \in BOOLEAN
      /\ ap.has \cap {"RSN", "WPA"} # {} => ap.privacy
  BY ApFacts DEF AuthInv
<1>2. left \in SUBSET ap.has
  BY DEF AuthInv
<1>3. left \in SUBSET Elements /\ (left \cap {"RSN", "WPA"} # {} => ap.privacy)
  BY <1>1, <1>2
<1>4. ASSUME NEW s \in {captured, swept} \ {{}}
      PROVE  /\ s \in SUBSET Brackets /\ Cardinality(s \cap {"ESS", "IBSS"}) = 1
             /\ "WEP" \in s => s \subseteq {"WEP", "WPS", "ESS", "IBSS"}
             /\ ap.privacy <=> ~(s \subseteq {"WPS", "ESS", "IBSS"})
  <2>1. s = Told(ap, left) \/ s = Printed(ap)
    BY <1>4 DEF AuthInv
  <2>2. CASE s = Told(ap, left)
    <3> DEFINE wpa == WpaTold(ap)
               rsn == RsnTold(ap.rsn)
    <3>1. s = BuildAuth(ap.privacy, ap.ibss, left, wpa, rsn)
      BY <2>2 DEF Told
    <3> HIDE DEF wpa, rsn
    <3> QED
      BY <1>1, <1>3, <3>1, BuildAuthFacts
  <2>3. CASE s = Printed(ap)
    <3> DEFINE wpa == WpaPrinted(ap)
               rsn == RsnPrinted(ap.rsn)
               has == SeenOf(ap)
    <3>1. s = BuildAuth(ap.privacy, ap.ibss, has, wpa, rsn)
      BY <2>3 DEF Printed
    <3>2. has \in SUBSET Elements /\ has \cap {"RSN", "WPA"} = ap.has \cap {"RSN", "WPA"}
      BY <1>1 DEF SeenOf, Elements
    <3> HIDE DEF wpa, rsn, has
    <3> QED
      BY <1>1, <3>1, <3>2, BuildAuthFacts
  <2> QED
    BY <2>1, <2>2, <2>3
<1>5. captured \in SUBSET Brackets /\ swept \in SUBSET Brackets
  BY <1>4
<1> QED
  BY <1>2, <1>4, <1>5 DEF AuthTypeOK, SecuredNotOpen

LEMMA AuthAgrees == AuthInv => ApartNowhereElse /\ CutAddsOnlyWep
<1> DEFINE wep == IF left \cap {"RSN", "WPA"} = {} /\ ap.has \cap {"RSN", "WPA"} # {}
                  THEN {"WEP"} ELSE {}
           whole == Told(ap, ap.has)
<1> SUFFICES ASSUME AuthInv, captured # {}, swept # {}
             PROVE  /\ left = ap.has =>
                         /\ (captured \cup swept) \ (captured \cap swept) \subseteq Apart
                         /\ captured \cap {"WPA2-EAP", "WPA3-EAP"} = {}
                              <=> swept \cap {"WPA2-EAP", "WPA3-EAP"} = {}
                    /\ captured \ swept \subseteq Apart \cup wep
  BY DEF ApartNowhereElse, CutAddsOnlyWep
<1>1. captured = Told(ap, left) /\ swept = Printed(ap) /\ left \in SUBSET ap.has /\ ap \in ApTypes
  BY DEF AuthInv
<1>2. Apart = ApartOf(ap)
  BY DEF Apart, ApartOf, RsnApart
<1>3. /\ whole \ swept \subseteq Apart /\ swept \ whole \subseteq Apart
      /\ whole \cap {"WPA2-EAP", "WPA3-EAP"} = {} <=> swept \cap {"WPA2-EAP", "WPA3-EAP"} = {}
  BY <1>1, <1>2, NearSpelling
<1>4. captured \ whole \subseteq wep
  BY <1>1, CutFacts
<1>5. left = ap.has => captured = whole
  BY <1>1
<1> HIDE DEF whole, wep
<1>6. captured \ swept \subseteq Apart \cup wep
  BY <1>3, <1>4
<1>7. ASSUME left = ap.has
      PROVE  /\ (captured \cup swept) \ (captured \cap swept) \subseteq Apart
             /\ captured \cap {"WPA2-EAP", "WPA3-EAP"} = {}
                  <=> swept \cap {"WPA2-EAP", "WPA3-EAP"} = {}
  BY <1>3, <1>5, <1>7
<1> QED
  BY <1>6, <1>7

-------------------------------------------------------------------------------
(* The theorems. *)

\* The name of an AP that has been told stays, and a capture that can tell broken
\* frames shows no AP that does not exist, whatever is heard in whatever order
\* (MonitorScanner._handle_packet).
THEOREM IdentityKeptAlways == Spec => []IdentityKept
<1>1. Init => CaptureInv
  BY CaptureStart DEF Init
<1>2. CaptureInv /\ [Next]_vars => CaptureInv'
  BY CaptureKeeps DEF Next, vars, captureVars, air
<1>3. CaptureInv => IdentityKept
  BY DEF CaptureInv, IdentityKept
<1> QED
  BY <1>1, <1>2, <1>3, PTL DEF Spec

\* A row says one place, in the band the AP is in, and the right one once the AP
\* has been there for longer than ie_refresh_s.
THEOREM PlaceSoundAlways == Spec => []PlaceSound
<1>1. Init => CaptureInv
  BY CaptureStart DEF Init
<1>2. CaptureInv /\ [Next]_vars => CaptureInv'
  BY CaptureKeeps DEF Next, vars, captureVars, air
<1>3. CaptureInv => PlaceSound
  BY DEF CaptureInv, PlaceSound
<1> QED
  BY <1>1, <1>2, <1>3, PTL DEF Spec

\* A device is handed over with its strongest signal under its own name, in
\* whatever order bluetoothctl prints its lines (BleScanner._run).
THEOREM DevicesDescribedAlways == Spec => []DevicesDescribed
<1>1. Init => BleInv
  BY BleStart DEF Init
<1>2. BleInv /\ [Next]_vars => BleInv'
  BY BleKeeps DEF Next, vars, bleVars
<1>3. BleInv => DevicesDescribed
  BY DEF BleInv
<1> QED
  BY <1>1, <1>2, <1>3, PTL DEF Spec

\* What the two backends and a cut can make of a network's security, for any suites:
\* the spellings of a whole frame and of iw's text differ at the brackets of suites
\* 11, 13, 19, 20 and of a name with "WPS:" only, never on whether the network is an
\* enterprise's; a cut adds WEP at most, and takes no network for an open one.
THEOREM SpelledSoundlyAlways == Spec => []SpelledSoundly
<1>1. Init => AuthInv
  BY AuthStart DEF Init
<1>2. AuthInv /\ [Next]_vars => AuthInv'
  BY AuthKeeps DEF Next, vars, authVars
<1>3. AuthInv => SpelledSoundly
  BY AuthSound, AuthAgrees DEF SpelledSoundly
<1> QED
  BY <1>1, <1>2, <1>3, PTL DEF Spec

===============================================================================
