----------------------------- MODULE MonitorCapture -----------------------------
(***************************************************************************)
(* What the monitor backend makes of the frames it hears                   *)
(* (MonitorScanner._handle_packet): the identity of an AP is parsed from   *)
(* one of its frames, kept, and used for the next ones until it is too     *)
(* old; of a window's sightings of an AP the strongest is handed on.       *)
(*                                                                         *)
(* Environment: APs that may change their channel, hide their name in      *)
(* beacons and tell it in probe responses; frames heard on a neighbouring  *)
(* channel; frames with a broken checksum, whose content is anything; the  *)
(* capture's time stamps, which follow the wall clock when it is set back. *)
(***************************************************************************)
EXTENDS Channels, Selection

CONSTANTS
  Aps,        \* the APs around, each its own BSSID and name
  Ghost,      \* a BSSID that a broken frame shows
  Freqs,      \* the frequencies there are
  Signals,    \* signal strengths
  IeRefresh,  \* ie_refresh_s
  MaxTime,    \* bound: time
  MaxBad      \* bound: broken frames

ASSUME CaptureAssumption ==
  /\ Ghost \notin Aps /\ "" \notin Aps \cup {Ghost}
  /\ Freqs \subseteq Nat \ {0} /\ Signals \subseteq Int
  /\ IeRefresh \in Nat /\ MaxTime \in Nat /\ MaxBad \in Nat

\* Outside the 6 GHz band, whose channel numbers tell no frequency, an AP is on a
\* channel that has a number of its own (not so the 4.9 GHz channels of Japan).
ASSUME FreqsAreChannels == \A f \in Freqs : BandOf(f) = 6 \/ FreqOf(ChannelOf(f)) = f

VARIABLES
  radiotap,  \* the capture carries radiotap headers (linktype)
  info,      \* _info: what is known of an AP, and when it was parsed
  pending,   \* _pending: the window
  broken,    \* history: how many broken frames have been heard
  tuned,     \* the APs' true frequencies
  silent,    \* the APs whose frames hold no channel element
  now,       \* the time stamp of a frame that arrives
  movedAt,   \* history: when an AP last changed its frequency
  told,      \* history: the APs whose name was in a frame that was looked at
  setBack    \* history: the clock has been set back

air == <<tuned, silent, now, movedAt, setBack>>
captureVars == <<radiotap, info, pending, broken, told, air>>

Bssids == Aps \cup {Ghost}
Hidden == ""
Names == Aps \cup {Ghost, Hidden}

Info == [ssid : Names, channel : Nat, at : Int]

\* An observation, with what was true when it was heard: where the AP was, for
\* how long it had been there, and whether its name had been told.
Obs == [ssid : Names, channel : Nat, frequency : Nat, rssi : Signals,
        tuned : Nat, settled : Int, named : BOOLEAN]

CaptureTypeOK ==
  /\ radiotap \in BOOLEAN
  /\ DOMAIN info \subseteq Bssids /\ \A b \in DOMAIN info : info[b] \in Info
  /\ DOMAIN pending \subseteq DOMAIN info
  /\ \A b \in DOMAIN pending : pending[b] \in Obs
  /\ broken \in 0..MaxBad
  /\ tuned \in [Aps -> Freqs] /\ silent \subseteq Aps /\ now \in 0..MaxTime /\ movedAt \in [Aps -> Int]
  /\ told \subseteq Bssids /\ setBack \in BOOLEAN

Nothing == [b \in {} |-> 0]

CaptureInit ==
  /\ radiotap \in BOOLEAN
  /\ info = Nothing /\ pending = Nothing /\ broken = 0
  /\ tuned \in [Aps -> Freqs] /\ silent \in SUBSET Aps /\ now = 0
  /\ movedAt = [a \in Aps |-> -IeRefresh]
  /\ told = {} /\ setBack = FALSE

-------------------------------------------------------------------------------
(* Frames. *)

\* The channel element of an AP's frames, if there is one.
Element(a) == IF a \in silent THEN 0 ELSE ChannelOf(tuned[a])

\* An AP is heard within its band, and without radiotap nobody knows where.
RxOf(a) ==
  IF radiotap THEN {f \in Freqs : BandOf(f) = BandOf(tuned[a])} ELSE {0}

GoodFrames(a) ==
  [bssid : {a}, ssid : {a, Hidden}, channel : {Element(a)}, rx : RxOf(a),
   signal : Signals, damaged : {FALSE}]

\* A broken frame shows anything, of which one example of each will do.
BrokenFrames ==
  [bssid : Bssids, ssid : {Ghost}, channel : {0}, rx : {0}, signal : Signals,
   damaged : {TRUE}]

\* Mutants of Known: a name is what the frame says; a stale entry is kept until
\* it has no name.
KnownFromFrame(f) ==
  [ssid |-> f.ssid, channel |-> f.channel, at |-> now]
KnownForEver(f) ==
  IF f.bssid \in DOMAIN info /\ info[f.bssid].ssid # Hidden THEN info[f.bssid]
  ELSE [ssid |-> f.ssid, channel |-> f.channel, at |-> now]

\* What is known of the AP once the frame f is in: it is parsed when the AP is
\* new, its entry too old or nameless, and a name once known is kept.
Known(f) ==
  LET b == f.bssid
      cached == b \in DOMAIN info
  IN IF cached /\ now - info[b].at <= IeRefresh /\ info[b].ssid # Hidden
     THEN info[b]
     ELSE [ssid |-> IF f.ssid = Hidden /\ cached THEN info[b].ssid ELSE f.ssid,
           channel |-> f.channel, at |-> now]

\* Mutant of Dropped: the checksum is not looked at.
NeverDropped(f) == FALSE
Dropped(f) == radiotap /\ f.damaged

\* _handle_packet()
Handle(f) ==
  LET b == f.bssid
      known == Known(f)
      place == Resolve(f.rx, known.channel)
      obs == [ssid |-> known.ssid, channel |-> place.channel,
              frequency |-> place.frequency, rssi |-> f.signal,
              tuned |-> IF b \in Aps THEN tuned[b] ELSE 0,
              settled |-> IF b \in Aps THEN now - movedAt[b] ELSE 0,
              named |-> b \in told \/ f.ssid # Hidden]
  IN IF Dropped(f)
     THEN UNCHANGED <<info, pending, told>>
     ELSE /\ info' = Put(info, b, known)
          /\ pending' = IF b \in DOMAIN pending /\ f.signal <= pending[b].rssi
                        THEN pending ELSE Put(pending, b, obs)
          /\ told' = IF f.ssid = Hidden THEN told ELSE told \cup {b}

Hear(a) ==
  /\ \E f \in GoodFrames(a) : Handle(f)
  /\ UNCHANGED <<radiotap, broken, air>>

HearBroken ==
  /\ broken < MaxBad /\ broken' = broken + 1
  /\ \E f \in BrokenFrames : Handle(f)
  /\ UNCHANGED <<radiotap, air>>

\* _flush() hands the window on.
Flush ==
  /\ pending # Nothing /\ pending' = Nothing
  /\ UNCHANGED <<radiotap, info, broken, told, air>>

\* An AP changes its channel, not its band.
Move(a) ==
  /\ \E f \in Freqs \ {tuned[a]} :
       BandOf(f) = BandOf(tuned[a]) /\ tuned' = [tuned EXCEPT ![a] = f]
  /\ movedAt' = [movedAt EXCEPT ![a] = now]
  /\ UNCHANGED <<radiotap, info, pending, broken, told, silent, now, setBack>>

Tick ==
  /\ now < MaxTime /\ now' = now + 1
  /\ UNCHANGED <<radiotap, info, pending, broken, told, tuned, silent, movedAt, setBack>>

SetBack ==
  /\ now' \in 0..now - 1 /\ setBack' = TRUE
  /\ UNCHANGED <<radiotap, info, pending, broken, told, tuned, silent, movedAt>>

CaptureNext ==
  \/ \E a \in Aps : Hear(a) \/ Move(a)
  \/ HearBroken
  \/ Flush
  \/ Tick
  \/ SetBack

CaptureSpec == CaptureInit /\ [][CaptureNext]_captureVars

-------------------------------------------------------------------------------
(* Properties. *)

\* "A hidden beacon must not overwrite a name we already learned"
\* (monitor.py:549): a name that was told once is known for good, and every later
\* sighting carries it, whatever is parsed anew or taken from the cache.
NameRemembered ==
  /\ \A b \in told : info[b].ssid # Hidden
  /\ \A b \in DOMAIN pending : pending[b].named => pending[b].ssid # Hidden

\* "Channel and Frequency could disagree" (CHANGELOG.md:94) no more: a row says
\* one place, and that in the band the AP is in, if the capture says where a
\* frame was heard.
PlaceAgrees ==
  \A b \in DOMAIN pending :
    /\ pending[b].channel = ChannelOf(pending[b].frequency)
    /\ radiotap => BandOf(pending[b].frequency) = BandOf(pending[b].tuned)

\* A row says where the AP is, not where it was heard, once the AP has been
\* there for longer than ie_refresh_s, and unless its frames do not say or the
\* clock was set back (or the capture cannot tell broken frames): the cache is
\* never staler than that.
PlaceIsFresh ==
  ~setBack /\ (radiotap \/ broken = 0) =>
    \A a \in Aps \cap DOMAIN pending :
      LET o == pending[a]
      IN a \notin silent /\ BandOf(o.tuned) # 6 /\ o.settled > IeRefresh
         => o.frequency = o.tuned

\* "bad_fcs" (monitor.py:127): a frame with a broken checksum leaves nothing
\* behind, neither a device that does not exist nor a name on one that does.
NoGhosts ==
  radiotap =>
    /\ Ghost \notin DOMAIN info
    /\ \A b \in DOMAIN info : info[b].ssid \in {b, Hidden}

\* Who the AP is, and where.
IdentityKept == CaptureTypeOK /\ NameRemembered /\ NoGhosts
PlaceSound == PlaceAgrees /\ PlaceIsFresh

===============================================================================
