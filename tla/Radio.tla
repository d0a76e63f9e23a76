--------------------------------- MODULE Radio ---------------------------------
(***************************************************************************)
(* How WiFi is listened to.  App._start_wifi picks an interface            *)
(* (scanners/iface.py) and brings up one of two backends on it: monitor    *)
(* capture, whose hop thread moves the radio from channel to channel       *)
(* (monitor.py), or, at its side or instead of it when it cannot start,    *)
(* sweeps with `iw scan`, one band after the other (wifi.py).  The radio   *)
(* may refuse a channel or a sweep at any time.                            *)
(*                                                                         *)
(* What becomes of the frames and sweeps is module ScanQueue's business;   *)
(* the stopping of the threads, too, except that a thread sees _stop at    *)
(* the head of its loop.                                                   *)
(***************************************************************************)
EXTENDS Integers, Selection, SequencesExt, FiniteSetsExt

CONSTANTS
  Listings,      \* what `iw dev` may list: sets of interfaces
  Prefs,         \* values of scan.wifi_iface: "auto", "monitor", "scan", a name
  MonNames,      \* names that end in "mon"
  Bands,         \* names of bands, "all" among them
  Plans,         \* band plans: sequences of names of bands
  BandFailLimit, \* BAND_FAIL_LIMIT
  HopOrder,      \* HOP_2G, HOP_5G and HOP_6G in a row
  Anchors        \* the frequencies of channels 1, 6 and 11

Freqs == Range(HopOrder)

ASSUME RadioAssumption ==
  /\ \A listing \in Listings, i \in UNION Listings : 
       /\ IsFiniteSet(listing)
       /\ i.type \in {"monitor", "managed", "AP"}
       /\ i.up \in BOOLEAN /\ i.owned \in BOOLEAN /\ i.no \in Nat
  /\ "all" \in Bands
  /\ \A p \in Plans : p \in Seq(Bands) /\ p # <<>>
  /\ BandFailLimit \in Nat \ {0}
  /\ HopOrder \in Seq(Nat) /\ Anchors \in Seq(Nat) /\ Range(Anchors) \subseteq Freqs

\* The environment: no two interfaces share a name, and none changes its type
\* between two listings of one start; only a monitor interface is named like one.
ASSUME NamesTellTypes ==
  \A i, j \in UNION Listings :
    /\ i.name = j.name => i.type = j.type
    /\ i.name \in MonNames => i.type = "monitor"

VARIABLES
  phase,    \* how far _start_wifi has come
  listed,   \* what the latest `iw dev` listed
  iface,    \* the interface picked
  refused,  \* history: the interface monitor capture could not start on
  worker,   \* where the hop thread or the sweeping thread is
  stop,     \* _stop is set
  \* of WifiScanner:
  plan,     \* self.plan
  usable,   \* the bands with a frequency in _supported, or all bands
  useFlush, \* _use_flush
  planIdx,  \* _plan_idx, modulo the length of the plan
  band,     \* the band in hand
  bandFail, \* _band_fail
  retrying, \* history: the band whose sweep was refused with `flush`
  watched,  \* the band the history follows
  answers,  \* history: the last answers to sweeps of that band
  \* of MonitorScanner:
  hopFreqs, \* hop_freqs
  hopIdx,   \* the loop's i, modulo the length of hop_freqs
  bad,      \* the loop's set of frequencies not to set again
  rejected, \* history: those that `iw` said no to
  freq      \* current_freq

startup == <<phase, listed, iface, refused>>
sweeper == <<plan, usable, useFlush, planIdx, band, bandFail, retrying,
             watched, answers>>
hopper == <<hopFreqs, hopIdx, bad, rejected, freq>>
radioVars == <<startup, worker, stop, sweeper, hopper>>

Names == {i.name : i \in UNION Listings} \cup Prefs \cup {"wlan0"}
NoBand == "no band"
NoFreq == 0

RadioTypes ==
  /\ phase \in {"pick", "monitor", "scan", "running"}
  /\ listed \in Listings \cup {{}}
  /\ iface \in Names \cup {"-"} /\ refused \in Names \cup {"-"}
  /\ worker \in {"none", "next", "sweep", "hop", "ended"}
  /\ stop \in BOOLEAN
  /\ plan \in Plans \cup {<<>>} /\ usable \subseteq Bands
  /\ useFlush \in BOOLEAN
  /\ planIdx \in 0 .. Len(plan)
  /\ band \in Bands \cup {NoBand} /\ retrying \in Bands \cup {NoBand}
  /\ bandFail \in [Bands -> 0 .. BandFailLimit]
  /\ watched \in Bands \cup {NoBand}
  /\ answers \in BoundedSeq({"ok", "failed"}, BandFailLimit)
  /\ hopFreqs \in Seq(Freqs)
  /\ hopIdx \in 0 .. Len(hopFreqs)
  /\ rejected \subseteq bad /\ bad \subseteq Freqs
  /\ freq \in Freqs \cup {NoFreq}

-------------------------------------------------------------------------------
(* Which interface. *)

\* _rank: up before down, not the pager's own before its own, the higher
\* number (of phy, then name) first.
Outranks(i, j) ==
  \/ i.up /\ ~j.up
  \/ i.up = j.up /\ j.owned /\ ~i.owned
  \/ i.up = j.up /\ i.owned = j.owned /\ i.no > j.no

Best(S) == {i \in S : \A j \in S : ~Outranks(j, i)}

Monitors(listing) == {i \in listing : i.type = "monitor" /\ i.up}

Scannables(listing) == {i \in listing : i.type = "managed"}

On(mode, names) == [mode : {mode}, iface : names]

\* An interface named in the configuration; one that is not listed is judged
\* by its name.
Named(name, listing) ==
  LET known == {i \in listing : i.name = name}
      isMonitor == IF known = {} THEN name \in MonNames
                                 ELSE \E i \in known : i.type = "monitor"
  IN  On(IF isMonitor THEN "monitor" ELSE "scan", {name})

ToScan(listing) ==
  On("scan", IF Scannables(listing) = {} THEN {"wlan0"}
             ELSE {i.name : i \in Best(Scannables(listing))})

\* pick_wifi_source.
PickWifi(p, listing) ==
  IF p \notin {"auto", "monitor", "scan"} THEN Named(p, listing)
  ELSE IF p = "scan" \/ Monitors(listing) = {} THEN ToScan(listing)
  ELSE On("monitor", {i.name : i \in Best(Monitors(listing))})

PickSource(p) ==
  \E listing \in Listings : \E choice \in PickWifi(p, listing) :
    /\ listed' = listing
    /\ iface' = choice.iface
    /\ phase' = choice.mode

\* The interface is picked as scan.wifi_iface says.
Start ==
  /\ phase = "pick" /\ \E p \in Prefs : PickSource(p)
  /\ UNCHANGED <<refused, worker, stop, sweeper, hopper>>

\* Mutant of FallBack: picks again with the default of the configuration.
FallBackAsConfigured ==
  /\ phase = "monitor"
  /\ refused' = iface
  /\ \E listing \in Listings : \E choice \in PickWifi("auto", listing) :
       /\ listed' = listing /\ iface' = choice.iface /\ phase' = "scan"
  /\ UNCHANGED <<worker, stop, sweeper, hopper>>

\* No tcpdump, no such interface, or it cannot be spawned: an alert, and the
\* interfaces are listed again, for one to sweep on.
FallBack ==
  /\ phase = "monitor"
  /\ refused' = iface
  /\ PickSource("scan")
  /\ UNCHANGED <<worker, stop, sweeper, hopper>>

\* _start_wifi returns, and its locals are gone.
Running == phase' = "running" /\ listed' = {} /\ refused' = "-"

-------------------------------------------------------------------------------
(* Monitor capture: the hop thread. *)

\* _build_hop_plan: one of the channels 1, 6 and 11 after every third.
Woven(freqs) ==
  LET anchors == Only(Anchors, Range(freqs))
      turn(n) == <<anchors[(((n \div 3) - 1) % Len(anchors)) + 1]>>
      woven[n \in 0..Len(freqs)] ==
        IF n = 0 THEN <<>>
        ELSE woven[n - 1] \o <<freqs[n]>> \o IF n % 3 = 0 THEN turn(n) ELSE <<>>
  IN  IF anchors = <<>> THEN freqs ELSE woven[Len(freqs)]

\* What the hop thread goes through, for what `iw phy` says the radio supports.
HopPlan(supported) ==
  Woven(Only(HopOrder, IF supported = {} THEN Freqs ELSE supported))

\* MonitorScanner.start: capture is up; without hopping (monitor_hop off) or
\* without a frequency to hop to there is no hop thread.
StartMonitor ==
  /\ phase = "monitor" /\ Running
  /\ \E hop \in BOOLEAN, supported \in SUBSET Freqs :
       /\ hopFreqs' = IF hop THEN HopPlan(supported) ELSE <<>>
       /\ worker' = IF hopFreqs' = <<>> THEN "none" ELSE "hop"
  /\ UNCHANGED <<iface, stop, sweeper, hopIdx, bad,
                 rejected, freq>>

HopFreq == hopFreqs[hopIdx + 1]

\* The head of the loop, and the step of i.
Hopping ==
  /\ worker = "hop" /\ ~stop
  /\ hopIdx' = (hopIdx + 1) % Len(hopFreqs)
  /\ UNCHANGED <<startup, stop, sweeper, hopFreqs>>

\* Mutant of HopSkip: i is only stepped after a hop.
HopStay ==
  /\ worker = "hop" /\ ~stop /\ HopFreq \in bad
  /\ UNCHANGED radioVars

HopSkip ==
  /\ Hopping /\ HopFreq \in bad
  /\ UNCHANGED <<worker, bad, rejected, freq>>

HopTo ==
  /\ Hopping /\ HopFreq \notin bad
  /\ freq' = HopFreq
  /\ UNCHANGED <<worker, bad, rejected>>

\* Mutant of HopRejected: the refusal is not noted.
HopRejectedForgets ==
  /\ Hopping /\ HopFreq \notin bad
  /\ rejected' = rejected \cup {HopFreq}
  /\ UNCHANGED <<worker, bad, freq>>

\* `iw` ends with an error; the thread ends when as many frequencies are bad as
\* the list is long.
HopRejected ==
  /\ Hopping /\ HopFreq \notin bad
  /\ bad' = bad \cup {HopFreq} /\ rejected' = rejected \cup {HopFreq}
  /\ worker' = IF Cardinality(bad') >= Len(hopFreqs) THEN "ended" ELSE "hop"
  /\ UNCHANGED freq

\* `iw` takes longer than 4 s or cannot be run.
HopRaises ==
  /\ Hopping /\ HopFreq \notin bad
  /\ bad' = bad \cup {HopFreq}
  /\ UNCHANGED <<worker, rejected, freq>>

Hop == HopSkip \/ HopTo \/ HopRejected \/ HopRaises

-------------------------------------------------------------------------------
(* Sweeps, band after band. *)

\* WifiScanner and its start; the thread asks `iw phy` which bands the radio
\* has.  An answer that cannot be read counts as all of them.
StartSweeps ==
  /\ phase = "scan" /\ Running
  /\ worker' \in {"next", "none"}   \* none: iw is not installed
  /\ plan' \in Plans /\ useFlush' \in BOOLEAN
  /\ \E has \in SUBSET (Bands \ {"all"}) : usable' = has \cup {"all"}
  /\ watched' \in Range(plan')
  /\ UNCHANGED <<iface, stop, hopper, planIdx, band,
                 bandFail, retrying, answers>>

Retired(b) == bandFail[b] >= BandFailLimit

\* How many slots from planIdx on the next band of the rotation is.
Ahead ==
  {d \in 0 .. Len(plan) - 1 :
     LET b == plan[((planIdx + d) % Len(plan)) + 1]
     IN  b \in usable /\ ~Retired(b)}

\* _next_band; when every slot is skipped, all that the driver can.
NextBand ==
  /\ worker = "next" /\ ~stop
  /\ IF Ahead = {}
     THEN band' = "all" /\ UNCHANGED planIdx
     ELSE LET slot == planIdx + Min(Ahead)
          IN  /\ band' = plan[(slot % Len(plan)) + 1]
              /\ planIdx' = (slot + 1) % Len(plan)
  /\ worker' = "sweep"
  /\ UNCHANGED <<startup, stop, hopper, plan, usable, useFlush, bandFail,
                 retrying, watched, answers>>

Swept ==
  /\ worker = "sweep" /\ worker' = "next"
  /\ UNCHANGED <<startup, stop, hopper, plan, usable, band, watched>>

Note(answer) ==
  answers' = IF band # watched THEN answers
             ELSE LET all == Append(answers, answer)
                  IN  IF Len(all) > BandFailLimit THEN Tail(all) ELSE all

\* Mutant of SweepOk: failures are counted over the whole session.
SweepOkKeepsCount ==
  /\ Swept /\ Note("ok") /\ retrying' = NoBand
  /\ UNCHANGED <<useFlush, planIdx, bandFail>>

SweepOk ==
  /\ Swept /\ Note("ok") /\ retrying' = NoBand
  /\ bandFail' = [bandFail EXCEPT ![band] = 0]
  /\ UNCHANGED <<useFlush, planIdx>>

\* Mutants of FlushRefused: it moves on to the next band; it takes every usage
\* error for a refused flush.
FlushRefusedMovesOn ==
  /\ Swept /\ useFlush /\ useFlush' = FALSE
  /\ retrying' = band
  /\ UNCHANGED <<planIdx, bandFail, answers>>

FlushRefusedAlways ==
  /\ Swept /\ useFlush' = FALSE
  /\ planIdx' = (planIdx + Len(plan) - 1) % Len(plan)
  /\ retrying' = band
  /\ UNCHANGED <<bandFail, answers>>

\* An error that reads like a usage error, while `flush` is still sent: the
\* sweep is tried again without.
FlushRefused ==
  /\ Swept /\ useFlush /\ useFlush' = FALSE
  /\ planIdx' = (planIdx + Len(plan) - 1) % Len(plan)
  /\ retrying' = band
  /\ UNCHANGED <<bandFail, answers>>

\* Any other error.  Counts beyond the limit are not told apart.
SweepFailed ==
  /\ Swept /\ Note("failed") /\ retrying' = NoBand
  /\ bandFail' = [bandFail EXCEPT ![band] = Min({@ + 1, BandFailLimit})]
  /\ UNCHANGED <<useFlush, planIdx>>

\* The sweep takes too long, or `iw` cannot be run.
SweepRaises ==
  /\ Swept /\ retrying' = NoBand
  /\ UNCHANGED <<useFlush, planIdx, bandFail, answers>>

Sweep == NextBand \/ SweepOk \/ FlushRefused \/ SweepFailed \/ SweepRaises

-------------------------------------------------------------------------------

\* The session ends; the thread sees it at the head of its loop.
Stop ==
  /\ phase = "running" /\ ~stop /\ stop' = TRUE
  /\ UNCHANGED <<startup, worker, sweeper, hopper>>

End ==
  /\ worker \in {"next", "hop"} /\ stop /\ worker' = "ended"
  /\ UNCHANGED <<startup, stop, sweeper, hopper>>

RadioInit ==
  /\ phase = "pick" /\ listed = {}
  /\ iface = "-" /\ refused = "-" /\ worker = "none" /\ stop = FALSE
  /\ plan = <<>> /\ usable = {} /\ useFlush = FALSE
  /\ planIdx = 0 /\ band = NoBand /\ bandFail = [b \in Bands |-> 0]
  /\ retrying = NoBand /\ watched = NoBand /\ answers = <<>>
  /\ hopFreqs = <<>> /\ hopIdx = 0 /\ bad = {} /\ rejected = {}
  /\ freq = NoFreq

RadioNext ==
  \/ Start \/ StartMonitor \/ FallBack \/ StartSweeps
  \/ Hop \/ Sweep
  \/ Stop \/ End

\* The threads run, and every `iw` ends: it is run with a timeout.
RadioSpec == RadioInit /\ [][RadioNext]_radioVars /\ WF_radioVars(Hop \/ Sweep \/ End)

-------------------------------------------------------------------------------
(* Properties. *)

\* Monitor capture that cannot start falls back to an interface that can be
\* swept on, when one is listed: neither the monitor interface just refused nor
\* another (wdgwars.py:233-240).
FallBackCanScan ==
  refused # "-" /\ Scannables(listed) # {} =>
    /\ iface # refused
    /\ \A i \in listed : i.name = iface => i.type = "managed"

\* "Drop it once and retry the same band before blaming it" (wifi.py:454): the
\* sweep after a refused `flush` is of the band refused, whatever was skipped
\* to get to it.
RetryKeepsBand ==
  worker = "sweep" /\ retrying # NoBand => band = retrying

\* A retired band gets no slot again ("all" alone can, by a success when it is
\* swept for want of another), so retiring takes as many failures in a row as
\* the limit has, with no success between them; a refused `flush` is none
\* (wifi.py:306-309).
RetiredAfterFailures ==
  watched # NoBand /\ Retired(watched) =>
    /\ Len(answers) = BandFailLimit
    /\ \A n \in DOMAIN answers : answers[n] = "failed"

\* The rotation of bands: it retries the band that was refused and retires one for
\* its own failures only, and the radio it turns is what its types say.
RotationSound == RadioTypes /\ RetryKeepsBand /\ RetiredAfterFailures

\* The rotation is fair: a band of the plan that the radio has is swept again,
\* whatever becomes of the sweeps before it, unless it is retired first.
EveryBandAgain ==
  \A b \in Bands :
    (worker \in {"next", "sweep"} /\ b \in Range(plan) \cap usable)
      ~> (band = b \/ Retired(b) \/ stop)

\* The hop thread comes back to every frequency that has not failed, however
\* many others have.
GoodFreqAgain ==
  \A f \in Freqs :
    (worker = "hop" /\ f \in Range(hopFreqs)) ~> (freq = f \/ f \in bad \/ stop)

\* "channel hop rejected on every freq" (monitor.py:442) is said, and the
\* thread ends, once that is so.
AllRejectedEndsHopping ==
  (worker = "hop" /\ Range(hopFreqs) \subseteq rejected)
    ~> (worker = "ended")

===============================================================================
