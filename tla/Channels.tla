-------------------------------- MODULE Channels --------------------------------
(***************************************************************************)
(* Channel numbers and frequencies (monitor.py _resolve_channel and its    *)
(* helpers, wifi.py _freq_to_channel).  A frequency or channel of 0 is     *)
(* one that is not known.                                                  *)
(***************************************************************************)
EXTENDS Integers

\* Mutant of ChannelOf: the lone channel 2 of the 6 GHz band is counted like the
\* others.
ChannelOfPlain(freq) ==
  IF freq = 2484 THEN 14
  ELSE IF freq \in 2412..2472 THEN (freq - 2407) \div 5
  ELSE IF freq \in 5900..7115 THEN (freq - 5950) \div 5
  ELSE IF freq \in 5000..5899 THEN (freq - 5000) \div 5
  ELSE 0

\* The channel of a frequency.
ChannelOf(freq) ==
  IF freq = 2484 THEN 14
  ELSE IF freq \in 2412..2472 THEN (freq - 2407) \div 5
  ELSE IF freq = 5935 THEN 2
  ELSE IF freq \in 5955..7115 THEN (freq - 5950) \div 5
  ELSE IF freq \in 5000..5899 THEN (freq - 5000) \div 5
  ELSE IF freq \in 4910..4999 THEN (freq - 4000) \div 5
  ELSE 0

\* The frequency of a channel outside the 6 GHz band.
FreqOf(channel) ==
  IF channel = 14 THEN 2484
  ELSE IF channel \in 1..13 THEN 2407 + channel * 5
  ELSE IF channel \in 32..177 THEN 5000 + channel * 5
  ELSE 0

BandOf(freq) == IF freq < 2500 THEN 2 ELSE IF freq >= 5900 THEN 6 ELSE 5

\* Mutant of Resolve: the band is not looked at.
ResolveAnyBand(rx, ie) ==
  IF FreqOf(ie) # 0 THEN [frequency |-> FreqOf(ie), channel |-> ie]
                    ELSE [frequency |-> rx, channel |-> ChannelOf(rx)]

\* Mutant of Resolve: what the AP says of itself is not used.
ResolveHeard(rx, ie) == [frequency |-> rx, channel |-> ChannelOf(rx)]

\* Where the AP is: the channel it names itself, unless that is in another band
\* than the frequency it was heard on.
Resolve(rx, ie) ==
  IF FreqOf(ie) # 0 /\ (rx = 0 \/ BandOf(rx) = BandOf(FreqOf(ie)))
  THEN [frequency |-> FreqOf(ie), channel |-> ie]
  ELSE [frequency |-> rx, channel |-> ChannelOf(rx)]
===============================================================================
