-------------------------------- MODULE AuthMode --------------------------------
(***************************************************************************)
(* How an AP's security is spelled (the AuthMode column): the monitor      *)
(* backend reads the elements of a captured frame, the sweep backend the   *)
(* text iw prints of the same AP, and wigle_auth.build_auth() spells both. *)
(*                                                                         *)
(* A spelling is the set of its brackets: their order is build_auth()'s.   *)
(* The cipher part of a bracket is left out.                               *)
(*                                                                         *)
(* Environment: the APs; where the capture's snaplen cuts a frame; what iw *)
(* calls a suite.                                                          *)
(***************************************************************************)
EXTENDS Integers, FiniteSets

CONSTANTS
  Suites,     \* AKM suites (of OUI 00-0F-AC) that APs offer
  MaxSuites,  \* bound: how many of them one AP offers
  Styles      \* how iw prints capabilities: "hex" or, in old releases, "words"

ASSUME AuthAssumption ==
  Suites \subseteq Nat /\ MaxSuites \in Nat /\ Styles \subseteq {"hex", "words"}

VARIABLES
  ap,        \* the AP
  captured,  \* the brackets the monitor backend gives it, once it has
  left,      \* history: the elements the captured frame still held
  swept      \* the brackets the sweep backend gives it, once it has

authVars == <<ap, captured, left, swept>>

\* The elements that tell of security, of a frame.
Elements == {"RSN", "WPA", "WPS"}
Tokens == {"EAP", "PSK", "SAE", "OWE", "SUITE-B"}
Brackets == {"WPA-EAP", "WPA-PSK", "WPA3-OWE", "WPA3-SAE", "WPA3-EAP",
             "WPA2-EAP", "WPA2-PSK", "WEP", "WPS", "ESS", "IBSS"}

\* An AP with security elements announces privacy; one without may, with WEP.
\* wpsNamed: "WPS:" is part of the network's name.
ApTypes ==
  {a \in [has : SUBSET Elements,
          rsn : {s \in SUBSET Suites : Cardinality(s) <= MaxSuites},
          wpa : SUBSET {1, 2}, privacy : BOOLEAN, ibss : BOOLEAN, wpsNamed : BOOLEAN] :
     /\ a.has \cap {"RSN", "WPA"} # {} => a.privacy
     /\ "RSN" \notin a.has => a.rsn = {}
     /\ "WPA" \notin a.has => a.wpa = {}}

\* ap is one of ApTypes from the first state on; a spelling ends in the type of
\* the network and calls no network with a WPA element WEP.
AuthTypeOK ==
  /\ captured \in SUBSET Brackets /\ left \in SUBSET ap.has /\ swept \in SUBSET Brackets
  /\ \A s \in {captured, swept} \ {{}} :
       /\ Cardinality(s \cap {"ESS", "IBSS"}) = 1
       /\ "WEP" \in s => s \subseteq {"WEP", "WPS", "ESS", "IBSS"}

AuthInit == ap \in ApTypes /\ captured = {} /\ left = {} /\ swept = {}

-------------------------------------------------------------------------------
(* build_auth() *)

WpaBrackets(akms) ==
  (IF akms \cap {"EAP", "SUITE-B"} # {} THEN {"WPA-EAP"} ELSE {})
    \cup (IF "PSK" \in akms \/ akms = {} THEN {"WPA-PSK"} ELSE {})

RsnBrackets(akms) ==
  (IF "OWE" \in akms THEN {"WPA3-OWE"} ELSE {})
    \cup (IF "SAE" \in akms THEN {"WPA3-SAE"} ELSE {})
    \cup (IF "SUITE-B" \in akms THEN {"WPA3-EAP"}
          ELSE IF "EAP" \in akms THEN {"WPA2-EAP"} ELSE {})
    \cup (IF "PSK" \in akms \/ akms \cap {"SAE", "OWE", "EAP", "SUITE-B"} = {}
          THEN {"WPA2-PSK"} ELSE {})

\* Mutants of BuildAuth: a network without a WPA element is open; one with
\* privacy is WEP besides.
BuildAuthOpen(privacy, ibss, has, wpa, rsn) ==
  (IF "WPA" \in has THEN WpaBrackets(wpa) ELSE {})
    \cup (IF "RSN" \in has THEN RsnBrackets(rsn) ELSE {})
    \cup (has \cap {"WPS"}) \cup {IF ibss THEN "IBSS" ELSE "ESS"}
BuildAuthWep(privacy, ibss, has, wpa, rsn) ==
  BuildAuthOpen(privacy, ibss, has, wpa, rsn) \cup (IF privacy THEN {"WEP"} ELSE {})

BuildAuth(privacy, ibss, has, wpa, rsn) ==
  LET keys == (IF "WPA" \in has THEN WpaBrackets(wpa) ELSE {})
                \cup (IF "RSN" \in has THEN RsnBrackets(rsn) ELSE {})
  IN (IF keys = {} /\ privacy THEN {"WEP"} ELSE keys)
       \cup (has \cap {"WPS"}) \cup {IF ibss THEN "IBSS" ELSE "ESS"}

-------------------------------------------------------------------------------
(* The monitor backend. *)

\* _RSN_AKMS; a suite that is not in it adds nothing.
RsnAkm(suite) ==
  CASE suite \in {1, 3, 5, 11} -> {"EAP"}
    [] suite \in {2, 4, 6, 19} -> {"PSK"}
    [] suite \in {8, 9, 20}    -> {"SAE"}
    [] suite \in {12, 13}      -> {"SUITE-B"}
    [] suite = 18              -> {"OWE"}
    [] OTHER                   -> {}

\* _WPA_AKMS
WpaAkm(suite) == IF suite = 1 THEN {"EAP"} ELSE {"PSK"}

\* What is left of a frame's elements: RSN stands before the vendor elements
\* (WPA, WPS), and an element that is cut is gone with all that follow.
Cuts(has) == {els \in SUBSET has : "RSN" \in has \ els => els = {}}

\* The AKMs of an element's list of suites.
WpaAkms == UNION {WpaAkm(s) : s \in ap.wpa}
RsnAkms == UNION {RsnAkm(s) : s \in ap.rsn}

\* describe_bss()
Describe(els) == BuildAuth(ap.privacy, ap.ibss, els, WpaAkms, RsnAkms)

\* A frame is captured, whole or cut.
Capture ==
  /\ captured = {}
  /\ left' \in Cuts(ap.has) /\ captured' = Describe(left')
  /\ UNCHANGED <<ap, swept>>

-------------------------------------------------------------------------------
(* The sweep backend. *)

\* What iw calls a suite: the words _akms() looks for in its name. "802.1X" and
\* "SUITE-B" are in the names of 11 and 12; an unknown suite is a number.
Words(suite) ==
  CASE suite \in {1, 3, 5, 13} -> {"802.1X"}
    [] suite \in {2, 4, 6}     -> {"PSK"}
    [] suite \in {8, 9}        -> {"SAE"}
    [] suite \in {11, 12}      -> {"802.1X", "SUITE-B"}
    [] suite = 18              -> {"OWE"}
    [] OTHER                   -> {}

\* Mutant of Akms: the words are told apart one by one, SUITE-B's 802.1X too,
\* and SAE's PSK is not expected.
AkmsFirst(words) ==
  IF "SAE" \in words THEN {"SAE"}
  ELSE (words \cap {"OWE", "PSK", "SUITE-B"})
         \cup (IF "802.1X" \in words THEN {"EAP"} ELSE {})

\* _akms(), of the line that names all suites of a section.
Akms(words) ==
  (words \cap {"SAE", "OWE", "PSK"})
    \cup (IF "SUITE-B" \in words THEN {"SUITE-B"}
          ELSE IF "802.1X" \in words THEN {"EAP"} ELSE {})

\* The capability line: "iw 6.9 on this hardware prints only `capability: ESS
\* (0x0431)` - no `Privacy` word" (wifi.py:257), and the number holds the bit.
Capability(style) ==
  [hex |-> style = "hex", bit |-> ap.privacy, word |-> style = "words" /\ ap.privacy]

\* Mutant of Privacy: the words alone.
PrivacyWord(line) == line.word

\* _capability_flags()
Privacy(line) == IF line.hex THEN line.bit ELSE line.word

\* The sections of a block, and "WPS:" anywhere in it, the line of the name included.
Sections == ap.has \cup (IF ap.wpsNamed THEN {"WPS"} ELSE {})

\* _classify_auth()
Classify(style) ==
  BuildAuth(Privacy(Capability(style)), ap.ibss, Sections,
            Akms(UNION {Words(s) : s \in ap.wpa}),
            Akms(UNION {Words(s) : s \in ap.rsn}))

\* The AP is in the output of a sweep.
Sweep ==
  /\ swept = {}
  /\ \E style \in Styles : swept' = Classify(style)
  /\ UNCHANGED <<ap, captured, left>>

AuthNext == Capture \/ Sweep

AuthSpec == AuthInit /\ [][AuthNext]_authVars

-------------------------------------------------------------------------------
(* Properties. *)

\* "they must agree byte-for-byte on how a network's security is spelled,
\* otherwise the same AP looks like two different networks depending on which
\* backend was running" (wigle_auth.py:3), of a frame that is whole and a name that
\* does not read like a section (such a name breaks it, too). The code does not
\* keep this: _RSN_AKMS and iw's names differ on four suites.
SpelledAlike ==
  captured # {} /\ swept # {} /\ left = ap.has /\ ~ap.wpsNamed => captured = swept

\* All that sets the spellings of an AP apart: suites 11 and 13, of which each side
\* takes the other one for SUITE-B; 19 and 20, which iw prints as numbers; and a
\* name that reads like a section.
Apart ==
  (IF ap.rsn \cap {11, 13} # {} THEN {"WPA2-EAP", "WPA3-EAP"} ELSE {})
    \cup (IF ap.rsn \cap {19, 20} # {} THEN {"WPA2-PSK", "WPA3-SAE"} ELSE {})
    \cup (IF ap.wpsNamed THEN {"WPS"} ELSE {})

\* How far the promise holds, whatever suites an AP offers together: the spellings
\* of a whole frame and of iw's text differ in no other bracket, and on whether the
\* network is an enterprise's they never differ.
ApartNowhereElse ==
  captured # {} /\ swept # {} /\ left = ap.has =>
    /\ (captured \cup swept) \ (captured \cap swept) \subseteq Apart
    /\ captured \cap {"WPA2-EAP", "WPA3-EAP"} = {} <=> swept \cap {"WPA2-EAP", "WPA3-EAP"} = {}

\* A frame that snaplen (monitor.py:284) cuts adds one bracket only: a WPA network
\* of whose key elements none is left is spelled WEP. No other frame makes a
\* network WEP that the sweep does not call so.
CutAddsOnlyWep ==
  captured # {} /\ swept # {} =>
    captured \ swept \subseteq
      Apart \cup (IF left \cap {"RSN", "WPA"} = {} /\ ap.has \cap {"RSN", "WPA"} # {}
                 THEN {"WEP"} ELSE {})

\* A network that announces privacy is never taken for an open one, wherever the
\* frame is cut, whatever iw prints and whatever suites it offers; nor is an
\* open one taken for secured.
SecuredNotOpen ==
  \A s \in {captured, swept} \ {{}} : ap.privacy <=> ~(s \subseteq {"WPS", "ESS", "IBSS"})

\* What a cut, the backend, iw's release and the name can make of an AP's security,
\* and no more.
SpelledSoundly == AuthTypeOK /\ ApartNowhereElse /\ CutAddsOnlyWep /\ SecuredNotOpen

===============================================================================
