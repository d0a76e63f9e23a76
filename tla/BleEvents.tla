------------------------------- MODULE BleEvents -------------------------------
(***************************************************************************)
(* What the BLE backend makes of bluetoothctl's lines (BleScanner._run):   *)
(* the device a line is about, the names learned so far, and the window of *)
(* the strongest sightings.                                                *)
(*                                                                         *)
(* Environment: bluetoothctl's lines, in any order.  A line that names no  *)
(* device goes on about the device named last.                             *)
(***************************************************************************)
EXTENDS Integers, Selection

CONSTANTS
  Macs,      \* devices
  NoMac,     \* a line that names no device; no device named yet
  Rssis,     \* signal strengths
  MaxAttr    \* bound: lines about an attribute that is not looked for

ASSUME BleAssumption == NoMac \notin Macs /\ Rssis \subseteq Int /\ MaxAttr \in Nat

VARIABLES
  current,  \* current_mac
  subject,  \* history: the device the lines are about, NoMac before the first
  names,    \* names
  window,   \* _pending
  peak,     \* history: the strongest signal of a device in the window
  known,    \* history: the devices whose name was known at their last sighting
  introduced,  \* history: the devices that have told their name
  leaked,   \* history: the devices an attribute's text may have named
  attrs     \* history: how many such lines there were

bleVars == <<current, subject, names, window, peak, known, introduced, leaked, attrs>>

\* A text is a device's name, its alias (its address, as long as no name is
\* known), or what else may stand behind its address.
Text == [of : Macs, is : {"name", "alias", "attribute"}]
Unnamed == [of |-> NoMac, is |-> "nothing"]

BleTypeOK ==
  /\ current \in Macs \cup {NoMac} /\ subject \in Macs \cup {NoMac}
  /\ DOMAIN names \subseteq Macs /\ \A m \in DOMAIN names : names[m] \in Text
  /\ DOMAIN window \subseteq Macs /\ DOMAIN peak = DOMAIN window
  /\ \A m \in DOMAIN window :
       /\ window[m].rssi \in Rssis
       /\ window[m].name \in Text \cup {Unnamed}
  /\ known \subseteq DOMAIN window /\ introduced \subseteq DOMAIN names
  /\ leaked \subseteq Macs /\ attrs \in 0..MaxAttr

NoneHeard == [m \in {} |-> 0]

BleInit ==
  /\ current = NoMac /\ subject = NoMac /\ names = NoneHeard /\ window = NoneHeard
  /\ peak = NoneHeard /\ known = {} /\ introduced = {} /\ leaked = {} /\ attrs = 0

-------------------------------------------------------------------------------

NameOf(m) == IF m \in DOMAIN names THEN names[m] ELSE Unnamed

\* The device a line is about, for the program and in truth: the one it names, or
\* the one named last.
About(mac) == IF mac = NoMac THEN current ELSE mac
Truly(mac) == IF mac = NoMac THEN subject ELSE mac

\* Mutants of Line: only an attribute that is looked for names a device; a line
\* before the first device is about something.
LineOfListed(mac, found) ==
  /\ found => About(mac) # NoMac
  /\ current' = IF found THEN About(mac) ELSE current
  /\ subject' = Truly(mac)
LineOfNone(mac, found) == current' = About(mac) /\ subject' = Truly(mac)

\* A line; what is found in it needs a device.
Line(mac, found) ==
  /\ found => About(mac) # NoMac
  /\ current' = About(mac) /\ subject' = Truly(mac)

\* Mutant of Default: the text behind an address always is the name.
DefaultAlways(m, text) == Put(names, m, text)

\* names.setdefault(): a name that is known stays.
Default(m, text) == IF m \in DOMAIN names THEN names ELSE Put(names, m, text)

\* Mutants of Sighting: a name takes the weaker signal along; a name is not
\* looked for again; the latest sighting counts.
SightingWeaker(m, rssi) ==
  IF m \notin DOMAIN window \/ rssi > window[m].rssi \/ window[m].name = Unnamed
  THEN [name |-> NameOf(m), rssi |-> rssi]
  ELSE window[m]
SightingUnnamed(m, rssi) ==
  IF m \notin DOMAIN window \/ rssi > window[m].rssi
  THEN [name |-> NameOf(m), rssi |-> rssi]
  ELSE window[m]

\* What the window holds of device m after a signal: its strongest, and a name if
\* one has become known.
Sighting(m, rssi) ==
  IF m \notin DOMAIN window \/ rssi > window[m].rssi
  THEN [name |-> NameOf(m), rssi |-> rssi]
  ELSE IF window[m].name = Unnamed THEN [window[m] EXCEPT !.name = NameOf(m)]
  ELSE window[m]

\* "RSSI: ..."
Rssi(mac, rssi) ==
  LET m == About(mac)
  IN /\ Line(mac, TRUE)
     /\ window' = Put(window, m, Sighting(m, rssi))
     /\ peak' = Put(peak, m, IF m \in DOMAIN peak /\ peak[m] > rssi THEN peak[m] ELSE rssi)
     /\ known' = IF m \in DOMAIN names THEN known \cup {m} ELSE known \ {m}
     /\ UNCHANGED <<names, introduced, leaked, attrs>>

\* "Name: ..." is the name, whatever was the name before.
Name(mac) ==
  LET m == About(mac)
  IN /\ Line(mac, TRUE)
     /\ names' = Put(names, m, [of |-> Truly(mac), is |-> "name"])
     /\ introduced' = introduced \cup {m} /\ leaked' = leaked \ {m}
     /\ UNCHANGED <<window, peak, known, attrs>>

\* "[NEW] Device <mac> <alias>", and [DEL] the same.
Alias(m) ==
  /\ Line(m, FALSE) /\ names' = Default(m, [of |-> m, is |-> "alias"])
  /\ UNCHANGED <<window, peak, known, introduced, leaked, attrs>>

\* Mutant of Skipped: no attribute is.
SkippedNone(listed) == FALSE

\* The attributes that are not taken for a name: RSSI, TxPower, UUID and those of
\* the manufacturer.
Skipped(listed) == listed

\* "[CHG] Device <mac> <attribute>: ...".  The text of an attribute the list lacks
\* (Connected, ServiceData, AdvertisingFlags, ...) becomes the name of a device
\* that has none yet.
Attribute(m, listed) ==
  /\ attrs < MaxAttr /\ attrs' = attrs + 1
  /\ Line(m, FALSE)
  /\ names' = IF Skipped(listed) THEN names
              ELSE Default(m, [of |-> m, is |-> "attribute"])
  /\ leaked' = IF listed \/ m \in DOMAIN names THEN leaked ELSE leaked \cup {m}
  /\ UNCHANGED <<window, peak, known, introduced>>

\* _flush()
BleFlush ==
  /\ window # NoneHeard
  /\ window' = NoneHeard /\ peak' = NoneHeard /\ known' = {}
  /\ UNCHANGED <<current, subject, names, introduced, leaked, attrs>>

BleNext ==
  \/ \E mac \in Macs \cup {NoMac} : Name(mac) \/ \E rssi \in Rssis : Rssi(mac, rssi)
  \/ \E m \in Macs : Alias(m) \/ \E listed \in BOOLEAN : Attribute(m, listed)
  \/ BleFlush

BleSpec == BleInit /\ [][BleNext]_bleVars

-------------------------------------------------------------------------------
(* Properties. *)

\* "Keep the strongest sighting in the window" (ble.py:202): also when the name
\* comes later, with a weaker signal.
StrongestKept == \A m \in DOMAIN window : window[m].rssi = peak[m]

\* A device whose name was known when it was last heard is not handed over
\* without one.
NamedWhenKnown == \A m \in known : window[m].name # Unnamed

\* A name that a device has told is never lost to an alias or an attribute.
NameSticks == \A m \in introduced : names[m].is = "name"

\* A device is called by its own name, or by its own alias; only a device heard of
\* by an attribute that the list at ble.py:192 lacks, before it told its name, is
\* called by that.
NameIsOwn ==
  \A m \in DOMAIN names :
    names[m].of = m /\ (m \notin leaked => names[m].is # "attribute")

\* What the backend says of a device: its strongest signal under its own name.
DevicesDescribed == BleTypeOK /\ StrongestKept /\ NamedWhenKnown /\ NameSticks /\ NameIsOwn

===============================================================================
