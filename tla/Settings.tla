-------------------------------- MODULE Settings --------------------------------
(***************************************************************************)
(* config.json, the settings in memory and what is in effect               *)
(* (load_config, save_config, the CONFIG screens).  Each change is made in *)
(* memory first and saved at once, by a write that truncates the file.     *)
(*                                                                         *)
(* Environment: edits of the file over SSH ("edit config.json on the       *)
(* pager", README.md:107), kills, a full disk, the device that gpsd reads. *)
(***************************************************************************)
EXTENDS Integers, Selection

CONSTANTS
  ApiKeys,    \* API keys; none is NoKey
  NoKey,
  Devices,    \* serial devices a GPS may be at
  AcmZero,    \* "/dev/ttyACM0"
  NoDevice,   \* no device
  Bright,     \* the default brightness, its least and its most (70, 5, 100)
  Darkest,
  Brightest,
  DimTo,      \* the default dim level
  MaxEdits    \* bound: edits over SSH

ASSUME SettingsAssumption ==
  /\ NoKey \notin ApiKeys /\ NoDevice \notin Devices /\ AcmZero \in Devices
  /\ {Bright, Darkest, Brightest, DimTo} \subseteq Nat
  /\ Darkest <= Bright /\ Bright <= Brightest /\ DimTo <= 100 /\ MaxEdits \in Nat

VARIABLES
  config,  \* config.json: its settings, and whether it is whole
  cfg,     \* App.cfg
  doing,   \* what the program does: "off", "menu", or saves what was changed
  live,    \* the IdleManager's brightness and dim_level
  reader,  \* the GpsReader: the devices it was given, the one it reports
  gpsd,    \* the device gpsd reads
  wanted,  \* history: the API key set last, unless a save undid or lost it
  beside,  \* history: the file was edited since the program read or wrote it
  edits    \* history: edits over SSH

settingsVars == <<config, cfg, doing, live, reader, gpsd, wanted, beside, edits>>

\* Settings that are there; those that are not have a default.
Keys == {"api_key", "brightness", "auto_dim_level", "devices", "baud", "scan"}
Empty == [k \in {} |-> 0]
Get(c, k, default) == IF k \in DOMAIN c THEN c[k] ELSE default

\* The lists of devices: none (AUTO), or some in order of preference.
Lists == {l \in Seq(Devices) : NoRepeats(l)}

Saving == {"saving", "saving, then restart gps"}

IsSettings(c) ==
  /\ DOMAIN c \subseteq Keys
  /\ Get(c, "api_key", NoKey) \in ApiKeys \cup {NoKey}
  /\ Get(c, "brightness", Bright) \in Darkest..Brightest
  /\ Get(c, "auto_dim_level", DimTo) \in 0..100
  /\ Get(c, "devices", <<>>) \in Lists
  /\ Get(c, "baud", 0) \in 0..1 /\ Get(c, "scan", 0) \in 0..1

SettingsTypes ==
  /\ IsSettings(config.cfg) /\ config.whole \in BOOLEAN
  /\ IsSettings(cfg) /\ doing \in {"off", "menu"} \cup Saving
  /\ live \in [brightness : Darkest..Brightest, dim : Nat] /\ live.dim <= live.brightness
  /\ reader \in [asked : Lists, device : Devices \cup {NoDevice}]
  /\ gpsd \in Devices /\ wanted \in ApiKeys \cup {NoKey}
  /\ beside \in BOOLEAN /\ edits \in 0..MaxEdits

Clamp(low, high, n) == IF n < low THEN low ELSE IF n > high THEN high ELSE n

\* load_config(): what does not parse is no setting at all.
Load == IF config.whole THEN config.cfg ELSE Empty

\* IdleManager.__init__()
IdleInit(c) ==
  LET b == Clamp(Darkest, Brightest, Get(c, "brightness", Bright))
  IN [brightness |-> b, dim |-> Clamp(0, b, Get(c, "auto_dim_level", DimTo))]

\* GpsReader(): App.__init__() and _restart_gps() give it different defaults.
NewReader(c, default) == [asked |-> Get(c, "devices", default), device |-> NoDevice]

SettingsInit ==
  /\ config = [whole |-> TRUE, cfg |-> Empty] /\ cfg = Empty /\ doing = "off"
  /\ live = IdleInit(Empty) /\ reader = NewReader(Empty, <<>>)
  /\ gpsd \in Devices /\ wanted = NoKey /\ beside = FALSE /\ edits = 0

-------------------------------------------------------------------------------

\* main(), App.__init__()
Boot ==
  /\ doing = "off" /\ doing' = "menu"
  /\ cfg' = Load /\ live' = IdleInit(Load) /\ reader' = NewReader(Load, <<AcmZero>>)
  /\ beside' = FALSE
  /\ UNCHANGED <<config, gpsd, wanted, edits>>

\* A change c to the settings is made and save_config() opens the file: what was
\* in it is gone.  `then` is what is left to do when it is written.
SaveFirst(c, then) ==
  /\ doing = "menu" /\ doing' = then
  /\ cfg' = c /\ config' = [whole |-> FALSE, cfg |-> Empty]
  /\ UNCHANGED <<gpsd, beside, edits>>

\* _cfg_edit_key()
EditKey ==
  \E k \in ApiKeys :
    SaveFirst(Put(cfg, "api_key", k), "saving") /\ wanted' = k /\ UNCHANGED <<live, reader>>

\* Mutant of SetBrightness: the dim level stays.
SetBrightnessOnly(b) == [live EXCEPT !.brightness = b]

\* IdleManager.set_brightness()
SetBrightness(b) ==
  [brightness |-> b, dim |-> IF live.dim > b THEN b ELSE live.dim]

\* _cfg_brightness(), and adjust_brightness() in a scan.
Brightness(delta) ==
  LET new == Clamp(Darkest, Brightest, live.brightness + delta)
  IN /\ SaveFirst(Put(cfg, "brightness", new), "saving")
     /\ live' = SetBrightness(new) /\ UNCHANGED <<reader, wanted>>

\* _cfg_dim(): the manager keeps the level below the brightness, the file does not.
Dim(delta) ==
  LET new == Clamp(0, 100, live.dim + delta)
  IN /\ SaveFirst(Put(cfg, "auto_dim_level", new), "saving")
     /\ live' = [live EXCEPT !.dim = Clamp(0, live.brightness, new)]
     /\ UNCHANGED <<reader, wanted>>

\* _cfg_toggle(), _cfg_scan_num(), _cfg_cycle_band(), _set_wifi_iface(): the
\* settings the next scan reads.
SetScan ==
  /\ SaveFirst(Put(cfg, "scan", 1 - Get(cfg, "scan", 0)), "saving")
  /\ UNCHANGED <<live, reader, wanted>>

\* "Keep the chosen device first; retain others as fallback order"; AUTO has none.
Preferred(d) ==
  IF d = NoDevice THEN <<>>
  ELSE <<d>> \o Only(Get(cfg, "devices", <<>>), Devices \ {d})

\* _set_gps_device()
SetDevice ==
  \E d \in Devices \cup {NoDevice} :
    /\ SaveFirst(Put(cfg, "devices", Preferred(d)), "saving, then restart gps")
    /\ UNCHANGED <<live, reader, wanted>>

\* _cfg_gps_baud()
SetBaud ==
  /\ SaveFirst(Put(cfg, "baud", 1 - Get(cfg, "baud", 0)), "saving, then restart gps")
  /\ UNCHANGED <<live, reader, wanted>>

\* Mutant of Restarted: the reader of before goes on.
NotRestarted == reader

\* _restart_gps()
Restarted == NewReader(cfg, <<>>)

\* The settings are written, over whatever an edit has put there, and the
\* change's handler goes on.
Saved ==
  /\ doing \in Saving /\ doing' = "menu"
  /\ config' = [whole |-> TRUE, cfg |-> cfg]
  /\ reader' = IF doing = "saving" THEN reader ELSE Restarted
  /\ wanted' = IF beside THEN Get(cfg, "api_key", NoKey) ELSE wanted
  /\ beside' = FALSE
  /\ UNCHANGED <<cfg, live, gpsd, edits>>

\* The write fails and no handler on the way to main() catches it, or the
\* program is killed: what was opened stays as it is, and every setting is lost.
Die ==
  /\ doing # "off" /\ doing' = "off"
  /\ wanted' = IF config.whole THEN wanted ELSE NoKey
  /\ UNCHANGED <<config, cfg, live, reader, gpsd, beside, edits>>

\* _action_exit()
Quit ==
  /\ doing = "menu" /\ doing' = "off"
  /\ UNCHANGED <<config, cfg, live, reader, gpsd, wanted, beside, edits>>

\* Somebody edits the file's API key over SSH; the program does not know.
SshEdit ==
  /\ edits < MaxEdits /\ edits' = edits + 1
  /\ \E k \in ApiKeys :
       config' = [whole |-> TRUE, cfg |-> Put(Load, "api_key", k)] /\ wanted' = k
  /\ beside' = TRUE
  /\ UNCHANGED <<cfg, doing, live, reader, gpsd>>

\* gpsd's DEVICES and DEVICE reports: "gpsd owns device selection", and the
\* reader takes its word.
Report ==
  /\ doing = "menu" /\ reader' = [reader EXCEPT !.device = gpsd]
  /\ UNCHANGED <<config, cfg, doing, live, gpsd, wanted, beside, edits>>

SettingsNext ==
  \/ Boot \/ Saved \/ Die \/ Quit \/ SshEdit \/ Report
  \/ EditKey \/ SetScan \/ SetDevice \/ SetBaud
  \/ \E delta \in {-10, 10} : Brightness(delta)
  \/ \E delta \in {-5, 5} : Dim(delta)

SettingsSpec == SettingsInit /\ [][SettingsNext]_settingsVars

-------------------------------------------------------------------------------
(* Properties. *)

\* The API key set last, on the device or over SSH, is the one on disk, and the one
\* in use unless it was set beside the running program, across any number of
\* changes, restarts and crashes. Two things take it back, both by way of a save:
\* one that is cut short (wdgwars.py:47 truncates the file before it writes it),
\* after which there is no key, and one that undoes an edit made beside the program,
\* after which the key is the program's. A key set after either is kept again.
KeyKept ==
  /\ doing \notin Saving => Get(Load, "api_key", NoKey) = wanted
  /\ doing # "off" /\ ~beside => Get(cfg, "api_key", NoKey) = wanted

\* A restart changes nothing: between two changes the file holds the settings in
\* memory, but for an edit beside the program, and what is in effect is what main()
\* would make of it. Only a dim level that a low brightness has pushed down comes
\* back with a restart.
RestartKeeps ==
  doing = "menu" =>
    /\ Load = IF beside THEN Put(cfg, "api_key", wanted) ELSE cfg
    /\ live.brightness = IdleInit(Load).brightness
    /\ live.dim <= IdleInit(Load).dim

\* "hot-restarts the GPS reader so the new device takes effect without restarting
\* the payload" (wdgwars.py:732): between two changes the reader runs with the
\* devices that are set, the one chosen last before the others.
ReaderFollows ==
  doing = "menu" /\ "devices" \in DOMAIN cfg => reader.asked = cfg["devices"]

\* Memory, file and what is in effect agree whenever no change is being made.
SettingsAgree == SettingsTypes /\ KeyKept /\ RestartKeeps /\ ReaderFollows

\* "If it lands on the wrong one, override via CONFIG -> GPS DEVICE"
\* (README.md:112): the reader reads the device that was chosen.
ChosenDeviceIsRead ==
  doing = "menu" /\ reader.device # NoDevice /\ Get(cfg, "devices", <<>>) # <<>>
    => reader.device = Head(cfg["devices"])

===============================================================================
