--------------------------------- MODULE Screen ---------------------------------
(***************************************************************************)
(* The pager's screens, buttons and backlight: the idle manager            *)
(* (ui/idle.py), the dialogs and menus that wait on it (ui/dialog.py,      *)
(* menu.py, keyboard.py), the buttons of the scan loop and the settings    *)
(* that change the backlight.                                              *)
(*                                                                         *)
(* There are three kinds of screen.  A modal one (menu, alert, question)   *)
(* sits in wait_button(); the GPS wait in wait_with() and the HUD in the   *)
(* scan loop have loops of their own.  All three tick the idle manager,    *)
(* then look at one event.  Where the program is busy (requests, starting  *)
(* and stopping a scan) nobody looks at the buttons or ticks.              *)
(*                                                                         *)
(* Environment: a user who presses and releases one button at a time; the  *)
(* driver's queue of events; time, in units of a second, of which a loop   *)
(* that is not busy makes several rounds in one; the wall clock, which may *)
(* be set.  Times are kept as ages.                                        *)
(***************************************************************************)
EXTENDS Integers, SequencesExt

CONSTANTS
  Timeouts,      \* idle_timeout_s: the values the setting ranges over
  MinBright,     \* least brightness that can be set
  MaxBright,     \* greatest brightness
  BrightStep,    \* by how much a press changes the brightness
  DimStep,       \* by how much a press changes the dim level
  MaxQueue,      \* bound: events that wait in the driver
  MaxBack,       \* bound: how far the wall clock is set back
  Longest        \* bound: where ages stop counting

ASSUME ScreenAssumption ==
  /\ Timeouts \subseteq Nat \ {0} /\ Timeouts # {}
  /\ MinBright \in Nat /\ MaxBright \in Nat /\ MinBright <= MaxBright
  /\ BrightStep \in Nat /\ DimStep \in Nat
  /\ MaxQueue \in Nat /\ MaxBack \in Nat
  /\ Longest \in Nat /\ \A t \in Timeouts : t < Longest

VARIABLES
  screen,      \* what is shown
  pc,          \* where the loop is: about to tick, at the events, draining
  paused,      \* st.paused of the scan
  queue,       \* events that wait in the driver, oldest first
  held,        \* the button held down, as an event, or none
  asleep,      \* IdleManager.asleep
  since,       \* time.time() - last_activity
  timeout,     \* IdleManager.timeout
  brightness,  \* IdleManager.brightness
  dim,         \* IdleManager.dim_level
  panel,       \* the brightness the panel really has
  ticked,      \* the loop has ticked in this second
  quiet,       \* history: seconds since the user did something, or it was heeded
  setBack      \* history: the clock was set back since last_activity

idle == <<asleep, since, timeout, brightness, dim, panel>>
user == <<queue, held>>
clock == <<ticked, quiet, setBack>>
vars == <<screen, pc, paused, user, idle, clock>>

Buttons == {"A", "B", "Up", "Down"}

\* A press or release; dark tells that the panel was dimmed at the press.
Event == [btn : Buttons, press : BOOLEAN, dark : BOOLEAN]
None == [btn |-> "none"]

\* Modal screens, and where each button may lead: A on a menu to what its items
\* can show first.  A screen is left alone by the buttons not listed.
Leads ==
  [menu     |-> [A |-> {"menu", "gps", "starting", "syncing", "list", "notice",
                        "config", "jump", "off"}],
   list     |-> [A |-> {"detail", "menu"}, B |-> {"menu"}],
   detail   |-> [A |-> {"list"}, B |-> {"list"}],
   notice   |-> [A |-> {"menu"}, B |-> {"menu"}],
   jump     |-> [A |-> {"handoff", "menu"}, B |-> {"menu"}],
   handoff  |-> [A |-> {"bye"}, B |-> {"bye"}],
   off      |-> [A |-> {"bye"}, B |-> {"menu"}],
   noFix    |-> [A |-> {"menu"}, B |-> {"menu"}],
   warning  |-> [A |-> {"starting"}, B |-> {"starting"}],
   end      |-> [A |-> {"stopping"}, B |-> {"hud"}],
   saved    |-> [A |-> {"menu"}, B |-> {"menu"}],
   config   |-> [A |-> {"config", "keyboard", "testing", "told", "menu"},
                 B |-> {"menu"}],
   keyboard |-> [A |-> {"keyboard", "told"}, B |-> {"config"}],
   told     |-> [A |-> {"config"}, B |-> {"config"}]]

\* Where the program is busy, and what it shows then.
BusyThen ==
  [syncing  |-> {"notice"},
   testing  |-> {"told"},
   starting |-> {"warning", "hud"},
   stopping |-> {"saved"}]

Modal == DOMAIN Leads
Busy == DOMAIN BusyThen
Screens == Modal \cup Busy \cup {"gps", "hud", "bye"}

TypeOK ==
  /\ screen \in Screens /\ pc \in {"tick", "input", "drain"}
  /\ paused \in BOOLEAN
  /\ queue \in Seq(Event) /\ held \in Event \cup {None}
  /\ asleep \in BOOLEAN /\ since \in Int /\ timeout \in Timeouts
  /\ brightness \in MinBright..MaxBright /\ dim \in Nat /\ panel \in Nat
  /\ ticked \in BOOLEAN /\ quiet \in Nat /\ setBack \in BOOLEAN

\* main(): the manager holds dim_level below the brightness from the start.
Init ==
  /\ screen = "menu" /\ pc = "tick" /\ paused = FALSE
  /\ queue = <<>> /\ held = None
  /\ asleep = FALSE /\ since = 0 /\ timeout \in Timeouts
  /\ brightness \in MinBright..MaxBright /\ dim \in 0..brightness
  /\ panel = brightness
  /\ ticked = FALSE /\ quiet = 0 /\ setBack = FALSE

-------------------------------------------------------------------------------
(* The user and the clocks. *)

Press(btn) ==
  /\ screen # "bye" /\ held = None /\ Len(queue) < MaxQueue
  /\ held' = [btn |-> btn, press |-> FALSE, dark |-> asleep]
  /\ queue' = Append(queue, [held' EXCEPT !.press = TRUE])
  /\ quiet' = 0
  /\ UNCHANGED <<screen, pc, paused, idle, ticked, setBack>>

Release ==
  /\ screen # "bye" /\ held # None /\ Len(queue) < MaxQueue
  /\ queue' = Append(queue, held) /\ held' = None
  /\ quiet' = 0
  /\ UNCHANGED <<screen, pc, paused, idle, ticked, setBack>>

User == Release \/ \E btn \in Buttons : Press(btn)

\* A second passes: a loop that is not busy has ticked in it, and has got
\* through what the user did in it.
Second ==
  /\ screen \in Busy \/ (ticked /\ queue = <<>>)
  /\ since' = Min({since + 1, Longest}) /\ quiet' = Min({quiet + 1, Longest})
  /\ ticked' = FALSE
  /\ UNCHANGED <<screen, pc, paused, user, asleep, timeout, brightness, dim,
                 panel, setBack>>

\* The wall clock is set, back or forward.
SetClock ==
  /\ since' \in (-MaxBack)..Longest
  /\ setBack' = (setBack \/ since' < since)
  /\ UNCHANGED <<screen, pc, paused, user, asleep, timeout, brightness, dim,
                 panel, ticked, quiet>>

-------------------------------------------------------------------------------
(* The idle manager. *)

\* last_activity = time.time()
Active == since' = 0 /\ quiet' = 0 /\ setBack' = FALSE

\* Mutant of Due: the timeout has to be exceeded.
DueLate == since > timeout
Due == since >= timeout

\* tick(), at the top of each of the loops.
Tick ==
  /\ pc = "tick" /\ screen \notin Busy \cup {"bye"}
  /\ asleep' = (asleep \/ Due)
  /\ panel' = IF ~asleep /\ Due THEN dim ELSE panel
  /\ ticked' = TRUE /\ pc' = "input"
  /\ UNCHANGED <<screen, paused, user, since, timeout, brightness, dim, quiet,
                 setBack>>

\* Mutant of Clamp: nothing is clamped.
Unclamped(lo, hi, n) == n
Clamp(lo, hi, n) == Max({lo, Min({hi, n})})

\* Mutant of SetBrightness: the dim level stays above a lowered brightness.
SetBrightnessOnly(new) ==
  /\ brightness' = Clamp(MinBright, MaxBright, new)
  /\ panel' = IF asleep THEN panel ELSE brightness'
  /\ UNCHANGED <<timeout, dim>>

\* set_brightness()
SetBrightness(new) ==
  /\ brightness' = Clamp(MinBright, MaxBright, new)
  /\ dim' = Min({dim, brightness'})
  /\ panel' = IF asleep THEN panel ELSE brightness'
  /\ UNCHANGED timeout

\* set_dim_level()
SetDim(new) ==
  /\ dim' = Clamp(0, brightness, new)
  /\ panel' = IF asleep THEN dim' ELSE panel
  /\ UNCHANGED <<timeout, brightness>>

\* set_timeout()
SetTimeout == timeout' \in Timeouts /\ UNCHANGED <<brightness, dim, panel>>

Settings == <<timeout, brightness, dim>>

-------------------------------------------------------------------------------
(* The loops. *)

\* Mutant of Heeded: the kinds are confused.
ReleaseHeeded(e) == ~e.press

\* wait_button() and the HUD take notice of presses only, wait_with() of any
\* event.
Heeded(e) == e.press \/ screen = "gps"

\* Mutant of NoEvent: looking for events counts as activity.
NoEventIsActive ==
  /\ pc = "input" /\ queue = <<>>
  /\ pc' = "tick" /\ since' = 0
  /\ UNCHANGED <<screen, paused, user, asleep, timeout, brightness, dim, panel,
                 clock>>

\* No event waits: the loop sleeps and starts over.
NoEvent ==
  /\ pc = "input" /\ queue = <<>>
  /\ pc' = "tick"
  /\ UNCHANGED <<screen, paused, user, idle, clock>>

Skip ==
  /\ pc = "input" /\ queue # <<>> /\ ~Heeded(Head(queue))
  /\ queue' = Tail(queue) /\ pc' = "tick"
  /\ UNCHANGED <<screen, paused, held, idle, clock>>

\* Mutant of Wake: what else is queued stays there.
WakeKeepsQueue ==
  /\ pc = "input" /\ queue # <<>> /\ Heeded(Head(queue)) /\ asleep
  /\ asleep' = FALSE /\ panel' = brightness /\ Active
  /\ queue' = Tail(queue) /\ pc' = "tick"
  /\ UNCHANGED <<screen, paused, held, timeout, brightness, dim, ticked>>

\* wake_consume() finds the pager asleep: the event does nothing else, and what
\* else is queued is thrown away.
Wake ==
  /\ pc = "input" /\ queue # <<>> /\ Heeded(Head(queue)) /\ asleep
  /\ asleep' = FALSE /\ panel' = brightness /\ Active
  /\ queue' = Tail(queue) /\ pc' = "drain"
  /\ UNCHANGED <<screen, paused, held, timeout, brightness, dim, ticked>>

Drain ==
  /\ pc = "drain"
  /\ IF queue = <<>> THEN pc' = "tick" /\ UNCHANGED queue
                     ELSE queue' = Tail(queue) /\ UNCHANGED pc
  /\ UNCHANGED <<screen, paused, held, idle, clock>>

\* The HUD's buttons.
HudActs(btn) ==
  /\ screen = "hud"
  /\ screen' = IF btn = "B" THEN "end" ELSE "hud"
  /\ paused' = (IF btn = "A" THEN ~paused ELSE paused)
  /\ \/ btn = "Up" /\ SetBrightness(brightness + BrightStep)
     \/ btn = "Down" /\ SetBrightness(brightness - BrightStep)
     \/ btn \in {"A", "B"} /\ UNCHANGED <<Settings, panel>>

\* The GPS wait: B ends it, whether pressed or released.
GpsActs(btn) ==
  /\ screen = "gps"
  /\ screen' = IF btn = "B" THEN "noFix" ELSE "gps"
  /\ UNCHANGED <<paused, Settings, panel>>

\* A modal screen, but for the adjusters of CONFIG.
ModalActs(btn) ==
  /\ screen \in Modal
  /\ screen' \in IF btn \in DOMAIN Leads[screen] THEN Leads[screen][btn]
                                               ELSE {screen}
  /\ UNCHANGED <<paused, Settings, panel>>

\* BRIGHTNESS, IDLE TIMEOUT and DIM LEVEL of CONFIG.
Adjusts(btn) ==
  /\ screen = "config" /\ btn = "A"
  /\ \/ SetBrightness(brightness + BrightStep)
     \/ SetBrightness(brightness - BrightStep)
     \/ SetTimeout
     \/ SetDim(Min({MaxBright, dim + DimStep}))
     \/ SetDim(Max({0, dim - DimStep}))
  /\ UNCHANGED <<screen, paused>>

\* An event in the light: the timer starts again, and the screen acts on it.
Act ==
  /\ pc = "input" /\ queue # <<>> /\ Heeded(Head(queue)) /\ ~asleep
  /\ LET btn == Head(queue).btn
     IN HudActs(btn) \/ GpsActs(btn) \/ ModalActs(btn) \/ Adjusts(btn)
  /\ Active
  /\ queue' = Tail(queue) /\ pc' = "tick"
  /\ UNCHANGED <<held, asleep, ticked>>

\* poll() of the GPS wait finds a fix: the scan starts, unpaused.
FixFound ==
  /\ pc = "tick" /\ screen = "gps" /\ screen' = "starting"
  /\ UNCHANGED <<pc, paused, user, idle, clock>>

BusyEnds ==
  /\ screen \in Busy /\ screen' \in BusyThen[screen]
  /\ paused' = (paused /\ screen # "starting")
  /\ UNCHANGED <<pc, user, idle, clock>>

Loop ==
  \/ Tick
  \/ NoEvent
  \/ Skip
  \/ Wake
  \/ Drain
  \/ Act
  \/ FixFound
  \/ BusyEnds

Next == User \/ Second \/ SetClock \/ Loop

Spec == Init /\ [][Next]_vars

\* The process runs, every call it is busy with has a timeout, and time passes.
Fairness == WF_vars(Loop) /\ WF_vars(Second)
FairSpec == Spec /\ Fairness

-------------------------------------------------------------------------------
(* Properties. *)

\* "Keep dim_level <= brightness so we never dim to a brighter value"
\* (idle.py:44): the panel shows what the manager believes, and going to sleep
\* never makes it brighter, whatever settings are changed from where.
PanelFollows ==
  /\ panel = IF asleep THEN dim ELSE brightness
  /\ dim <= brightness

\* A press made in the dark is never acted on: it is still in the queue when
\* the pager wakes, or it is the one that wakes it.
DarkPressesWait ==
  (\E i \in DOMAIN queue : queue[i].press /\ queue[i].dark)
    => asleep \/ pc = "drain"

\* The panel and the queue are in step with the manager in every loop.
PanelInStep == TypeOK /\ PanelFollows /\ DarkPressesWait

\* "treat the press as wake-only" (idle.py:72): a press made with the backlight
\* off changes neither the screen nor the scan nor a setting.
DarkPressOnlyWakes ==
  [][pc = "input" /\ queue # <<>> /\ queue' = Tail(queue)
     /\ Head(queue).press /\ Head(queue).dark
     => UNCHANGED <<screen, paused, Settings>>]_vars

\* "kills the LCD backlight after N seconds of input inactivity" (idle.py:1),
\* on the screens that wait for input and unless the wall clock was set back:
\* the light is never on past the timeout when the loop waits for a button.
DimsInTime ==
  pc = "input" /\ ~asleep /\ ~setBack => quiet <= timeout

\* A press in the dark turns the light on, even one that comes while the
\* program is busy.
PressWakes ==
  (asleep /\ \E i \in DOMAIN queue : queue[i].press) ~> ~asleep

\* Left alone, the pager goes dark and stays dark, whichever screen it is on.
GoesDark ==
  <>[][~User /\ ~SetClock]_vars => <>[](asleep \/ screen = "bye")

\* A press in the dark wakes, silence lets the light go out.
LightFollowsUser == PressWakes /\ GoesDark

\* "First press just wakes; don't abort the wait" (dialog.py:133).
WakeDoesNotAbort ==
  [][screen = "gps" /\ screen' = "noFix" => ~Head(queue).dark]_vars

\* The same promise as DimsInTime (idle.py:1) on every screen: whatever the
\* program does, the light is not on for long after the timeout.
BacklightBounded == ~asleep /\ ~setBack => quiet <= timeout

===============================================================================
