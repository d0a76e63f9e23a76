------------------------------- MODULE ScreenProofs -------------------------------
(***************************************************************************)
(* Theorems about Screen, for any timeouts, any brightnesses and any       *)
(* number of events that wait: types, that panel and queue are in step     *)
(* with the idle manager, that a press in the dark does nothing but wake   *)
(* the pager, and that the light goes out in time.                         *)
(***************************************************************************)
EXTENDS Screen, SequenceTheorems, TLAPS

-------------------------------------------------------------------------------
(* Least and greatest of two numbers. *)

LEMMA MinFacts ==
  ASSUME NEW m \in Int, NEW n \in Int
  PROVE  Min({m, n}) = IF m <= n THEN m ELSE n
BY DEF Min

LEMMA MaxFacts ==
  ASSUME NEW m \in Int, NEW n \in Int
  PROVE  Max({m, n}) = IF m <= n THEN n ELSE m
BY DEF Max

LEMMA ClampFacts ==
  ASSUME NEW lo \in Int, NEW hi \in Int, lo <= hi, NEW n \in Int
  PROVE  Clamp(lo, hi, n) \in lo..hi
<1>1. Min({hi, n}) = IF hi <= n THEN hi ELSE n
  BY MinFacts
<1>2. Min({hi, n}) \in Int /\ Min({hi, n}) <= hi
  BY <1>1
<1>3. Max({lo, Min({hi, n})}) = IF lo <= Min({hi, n}) THEN Min({hi, n}) ELSE lo
  BY <1>2, MaxFacts
<1> QED
  BY <1>2, <1>3 DEF Clamp

-------------------------------------------------------------------------------
(* The screens. *)

LEMMA LeadsFacts ==
  ASSUME NEW s \in Modal, NEW btn \in DOMAIN Leads[s]
  PROVE  Leads[s][btn] \subseteq Screens
<1>1. Modal = {"menu", "list", "detail", "notice", "jump", "handoff", "off", "noFix",
               "warning", "end", "saved", "config", "keyboard", "told"}
  BY DEF Modal, Leads
<1>2. Busy = {"syncing", "testing", "starting", "stopping"}
  BY DEF Busy, BusyThen
<1>3. Screens = Modal \cup Busy \cup {"gps", "hud", "bye"}
  BY DEF Screens
<1>4. CASE s = "menu"
  BY <1>1, <1>2, <1>3, <1>4 DEF Leads
<1>5. CASE s \in {"list", "detail", "notice", "jump"}
  BY <1>1, <1>2, <1>3, <1>5 DEF Leads
<1>6. CASE s \in {"handoff", "off", "noFix", "warning", "end", "saved"}
  BY <1>1, <1>2, <1>3, <1>6 DEF Leads
<1>7. CASE s \in {"config", "keyboard", "told"}
  BY <1>1, <1>2, <1>3, <1>7 DEF Leads
<1> QED
  BY <1>1, <1>4, <1>5, <1>6, <1>7

LEMMA BusyFacts ==
  ASSUME NEW s \in Busy
  PROVE  BusyThen[s] \subseteq Screens /\ s \notin Modal /\ s \notin {"gps", "hud", "bye"}
<1>1. Modal = {"menu", "list", "detail", "notice", "jump", "handoff", "off", "noFix",
               "warning", "end", "saved", "config", "keyboard", "told"}
  BY DEF Modal, Leads
<1>2. Busy = {"syncing", "testing", "starting", "stopping"}
  BY DEF Busy, BusyThen
<1>3. Screens = Modal \cup Busy \cup {"gps", "hud", "bye"}
  BY DEF Screens
<1> QED
  BY <1>1, <1>2, <1>3 DEF BusyThen

-------------------------------------------------------------------------------
(* Types, and what the places in the loops imply. *)

\* What is held down will be released, and no loop of a busy screen is under way.
InLoop ==
  /\ held # None => ~held.press
  /\ pc # "tick" => screen \notin Busy \cup {"bye"}
  /\ pc = "drain" => ~asleep

\* The settings a button or a menu may change, and the panel with them.  In the
\* dark a lowered brightness would leave the panel above the new dim level, but
\* nothing is set in the dark.
LEMMA SettingsStep ==
  ASSUME TypeOK, PanelFollows, ~asleep,
         \/ \E d \in Int : SetBrightness(brightness + d)
         \/ SetTimeout
         \/ \E n \in Int : SetDim(n)
         \/ UNCHANGED <<Settings, panel>>
  PROVE  /\ timeout' \in Timeouts /\ brightness' \in MinBright..MaxBright
         /\ dim' \in Nat /\ panel' \in Nat
         /\ dim' <= brightness' /\ panel' = brightness'
<1> USE ScreenAssumption
<1>0. /\ timeout \in Timeouts /\ brightness \in MinBright..MaxBright /\ brightness \in Nat
      /\ dim \in Nat /\ panel \in Nat /\ dim <= brightness
      /\ panel = brightness
  BY DEF TypeOK, PanelFollows
<1>1. ASSUME NEW d \in Int, SetBrightness(brightness + d)
      PROVE  /\ timeout' = timeout /\ brightness' \in MinBright..MaxBright
             /\ dim' \in Nat /\ dim' <= brightness' /\ panel' = brightness'
  <2>1. brightness' \in MinBright..MaxBright
    BY <1>0, <1>1, ClampFacts DEF SetBrightness
  <2>2. dim' = IF dim <= brightness' THEN dim ELSE brightness'
    BY <1>0, <1>1, <2>1, MinFacts DEF SetBrightness
  <2> QED
    BY <1>0, <1>1, <2>1, <2>2 DEF SetBrightness
<1>2. CASE SetTimeout
  BY <1>0, <1>2 DEF SetTimeout
<1>3. ASSUME NEW n \in Int, SetDim(n)
      PROVE  /\ timeout' = timeout /\ brightness' = brightness
             /\ dim' \in 0..brightness /\ panel' = panel
  BY <1>0, <1>3, ClampFacts DEF SetDim
<1>4. CASE UNCHANGED <<Settings, panel>>
  BY <1>0, <1>4 DEF Settings
<1> QED
  <2>1. \A n \in MinBright..MaxBright : n \in Nat
    OBVIOUS
  <2> QED
    BY <1>0, <1>1, <1>2, <1>3, <1>4, <2>1

\* An event in the light (wait_button(), wait_with(), the HUD).
LEMMA ActFacts ==
  ASSUME TypeOK, PanelFollows, Act
  PROVE  /\ screen' \in Screens /\ paused' \in BOOLEAN
         /\ timeout' \in Timeouts /\ brightness' \in MinBright..MaxBright
         /\ dim' \in Nat /\ panel' \in Nat
         /\ dim' <= brightness' /\ panel' = brightness'
<1> DEFINE btn == Head(queue).btn
<1> USE ScreenAssumption
<1>0. /\ brightness \in Int /\ dim \in Int /\ screen \in Screens /\ paused \in BOOLEAN
      /\ HudActs(btn) \/ GpsActs(btn) \/ ModalActs(btn) \/ Adjusts(btn)
      /\ ~asleep
  BY DEF TypeOK, Act
<1>1. screen' \in Screens /\ paused' \in BOOLEAN
  <2>1. CASE HudActs(btn) \/ GpsActs(btn) \/ Adjusts(btn)
    <3>1. {"end", "hud", "noFix", "gps", "config"} \subseteq Screens
      BY DEF Screens, Modal, Leads
    <3> QED
      BY <1>0, <2>1, <3>1 DEF HudActs, GpsActs, Adjusts
  <2>2. CASE ModalActs(btn)
    BY <1>0, <2>2, LeadsFacts DEF ModalActs
  <2> QED
    BY <1>0, <2>1, <2>2
<1>2. \/ \E d \in Int : SetBrightness(brightness + d)
      \/ SetTimeout
      \/ \E n \in Int : SetDim(n)
      \/ UNCHANGED <<Settings, panel>>
  <2>1. CASE HudActs(btn)
    <3>1. BrightStep \in Int /\ -BrightStep \in Int
          /\ brightness - BrightStep = brightness + (-BrightStep)
      BY <1>0
    <3> QED
      BY <2>1, <3>1 DEF HudActs
  <2>2. CASE GpsActs(btn) \/ ModalActs(btn)
    BY <2>2 DEF GpsActs, ModalActs
  <2>3. CASE Adjusts(btn)
    <3>1. BrightStep \in Int /\ -BrightStep \in Int
          /\ brightness - BrightStep = brightness + (-BrightStep)
      BY <1>0
    <3>2. /\ Min({MaxBright, dim + DimStep}) \in Int
          /\ Max({0, dim - DimStep}) \in Int
      BY <1>0, MinFacts, MaxFacts
    <3> QED
      BY <2>3, <3>1, <3>2 DEF Adjusts
  <2> QED
    BY <1>0, <2>1, <2>2, <2>3
<1> HIDE DEF btn
<1> QED
  BY <1>0, <1>1, <1>2, SettingsStep

LEMMA ActiveFacts ==
  ASSUME Active
  PROVE  since' \in Int /\ quiet' \in Nat /\ setBack' \in BOOLEAN
<1>1. since' \in Int /\ quiet' \in Nat
  BY DEF Active
<1>2. setBack' \in BOOLEAN
  BY Zenon DEF Active
<1> QED
  BY <1>1, <1>2

LEMMA NextTypeOK ==
  ASSUME TypeOK, PanelFollows, InLoop, [Next]_vars
  PROVE  TypeOK' /\ PanelFollows' /\ InLoop'
<1> USE ScreenAssumption
<1>0. /\ None \notin Event /\ \A e \in Event : e.press \in BOOLEAN
      /\ \A t \in Timeouts : t \in Nat
  BY DEF None, Event
<1>1. CASE Release
  <2>1. queue' \in Seq(Event) /\ quiet' \in Nat /\ held' = None
    BY <1>1 DEF Release, TypeOK
  <2> QED
    BY <1>1, <2>1 DEF Release, TypeOK, PanelFollows, InLoop, idle
<1>2. ASSUME NEW btn \in Buttons, Press(btn)
      PROVE  TypeOK' /\ PanelFollows' /\ InLoop'
  <2>1. held' \in Event /\ ~held'.press
    BY <1>2 DEF Press, TypeOK, Event
  <2>2. [held' EXCEPT !.press = TRUE] \in Event
    BY <2>1 DEF Event
  <2>3. queue' \in Seq(Event)
    BY <1>2, <2>2 DEF Press, TypeOK
  <2> QED
    BY <1>2, <2>1, <2>3 DEF Press, TypeOK, PanelFollows, InLoop, idle
<1>3. CASE Second
  <2>1. since' \in Int /\ quiet' \in Nat
    BY <1>3, MinFacts DEF Second, TypeOK
  <2> QED
    BY <1>3, <2>1 DEF Second, TypeOK, PanelFollows, InLoop, user
<1>4. CASE SetClock
  <2>1. since' \in Int /\ setBack' \in BOOLEAN
    BY <1>4 DEF SetClock, TypeOK
  <2> QED
    BY <1>4, <2>1 DEF SetClock, TypeOK, PanelFollows, InLoop, user
<1>5. CASE Tick
  <2>1. asleep' \in BOOLEAN /\ panel' \in Nat
    BY <1>5 DEF Tick, TypeOK, Due
  <2> QED
    BY <1>5, <2>1 DEF Tick, TypeOK, PanelFollows, InLoop, user
<1>6. CASE NoEvent
  BY <1>6 DEF NoEvent, TypeOK, PanelFollows, InLoop, user, idle, clock
<1>7. CASE Skip
  <2>1. queue' \in Seq(Event)
    BY <1>7 DEF Skip, TypeOK
  <2> QED
    BY <1>7, <2>1 DEF Skip, TypeOK, PanelFollows, InLoop, idle, clock
<1>8. CASE Wake
  <2>1. queue' \in Seq(Event) /\ brightness \in Nat
    BY <1>8 DEF Wake, TypeOK
  <2> QED
    <3>1. TypeOK'
      <4>1. since' \in Int /\ quiet' \in Nat /\ setBack' \in BOOLEAN
        BY <1>8, ActiveFacts DEF Wake
      <4>2. asleep' \in BOOLEAN /\ panel' \in Nat /\ pc' = "drain"
        BY <1>8, <2>1 DEF Wake
      <4>3. UNCHANGED <<screen, paused, held, timeout, brightness, dim, ticked>>
        BY <1>8 DEF Wake
      <4> QED
        BY <2>1, <4>1, <4>2, <4>3 DEF TypeOK
    <3>2. PanelFollows'
      BY <1>8 DEF Wake, PanelFollows
    <3>3. InLoop'
      BY <1>8 DEF Wake, InLoop
    <3> QED
      BY <3>1, <3>2, <3>3
<1>9. CASE Drain
  <2>1. queue' \in Seq(Event)
    BY <1>9 DEF Drain, TypeOK
  <2> QED
    BY <1>9, <2>1 DEF Drain, TypeOK, PanelFollows, InLoop, idle, clock
<1>10. CASE Act
  <2>1. queue' \in Seq(Event)
    BY <1>10 DEF Act, TypeOK
  <2> QED
    <3>0. UNCHANGED <<held, asleep, ticked>> /\ ~asleep /\ pc' = "tick" /\ Active
      BY <1>10 DEF Act
    <3>1. TypeOK'
      <4>1. since' \in Int /\ quiet' \in Nat /\ setBack' \in BOOLEAN
        BY <3>0, ActiveFacts
      <4> QED
        BY <1>10, <2>1, <3>0, <4>1, ActFacts DEF TypeOK
    <3>2. PanelFollows'
      BY <1>10, <3>0, ActFacts DEF PanelFollows
    <3>3. InLoop'
      BY <3>0 DEF InLoop
    <3> QED
      BY <3>1, <3>2, <3>3
<1>11. CASE FixFound
  <2>1. screen' \in Screens
    BY <1>11 DEF FixFound, Screens, Busy, BusyThen
  <2> QED
    BY <1>11, <2>1 DEF FixFound, TypeOK, PanelFollows, InLoop, user, idle, clock
<1>12. CASE BusyEnds
  <2>1. screen' \in Screens /\ pc = "tick" /\ paused' \in BOOLEAN
    BY <1>12, BusyFacts DEF BusyEnds, TypeOK, InLoop
  <2> QED
    BY <1>12, <2>1 DEF BusyEnds, TypeOK, PanelFollows, InLoop, user, idle, clock
<1>13. CASE UNCHANGED vars
  BY <1>13 DEF vars, TypeOK, PanelFollows, InLoop, user, idle, clock
<1> QED
  BY <1>1, <1>2, <1>3, <1>4, <1>5, <1>6, <1>7, <1>8, <1>9, <1>10, <1>11, <1>12,
     <1>13 DEF Next, User, Loop

-------------------------------------------------------------------------------
(* Presses made in the dark. *)

NoDark(q) == \A i \in DOMAIN q : ~(q[i].press /\ q[i].dark)

LEMMA TailFacts ==
  ASSUME NEW q \in Seq(Event), q # <<>>
  PROVE  /\ Len(q) \in Nat \ {0} /\ Tail(q) \in Seq(Event)
         /\ Len(Tail(q)) = Len(q) - 1 /\ Tail(q) # q
         /\ \A i \in 1..Len(q) - 1 : Tail(q)[i] = q[i + 1]
OBVIOUS

LEMMA TailNoDark ==
  ASSUME NEW q \in Seq(Event), q # <<>>, NoDark(q)
  PROVE  NoDark(Tail(q))
<1>1. DOMAIN q = 1..Len(q) /\ DOMAIN Tail(q) = 1..Len(q) - 1 /\ Len(q) \in Nat
  BY TailFacts
<1> SUFFICES ASSUME NEW i \in DOMAIN Tail(q)
             PROVE  ~(Tail(q)[i].press /\ Tail(q)[i].dark)
  BY DEF NoDark
<1>2. i + 1 \in DOMAIN q /\ Tail(q)[i] = q[i + 1]
  BY <1>1, TailFacts
<1> QED
  BY <1>2 DEF NoDark

LEMMA AppendNoDark ==
  ASSUME NEW q \in Seq(Event), NoDark(q), NEW e \in Event, ~(e.press /\ e.dark)
  PROVE  NoDark(Append(q, e))
<1>1. /\ DOMAIN q = 1..Len(q) /\ DOMAIN Append(q, e) = 1..Len(q) + 1 /\ Len(q) \in Nat
      /\ \A i \in 1..Len(q) : Append(q, e)[i] = q[i]
      /\ Append(q, e)[Len(q) + 1] = e
  OBVIOUS
<1> SUFFICES ASSUME NEW i \in DOMAIN Append(q, e)
             PROVE  ~(Append(q, e)[i].press /\ Append(q, e)[i].dark)
  BY DEF NoDark
<1>2. CASE i \in 1..Len(q)
  <2>1. Append(q, e)[i] = q[i] /\ i \in DOMAIN q
    BY <1>1, <1>2
  <2> QED
    BY <2>1 DEF NoDark
<1>3. CASE i = Len(q) + 1
  BY <1>1, <1>3
<1> QED
  BY <1>1, <1>2, <1>3

LEMMA NextDarkPresses ==
  ASSUME TypeOK, InLoop, DarkPressesWait, [Next]_vars
  PROVE  DarkPressesWait'
<1>0. queue \in Seq(Event) /\ (asleep \/ pc = "drain" \/ NoDark(queue))
  BY DEF TypeOK, DarkPressesWait, NoDark
<1>1. CASE asleep' \/ pc' = "drain"
  BY <1>1 DEF DarkPressesWait
<1>2. CASE ~asleep' /\ pc' # "drain"
  <2> SUFFICES NoDark(queue')
    BY DEF NoDark, DarkPressesWait
  <2>1. ASSUME NEW btn \in Buttons, Press(btn)
        PROVE  NoDark(queue')
    <3> DEFINE e == [held' EXCEPT !.press = TRUE]
    <3>1. ~asleep /\ NoDark(queue) /\ queue' = Append(queue, e)
      BY <1>0, <1>2, <2>1 DEF Press, idle
    <3>2. held' \in Event /\ held'.dark = asleep
      BY <2>1 DEF Press, TypeOK, Event
    <3>3. e \in Event /\ e.dark = held'.dark
      BY <3>2 DEF Event
    <3>4. ~e.dark
      BY <3>1, <3>2, <3>3
    <3> HIDE DEF e
    <3> QED
      BY <1>0, <3>1, <3>3, <3>4, AppendNoDark
  <2>2. CASE Release
    <3>1. NoDark(queue) /\ held \in Event /\ ~held.press
      BY <1>0, <1>2, <2>2 DEF Release, idle, InLoop, TypeOK
    <3>2. queue' = Append(queue, held)
      BY <2>2 DEF Release
    <3> QED
      BY <1>0, <3>1, <3>2, AppendNoDark
  <2>3. CASE Wake
    BY <1>2, <2>3 DEF Wake
  <2>4. CASE Drain
    <3>1. queue = <<>> /\ queue' = queue
      BY <1>2, <2>4 DEF Drain
    <3>2. DOMAIN queue' = {}
      BY <3>1
    <3> QED
      BY <3>2 DEF NoDark
  <2>5. CASE Act \/ Skip
    <3>1. ~asleep /\ pc = "input" /\ queue # <<>> /\ queue' = Tail(queue)
      BY <1>2, <2>5 DEF Act, Skip, idle
    <3> QED
      BY <1>0, <3>1, TailNoDark
  <2>6. CASE Tick \/ NoEvent \/ FixFound \/ BusyEnds \/ Second \/ SetClock
             \/ UNCHANGED vars
    <3>1. queue' = queue /\ pc # "drain"
      BY <1>2, <2>6 DEF Tick, NoEvent, FixFound, BusyEnds, Second, SetClock, vars, user
    <3>2. ~asleep
      BY <1>2, <2>6 DEF Tick, NoEvent, FixFound, BusyEnds, Second, SetClock, vars, idle,
                        TypeOK
    <3> QED
      BY <1>0, <3>1, <3>2
  <2> QED
    BY <2>1, <2>2, <2>3, <2>4, <2>5, <2>6 DEF Next, User, Loop
<1> QED
  BY <1>1, <1>2

-------------------------------------------------------------------------------
(* The clocks. *)

\* Unless the clock was set back, the idle manager counts at least the seconds
\* that have passed, and a loop that has ticked in the light is before the
\* timeout.
InTime ==
  ~setBack =>
    /\ quiet <= since
    /\ pc = "input" /\ ~asleep => quiet <= timeout /\ (ticked => quiet < timeout)

LEMMA NextInTime ==
  ASSUME TypeOK, InLoop, InTime, [Next]_vars
  PROVE  InTime'
<1> USE ScreenAssumption
<1>0. quiet \in Nat /\ since \in Int /\ timeout \in Nat \ {0} /\ timeout < Longest
  BY DEF TypeOK
<1>1. CASE User
  <2>1. quiet' = 0 /\ UNCHANGED <<pc, asleep, since, timeout, ticked, setBack>>
    BY <1>1 DEF User, Press, Release, idle
  <2> QED
    BY <1>0, <2>1 DEF InTime
<1>2. CASE Second
  <2>1. /\ since' = IF since + 1 <= Longest THEN since + 1 ELSE Longest
        /\ quiet' = IF quiet + 1 <= Longest THEN quiet + 1 ELSE Longest
    BY <1>0, <1>2, MinFacts DEF Second
  <2>2. /\ ticked' = FALSE /\ UNCHANGED <<pc, asleep, timeout, setBack>>
        /\ pc = "input" => ticked
    BY <1>2 DEF Second, InLoop
  <2> QED
    BY <1>0, <2>1, <2>2 DEF InTime
<1>3. CASE SetClock
  <2>1. /\ UNCHANGED <<pc, asleep, timeout, ticked, quiet>> /\ since' \in Int
        /\ ~setBack' => ~setBack /\ since <= since'
    <3>1. UNCHANGED <<pc, asleep, timeout, ticked, quiet>> /\ since' \in Int
      BY <1>3 DEF SetClock
    <3>2. setBack' = (setBack \/ since' < since)
      BY <1>3 DEF SetClock
    <3>3. ~setBack' => ~setBack /\ ~(since' < since)
      BY <3>2
    <3> QED
      BY <1>0, <3>1, <3>3
  <2> QED
    BY <1>0, <2>1 DEF InTime
<1>4. CASE Tick
  <2>1. /\ UNCHANGED <<since, timeout, quiet, setBack>>
        /\ ~asleep' => ~(since >= timeout)
    BY <1>4 DEF Tick, Due
  <2> QED
    BY <1>0, <2>1 DEF InTime
<1>5. CASE Wake \/ Act
  <2>1. since' = 0 /\ quiet' = 0 /\ pc' # "input"
    BY <1>5 DEF Wake, Act, Active
  <2> QED
    BY <2>1 DEF InTime
<1>6. CASE NoEvent \/ Skip \/ Drain \/ FixFound \/ BusyEnds
  <2>1. UNCHANGED <<quiet, since, setBack>> /\ (pc' = "input" => FALSE)
    BY <1>6 DEF NoEvent, Skip, Drain, FixFound, BusyEnds, InLoop, idle, clock
  <2> QED
    BY <2>1 DEF InTime
<1>7. CASE UNCHANGED vars
  BY <1>7 DEF vars, idle, clock, InTime
<1> QED
  BY <1>1, <1>2, <1>3, <1>4, <1>5, <1>6, <1>7 DEF Next, Loop

-------------------------------------------------------------------------------
(* The theorems. *)

ScreenInv ==
  TypeOK /\ PanelFollows /\ InLoop /\ DarkPressesWait /\ InTime

LEMMA ScreenInvariant == Spec => []ScreenInv
<1>1. Init => ScreenInv
  <2> SUFFICES ASSUME Init
               PROVE  ScreenInv
    OBVIOUS
  <2>1. queue \in Seq(Event) /\ DOMAIN queue = {}
    BY DEF Init
  <2>2. "menu" \in Screens
    BY DEF Screens, Modal, Leads
  <2>3. brightness \in MinBright..MaxBright /\ brightness \in Nat /\ dim \in Nat
        /\ dim <= brightness /\ timeout \in Nat \ {0}
    BY ScreenAssumption DEF Init
  <2>4. TypeOK
    <3>1. ticked \in BOOLEAN /\ setBack \in BOOLEAN /\ asleep \in BOOLEAN
          /\ paused \in BOOLEAN
      BY Zenon DEF Init
    <3>2. since \in Int /\ quiet \in Nat /\ panel \in Nat
      BY <2>3 DEF Init
    <3> QED
      BY <2>1, <2>2, <2>3, <3>1, <3>2 DEF Init, TypeOK
  <2>5. PanelFollows /\ InLoop /\ DarkPressesWait
    BY <2>1, <2>3 DEF Init, PanelFollows, InLoop, DarkPressesWait
  <2>6. InTime
    BY <2>3 DEF Init, InTime
  <2> QED
    BY <2>4, <2>5, <2>6 DEF ScreenInv
<1>2. ScreenInv /\ [Next]_vars => ScreenInv'
  BY NextTypeOK, NextDarkPresses, NextInTime DEF ScreenInv
<1> QED
  BY <1>1, <1>2, PTL DEF Spec

\* Panel and queue are in step with the manager (IdleManager, the loops).
THEOREM ScreenPanelInStep == Spec => []PanelInStep
<1>1. ScreenInv => PanelInStep
  BY DEF ScreenInv, PanelInStep
<1> QED
  BY <1>1, ScreenInvariant, PTL

\* On the screens that wait for a button the light goes out in time (tick()).
THEOREM ScreenDimsInTime == Spec => []DimsInTime
<1>1. ScreenInv => DimsInTime
  BY DEF ScreenInv, InTime, DimsInTime
<1> QED
  BY <1>1, ScreenInvariant, PTL

\* A press in the dark changes neither the screen nor the scan nor a setting
\* (wake_consume() in each of the loops).
THEOREM ScreenDarkPressOnlyWakes == Spec => DarkPressOnlyWakes
<1>1. ASSUME ScreenInv, [Next]_vars
      PROVE  [pc = "input" /\ queue # <<>> /\ queue' = Tail(queue)
               /\ Head(queue).press /\ Head(queue).dark
               => UNCHANGED <<screen, paused, Settings>>]_vars
  <2> SUFFICES ASSUME Next, pc = "input", queue # <<>>, queue' = Tail(queue),
                      Head(queue).press, Head(queue).dark
               PROVE  UNCHANGED <<screen, paused, Settings>>
    BY <1>1
  <2>1. queue \in Seq(Event) /\ queue' # queue
    BY <1>1, TailFacts DEF ScreenInv, TypeOK
  <2>2. asleep
    <3>1. 1 \in DOMAIN queue /\ queue[1] = Head(queue)
      BY <2>1
    <3>2. queue[1].press /\ queue[1].dark
      BY <3>1
    <3> QED
      BY <1>1, <3>1, <3>2 DEF ScreenInv, DarkPressesWait
  <2>3. CASE User
    BY <2>3 DEF User, Press, Release, idle, Settings
  <2>4. CASE Wake \/ Skip \/ Drain
    BY <2>4 DEF Wake, Skip, Drain, idle, Settings
  <2>5. CASE Act
    BY <2>2, <2>5 DEF Act
  <2>6. CASE Second \/ SetClock \/ Tick \/ NoEvent \/ FixFound \/ BusyEnds
    BY <2>1, <2>6 DEF Second, SetClock, Tick, NoEvent, FixFound, BusyEnds, user
  <2> QED
    BY <2>3, <2>4, <2>5, <2>6 DEF Next, Loop
<1> QED
  BY <1>1, ScreenInvariant, PTL DEF Spec, DarkPressOnlyWakes

===============================================================================
