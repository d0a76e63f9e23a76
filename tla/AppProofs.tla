-------------------------------- MODULE AppProofs --------------------------------
(***************************************************************************)
(* Theorems about what the application does around a scan: the handoff to  *)
(* other programs (Handoff), the settings (Settings), and how WiFi is      *)
(* listened to (Radio).  The three share no state; each part of this       *)
(* module is about one.                                                    *)
(***************************************************************************)
EXTENDS Handoff, Settings, Radio, WellFoundedInduction, TLAPS

-------------------------------------------------------------------------------
(* Induction and selections. *)

\* A set that holds 0 and with every natural number the next one holds all.
LEMMA NatSetInduction ==
  ASSUME NEW P, 0 \in P, \A n \in Nat : n \in P => n + 1 \in P
  PROVE  Nat \subseteq P
<1> SUFFICES ASSUME Nat \ P # {} PROVE FALSE
  OBVIOUS
<1>1. \E n \in Nat \ P : \A m \in Nat \ P : ~(<<m, n>> \in OpToRel(<, Nat))
  BY NatLessThanWellFounded, WFMin, Zenon
<1>2. \A m, n \in Nat : m < n => <<m, n>> \in OpToRel(<, Nat)
  BY DEF OpToRel
<1>3. PICK n \in Nat \ P : \A m \in Nat \ P : ~(m < n)
  BY <1>1, <1>2, Zenon
<1>4. n - 1 \in Nat /\ n - 1 < n
  BY <1>3
<1> QED
  BY <1>3, <1>4

\* A recursion along 1, 2, ..., m from a start a has a solution.
Along(f, a, m, step) ==
  f = [n \in 0..m |-> IF n = 0 THEN a ELSE step[<<f[n - 1], n>>]]

LEMMA RecursionExists ==
  ASSUME NEW V, NEW a \in V, NEW m \in Nat, NEW step \in [V \X (1..m) -> V]
  PROVE  \E f \in [0..m -> V] : Along(f, a, m, step)
<1> DEFINE P == {k \in Nat : k <= m => \E f \in [0..k -> V] : Along(f, a, k, step)}
<1>1. 0 \in P
  <2> DEFINE f == [n \in 0..0 |-> a]
  <2>1. f \in [0..0 -> V] /\ f = [n \in 0..0 |-> IF n = 0 THEN a ELSE step[<<f[n - 1], n>>]]
    OBVIOUS
  <2> QED
    BY <2>1 DEF Along
<1>2. ASSUME NEW k \in Nat, k \in P
      PROVE  k + 1 \in P
  <2> SUFFICES ASSUME k + 1 <= m
               PROVE  \E g \in [0..k + 1 -> V] : Along(g, a, k + 1, step)
    OBVIOUS
  <2>1. PICK f \in [0..k -> V] : Along(f, a, k, step)
    BY <1>2
  <2> DEFINE new == step[<<f[k], k + 1>>]
             g == [n \in 0..k + 1 |-> IF n <= k THEN f[n] ELSE new]
  <2>2. f[k] \in V /\ new \in V
    BY <2>1
  <2>3. \A n \in 0..k : g[n] = f[n] /\ f[n] \in V
    BY <2>1
  <2>4. g[k + 1] = new
    OBVIOUS
  <2>5. g \in [0..k + 1 -> V]
    BY <2>2, <2>3
  <2>6. ASSUME NEW n \in 0..k + 1
        PROVE  g[n] = IF n = 0 THEN a ELSE step[<<g[n - 1], n>>]
    <3>1. CASE n <= k
      <4>1. n \in 0..k /\ (n # 0 => n - 1 \in 0..k)
        BY <3>1
      <4>2. f[n] = IF n = 0 THEN a ELSE step[<<f[n - 1], n>>]
        BY <2>1, <4>1 DEF Along
      <4> HIDE DEF g
      <4> QED
        BY <2>3, <4>1, <4>2
    <3>2. CASE n = k + 1
      <4>1. n # 0 /\ n - 1 = k /\ k \in 0..k
        BY <3>2
      <4>2. g[n - 1] = f[k]
        BY <2>3, <4>1
      <4> HIDE DEF g
      <4> QED
        BY <2>4, <3>2, <4>1, <4>2
    <3> QED
      BY <3>1, <3>2
  <2>7. Along(g, a, k + 1, step)
    BY <2>6 DEF Along
  <2> HIDE DEF g
  <2> QED
    BY <2>5, <2>7
<1>3. m \in P
  <2> HIDE DEF P
  <2> QED
    BY <1>1, <1>2, NatSetInduction
<1> QED
  BY <1>3

\* The recursion behind Only, and that a function satisfies it.
Keeps(kept, s, T) ==
  kept = [n \in 0..Len(s) |->
            IF n = 0 THEN <<>>
            ELSE IF s[n] \in T THEN Append(kept[n - 1], s[n]) ELSE kept[n - 1]]

LEMMA KeepsExists ==
  ASSUME NEW S, NEW s \in Seq(S), NEW T
  PROVE  \E kept : Keeps(kept, s, T)
<1> DEFINE m == Len(s)
           step == [p \in Seq(S) \X (1..m) |->
                      IF s[p[2]] \in T THEN Append(p[1], s[p[2]]) ELSE p[1]]
<1>1. m \in Nat /\ <<>> \in Seq(S)
  OBVIOUS
<1>2. \A x \in Seq(S), n \in 1..m :
        step[<<x, n>>] = IF s[n] \in T THEN Append(x, s[n]) ELSE x
  OBVIOUS
<1>3. step \in [Seq(S) \X (1..m) -> Seq(S)]
  OBVIOUS
<1> HIDE DEF step, m
<1>4. PICK f \in [0..m -> Seq(S)] : Along(f, <<>>, m, step)
  BY <1>1, <1>3, RecursionExists
<1>5. ASSUME NEW n \in 0..m
      PROVE  f[n] = IF n = 0 THEN <<>>
                    ELSE IF s[n] \in T THEN Append(f[n - 1], s[n]) ELSE f[n - 1]
  <2>1. f[n] = IF n = 0 THEN <<>> ELSE step[<<f[n - 1], n>>]
    BY <1>4 DEF Along
  <2>2. n # 0 => n - 1 \in 0..m /\ n \in 1..m
    BY <1>1
  <2>3. n # 0 => f[n - 1] \in Seq(S)
    BY <1>4, <2>2
  <2> QED
    BY <1>2, <2>1, <2>2, <2>3
<1>6. f = [n \in 0..m |->
             IF n = 0 THEN <<>>
             ELSE IF s[n] \in T THEN Append(f[n - 1], s[n]) ELSE f[n - 1]]
  BY <1>4, <1>5
<1> QED
  BY <1>6 DEF Keeps, m

\* Only keeps the elements that are in T, no others, and repeats nothing.
LEMMA OnlyFacts ==
  ASSUME NEW S, NEW s \in Seq(S), NEW T
  PROVE  /\ Only(s, T) \in Seq(S)
         /\ \A x : (\E i \in 1..Len(Only(s, T)) : Only(s, T)[i] = x)
                     <=> x \in T /\ \E i \in 1..Len(s) : s[i] = x
         /\ NoRepeats(s) => NoRepeats(Only(s, T))
<1> DEFINE kept == CHOOSE g : Keeps(g, s, T)
<1>1. Keeps(kept, s, T)
  BY KeepsExists, Zenon
<1>2. Only(s, T) = kept[Len(s)]
  BY Zenon DEF Only, Keeps
<1> HIDE DEF kept
<1> DEFINE k(n) == kept[n]
           Good(n) == /\ k(n) \in Seq(S)
                      /\ \A x : (\E i \in 1..Len(k(n)) : k(n)[i] = x)
                                  <=> x \in T /\ \E i \in 1..n : s[i] = x
                      /\ NoRepeats(s) => NoRepeats(k(n))
           P == {n \in Nat : n <= Len(s) => Good(n)}
<1>3. k(0) = <<>> /\ Good(0)
  <2>1. k(0) = <<>>
    BY <1>1 DEF Keeps
  <2>2. DOMAIN k(0) = {}
    BY <2>1
  <2> QED
    BY <2>1, <2>2 DEF NoRepeats
<1>4. ASSUME NEW n \in Nat, n + 1 <= Len(s), Good(n)
      PROVE  Good(n + 1)
  <2>1. k(n + 1) = IF s[n + 1] \in T THEN Append(k(n), s[n + 1]) ELSE k(n)
    <3>1. n + 1 \in 0..Len(s) /\ n + 1 # 0 /\ (n + 1) - 1 = n
      BY <1>4
    <3> QED
      BY <1>1, <3>1 DEF Keeps
  <2>2. s[n + 1] \in S /\ n + 1 \in 1..Len(s) /\ \A i \in 1..n : i \in 1..Len(s) /\ i # n + 1
    BY <1>4
  <2>3. \A i \in 1..n + 1 : i \in 1..n \/ i = n + 1
    BY <1>4
  <2>4. 1..n \subseteq 1..n + 1 /\ n + 1 \in 1..n + 1
    BY <1>4
  <2>5. CASE s[n + 1] \in T
    <3> DEFINE old == k(n)
               new == Append(old, s[n + 1])
    <3>1. old \in Seq(S) /\ k(n + 1) = new
      BY <1>4, <2>1, <2>5
    <3> HIDE DEF old
    <3>2. /\ new \in Seq(S) /\ Len(new) = Len(old) + 1 /\ Len(old) \in Nat
          /\ \A i \in 1..Len(old) : new[i] = old[i]
          /\ new[Len(old) + 1] = s[n + 1]
          /\ DOMAIN new = 1..Len(old) + 1 /\ DOMAIN old = 1..Len(old)
      BY <2>2, <3>1
    <3> HIDE DEF new
    <3>3. \A x : (\E i \in 1..Len(new) : new[i] = x)
                   <=> (\E i \in 1..Len(old) : old[i] = x) \/ x = s[n + 1]
      BY <3>2
    <3>4. \A x : (\E i \in 1..n + 1 : s[i] = x) <=> (\E i \in 1..n : s[i] = x) \/ x = s[n + 1]
      BY <2>3, <2>4
    <3>5. \A x : (\E i \in 1..Len(old) : old[i] = x) <=> x \in T /\ \E i \in 1..n : s[i] = x
      BY <1>4 DEF old
    <3>6. \A x : (\E i \in 1..Len(new) : new[i] = x) <=> x \in T /\ \E i \in 1..n + 1 : s[i] = x
      BY <2>5, <3>3, <3>4, <3>5
    <3>7. ASSUME NoRepeats(s)
          PROVE  NoRepeats(new)
      <4>1. NoRepeats(old)
        BY <1>4, <3>7 DEF old
      <4>2. ~\E i \in 1..n : s[i] = s[n + 1]
        BY <2>2, <3>7 DEF NoRepeats
      <4>3. ~\E i \in 1..Len(old) : old[i] = s[n + 1]
        BY <3>5, <4>2
      <4>4. \A i \in DOMAIN new : i \in 1..Len(old) \/ i = Len(old) + 1
        BY <3>2
      <4> QED
        BY <3>2, <4>1, <4>3, <4>4 DEF NoRepeats
    <3> QED
      BY <3>1, <3>2, <3>6, <3>7
  <2>6. CASE s[n + 1] \notin T
    <3>1. k(n + 1) = k(n)
      BY <2>1, <2>6
    <3>2. \A x : x \in T => ((\E i \in 1..n + 1 : s[i] = x) <=> (\E i \in 1..n : s[i] = x))
      BY <2>3, <2>4, <2>6
    <3> QED
      BY <1>4, <3>1, <3>2
  <2> QED
    BY <2>5, <2>6
<1>5. Len(s) \in P
  <2>1. 0 \in P
    BY <1>3
  <2>3. Len(s) \in Nat
    OBVIOUS
  <2>2. ASSUME NEW n \in Nat, n \in P
        PROVE  n + 1 \in P
    <3>1. n <= Len(s) => Good(n)
      BY <2>2
    <3> HIDE DEF Good
    <3>2. n + 1 <= Len(s) => n <= Len(s)
      BY <2>3
    <3>3. n + 1 <= Len(s) => Good(n + 1)
      BY <1>4, <3>1, <3>2
    <3> QED
      BY <3>3
  <2> HIDE DEF P
  <2> QED
    BY <2>1, <2>2, <2>3, NatSetInduction
<1>6. Good(Len(s))
  <2> HIDE DEF Good
  <2>1. Len(s) \in Nat
    OBVIOUS
  <2> QED
    BY <1>5, <2>1
<1> QED
  BY <1>2, <1>6

-------------------------------------------------------------------------------
(* Handoff. *)

\* The type invariant (payload.sh, handoff.py).
THEOREM HandoffTypeOK == HandoffSpec => []HandoffTypes
<1>1. HandoffInit => HandoffTypes
  BY HandoffAssumption DEF HandoffAssumption, HandoffInit, HandoffTypes
<1>2. HandoffTypes /\ [HandoffNext]_handoffVars => HandoffTypes'
  <2> SUFFICES ASSUME HandoffTypes, [HandoffNext]_handoffVars
               PROVE  HandoffTypes'
    OBVIOUS
  <2>1. CASE Python
    <3>1. CASE \E t \in Apps : Pick(t)
      BY <3>1 DEF Pick, HandoffTypes
    <3>2. CASE OpenFile \/ WriteFile
      BY <3>2 DEF OpenFile, WriteFile, HandoffTypes
    <3>3. CASE WriteFails \/ Ends
      BY <3>3 DEF WriteFails, Ends, HandoffTypes
    <3> QED
      BY <2>1, <3>1, <3>2, <3>3 DEF Python
  <2>2. CASE Shell
    <3>1. CASE RunOwn \/ Launch
      BY <3>1 DEF RunOwn, Launch, Starts, HandoffTypes
    <3>2. CASE OwnExits \/ PeerExits \/ LaunchNothing
      BY <3>2 DEF OwnExits, PeerExits, LaunchNothing, HandoffTypes
    <3>3. CASE ReadFile \/ RemoveFile
      BY <3>3 DEF ReadFile, RemoveFile, HandoffTypes
    <3>4. CASE Exit
      BY <3>4 DEF Exit, HandoffTypes
    <3> QED
      BY <2>2, <3>1, <3>2, <3>3, <3>4 DEF Shell
  <2>3. ASSUME NEW a \in Apps, Open(a)
        PROVE  HandoffTypes'
    BY <2>3 DEF Open, HandoffTypes
  <2>4. ASSUME NEW a \in Apps, Uninstall(a)
        PROVE  HandoffTypes'
    BY <2>4 DEF Uninstall, HandoffTypes
  <2>5. CASE PowerCut
    BY <2>5 DEF PowerCut, HandoffTypes
  <2>6. CASE UNCHANGED handoffVars
    BY <2>6 DEF handoffVars, HandoffTypes
  <2> QED
    BY <2>1, <2>2, <2>3, <2>4, <2>5, <2>6 DEF HandoffNext
<1> QED
  BY <1>1, <1>2, PTL DEF HandoffSpec

-------------------------------------------------------------------------------

\* Python only runs while a shell waits for it.
PythonIsWatched == shell \notin {"run", "peer"} => proc \in {"none", "exited"}

\* Until the shell has launched another program, the last process was its own.
OwnIsLast == shell \in {"run", "read", "remove", "launch"} => app = root

\* An exit code of 42 says that the pick is in the program's own file; the shell
\* goes on from there only after such a code, and keeps the pick in its hand once
\* the file is removed.
PickIsKept ==
  /\ shell = "run" /\ proc = "exited" /\ code = 42 => file[root] = picked
  /\ shell = "read" => code = 42 /\ file[root] = picked
  /\ shell \in {"remove", "launch"} => code = 42 /\ target = picked

PickInv == PythonIsWatched /\ OwnIsLast /\ PickIsKept

\* Every step keeps the pick.
LEMMA PickInvStep ==
  ASSUME HandoffTypes, PickInv, [HandoffNext]_handoffVars
  PROVE  PickInv'
<1> USE DEF PickInv, PythonIsWatched, OwnIsLast, PickIsKept
<1>1. CASE Python
  <2>1. shell \in {"run", "peer"} /\ UNCHANGED <<shell, root, app>>
    BY <1>1 DEF Python, Pick, OpenFile, WriteFile, WriteFails, Ends
  <2>2. CASE WriteFile
    BY <2>1, <2>2 DEF WriteFile, HandoffTypes
  <2>3. CASE (\E t \in Apps : Pick(t)) \/ OpenFile \/ WriteFails \/ Ends
    <3>1. proc' = "exited" => code' # 42
      BY <2>3 DEF Pick, OpenFile, WriteFails, Ends
    <3> QED
      BY <2>1, <3>1
  <2> QED
    BY <1>1, <2>2, <2>3 DEF Python
<1>2. CASE Shell
  <2>1. CASE RunOwn
    BY <2>1 DEF RunOwn, Starts
  <2>2. CASE OwnExits
    BY <2>2 DEF OwnExits
  <2>3. CASE ReadFile
    BY <2>3 DEF ReadFile
  <2>4. CASE RemoveFile
    BY <2>4 DEF RemoveFile
  <2>5. CASE Launch
    BY <2>5 DEF Launch, Starts
  <2>6. CASE LaunchNothing
    BY <2>6 DEF LaunchNothing
  <2>7. CASE PeerExits
    BY <2>7 DEF PeerExits
  <2>8. CASE Exit
    BY <2>8 DEF Exit
  <2> QED
    BY <1>2, <2>1, <2>2, <2>3, <2>4, <2>5, <2>6, <2>7, <2>8 DEF Shell
<1>3. CASE \E a \in Apps : Open(a) \/ Uninstall(a)
  BY <1>3 DEF Open, Uninstall
<1>4. CASE PowerCut
  BY <1>4 DEF PowerCut
<1>5. CASE UNCHANGED handoffVars
  BY <1>5 DEF handoffVars
<1> QED
  BY <1>1, <1>2, <1>3, <1>4, <1>5 DEF HandoffNext

\* Whatever is killed, cut or left behind, the shell launches nothing but the pick
\* of the process that has just exited with 42 (payload.sh:199-203).
THEOREM HandoffTargetIsFresh == HandoffSpec => []TargetIsFresh
<1>1. HandoffInit => PickInv
  BY DEF HandoffInit, PickInv, PythonIsWatched, OwnIsLast, PickIsKept
<1>2. HandoffTypes /\ PickInv /\ [HandoffNext]_handoffVars => PickInv'
  BY PickInvStep
<1>3. PickInv => TargetIsFresh
  BY DEF PickInv, OwnIsLast, PickIsKept, TargetIsFresh
<1> QED
  BY <1>1, <1>2, <1>3, HandoffTypeOK, PTL DEF HandoffSpec

-------------------------------------------------------------------------------
(* Settings. *)

\* Settings stay settings when one of them is given a value of its kind.
LEMMA PutSettings ==
  ASSUME NEW c, IsSettings(c)
  PROVE  /\ \A v \in ApiKeys : IsSettings(Put(c, "api_key", v))
         /\ \A v \in Darkest..Brightest : IsSettings(Put(c, "brightness", v))
         /\ \A v \in 0..100 : IsSettings(Put(c, "auto_dim_level", v))
         /\ \A v \in Lists : IsSettings(Put(c, "devices", v))
         /\ \A v \in 0..1 : IsSettings(Put(c, "baud", v)) /\ IsSettings(Put(c, "scan", v))
<1>1. ASSUME NEW k \in Keys, NEW v
      PROVE  DOMAIN Put(c, k, v) \subseteq Keys
  <2>1. DOMAIN c \subseteq Keys
    BY DEF IsSettings
  <2> QED
    BY <2>1 DEF Put
<1>2. ASSUME NEW v \in ApiKeys
      PROVE  IsSettings(Put(c, "api_key", v))
  BY <1>1 DEF IsSettings, Keys, Put, Get
<1>3. ASSUME NEW v \in Darkest..Brightest
      PROVE  IsSettings(Put(c, "brightness", v))
  BY <1>1 DEF IsSettings, Keys, Put, Get
<1>4. ASSUME NEW v \in 0..100
      PROVE  IsSettings(Put(c, "auto_dim_level", v))
  BY <1>1 DEF IsSettings, Keys, Put, Get
<1>5. ASSUME NEW v \in Lists
      PROVE  IsSettings(Put(c, "devices", v))
  BY <1>1 DEF IsSettings, Keys, Put, Get
<1>6. ASSUME NEW v \in 0..1
      PROVE  IsSettings(Put(c, "baud", v)) /\ IsSettings(Put(c, "scan", v))
  BY <1>1 DEF IsSettings, Keys, Put, Get
<1> QED
  BY <1>2, <1>3, <1>4, <1>5, <1>6

\* Clamp keeps a number between its bounds, and is the identity there.
LEMMA ClampFacts ==
  ASSUME NEW low \in Int, NEW high \in Int, low <= high, NEW n \in Int
  PROVE  /\ Clamp(low, high, n) \in low..high
         /\ n \in low..high => Clamp(low, high, n) = n
         /\ low <= n => Clamp(low, high, n) <= n
BY DEF Clamp

\* The settings that are loaded, and what is made of them.
LEMMA LoadFacts ==
  ASSUME NEW c, IsSettings(c)
  PROVE  /\ IdleInit(c) \in [brightness : Darkest..Brightest, dim : Nat]
         /\ IdleInit(c).dim <= IdleInit(c).brightness
         /\ IdleInit(c).brightness = Get(c, "brightness", Bright)
         /\ IdleInit(c).dim = Clamp(0, IdleInit(c).brightness, Get(c, "auto_dim_level", DimTo))
<1> DEFINE b == Clamp(Darkest, Brightest, Get(c, "brightness", Bright))
           d == Get(c, "auto_dim_level", DimTo)
<1>1. b = Get(c, "brightness", Bright) /\ b \in Darkest..Brightest /\ d \in 0..100
  <2> DEFINE g == Get(c, "brightness", Bright)
  <2>1. g \in Darkest..Brightest /\ d \in 0..100
    BY DEF IsSettings
  <2>2. Darkest \in Nat /\ Brightest \in Nat /\ Darkest <= Brightest
    BY SettingsAssumption DEF SettingsAssumption
  <2> HIDE DEF g, d
  <2>3. Clamp(Darkest, Brightest, g) = g
    BY <2>1, <2>2 DEF Clamp
  <2> QED
    BY <2>1, <2>3 DEF g
<1>2. Clamp(0, b, d) \in 0..b
  <2>1. b \in Nat
    BY <1>1, SettingsAssumption DEF SettingsAssumption
  <2> HIDE DEF b, d
  <2> QED
    BY <1>1, <2>1 DEF Clamp
<1>3. IdleInit(c) = [brightness |-> b, dim |-> Clamp(0, b, d)]
  BY DEF IdleInit
<1> HIDE DEF b, d
<1> QED
  BY <1>1, <1>2, <1>3, SettingsAssumption DEF SettingsAssumption, d

\* No settings are settings, and so is what is loaded.
LEMMA EmptyIsSettings == IsSettings(Empty)
<1>1. <<>> \in Lists
  BY DEF Lists, NoRepeats
<1>2. DOMAIN Empty = {}
  BY DEF Empty
<1>3. \A k, default : Get(Empty, k, default) = default
  BY <1>2 DEF Get
<1>4. Bright \in Darkest..Brightest /\ DimTo \in 0..100
  BY SettingsAssumption DEF SettingsAssumption
<1> QED
  BY <1>1, <1>2, <1>4 DEF IsSettings, Get

\* The list with the chosen device first has every device at most once.
LEMMA PreferredFacts ==
  ASSUME IsSettings(cfg), NEW d \in Devices \cup {NoDevice}
  PROVE  Preferred(d) \in Lists
<1>1. CASE d = NoDevice
  BY <1>1 DEF Preferred, Lists, NoRepeats
<1>2. CASE d # NoDevice
  <2> DEFINE old == Get(cfg, "devices", <<>>)
             rest == Only(old, Devices \ {d})
             new == <<d>> \o rest
  <2>1. old \in Seq(Devices) /\ NoRepeats(old)
    BY DEF IsSettings, Lists
  <2>2. /\ rest \in Seq(Devices) /\ NoRepeats(rest)
        /\ \A i \in 1..Len(rest) : rest[i] \in Devices \ {d}
    <3> HIDE DEF old
    <3> QED
      BY <2>1, OnlyFacts
  <2>3. Preferred(d) = new
    BY <1>2 DEF Preferred
  <2> HIDE DEF rest
  <2>4. /\ new \in Seq(Devices) /\ DOMAIN new = 1..Len(rest) + 1 /\ new[1] = d
        /\ \A i \in DOMAIN new : i # 1 => i - 1 \in DOMAIN rest /\ new[i] = rest[i - 1]
    BY <1>2, <2>2
  <2>5. DOMAIN rest = 1..Len(rest)
    BY <2>2
  <2> HIDE DEF new
  <2>6. ASSUME NEW i \in DOMAIN new, NEW j \in DOMAIN new, new[i] = new[j]
        PROVE  i = j
    <3>1. CASE i = 1 \/ j = 1
      BY <2>2, <2>4, <2>5, <2>6, <3>1
    <3>2. CASE i # 1 /\ j # 1
      <4>1. i - 1 = j - 1
        BY <2>2, <2>4, <2>6, <3>2 DEF NoRepeats
      <4> QED
        BY <2>4, <4>1
    <3> QED
      BY <3>1, <3>2
  <2> QED
    BY <2>3, <2>4, <2>6 DEF Lists, NoRepeats
<1> QED
  BY <1>1, <1>2

\* What is kept while the program goes on: a whole file holds the key wanted, and
\* between two changes what memory holds but for an edit beside the program; what
\* is in effect is what memory says - a reader to be restarted, and a brightness
\* that pushed the dim level down, aside.
Held ==
  /\ config.whole => Get(config.cfg, "api_key", NoKey) = wanted
  /\ ~config.whole /\ doing \notin Saving => wanted = NoKey
  /\ doing # "off" /\ ~beside => Get(cfg, "api_key", NoKey) = wanted
InMenu ==
  /\ doing \in {"menu", "saving"} /\ "devices" \in DOMAIN cfg => reader.asked = cfg["devices"]
  /\ doing # "off" =>
       /\ live.brightness = Get(cfg, "brightness", Bright)
       /\ live.dim <= Get(cfg, "auto_dim_level", DimTo)
  /\ doing = "menu" => Load = IF beside THEN Put(cfg, "api_key", wanted) ELSE cfg

SettingsInv == SettingsTypes /\ Held /\ InMenu

\* What a file that is not whole tells, and the key on disk.
LEMMA LoadedKey ==
  /\ \A k, default : Get(Empty, k, default) = default
  /\ Held => KeyKept
<1>1. \A k, default : Get(Empty, k, default) = default
  BY DEF Empty, Get
<1>2. Held /\ doing \notin Saving => Get(Load, "api_key", NoKey) = wanted
  <2>1. CASE config.whole
    BY <2>1 DEF Held, Load
  <2>2. CASE ~config.whole
    BY <1>1, <2>2 DEF Held, Load
  <2> QED
    BY <2>1, <2>2
<1> QED
  BY <1>1, <1>2 DEF Held, KeyKept

\* The type invariant (load_config, save_config, IdleManager).
LEMMA SettingsTypesStep ==
  ASSUME SettingsTypes, [SettingsNext]_settingsVars
  PROVE  SettingsTypes'
<1> USE SettingsAssumption DEF SettingsAssumption
<1>1. IsSettings(cfg) /\ IsSettings(Load)
  BY EmptyIsSettings DEF SettingsTypes, Load
<1>2. CASE Boot
  <2>1. /\ IdleInit(Load) \in [brightness : Darkest..Brightest, dim : Nat]
        /\ IdleInit(Load).dim <= IdleInit(Load).brightness
    BY <1>1, LoadFacts
  <2>2. NewReader(Load, <<AcmZero>>) \in [asked : Lists, device : Devices \cup {NoDevice}]
    <3>1. <<AcmZero>> \in Lists
      BY DEF Lists, NoRepeats
    <3>2. Get(Load, "devices", <<AcmZero>>) \in Lists
      BY <1>1, <3>1 DEF IsSettings, Get
    <3> QED
      BY <3>2 DEF NewReader
  <2> QED
    BY <1>1, <1>2, <2>1, <2>2 DEF Boot, SettingsTypes
<1>3. CASE Saved
  <2>1. Restarted \in [asked : Lists, device : Devices \cup {NoDevice}]
    BY <1>1 DEF IsSettings, Restarted, NewReader
  <2>2. wanted' \in ApiKeys \cup {NoKey}
    BY <1>1, <1>3 DEF IsSettings, Saved, SettingsTypes
  <2> QED
    BY <1>3, <2>1, <2>2 DEF Saved, SettingsTypes
<1>4. CASE Die \/ Quit
  BY <1>4 DEF Die, Quit, SettingsTypes, Saving
<1>5. CASE SshEdit
  <2>1. PICK k \in ApiKeys :
          config' = [whole |-> TRUE, cfg |-> Put(Load, "api_key", k)] /\ wanted' = k
    BY <1>5 DEF SshEdit
  <2>2. IsSettings(Put(Load, "api_key", k))
    BY <1>1, PutSettings
  <2>3. IsSettings(config.cfg)' /\ config.whole' \in BOOLEAN
    BY <2>1, <2>2 DEF IsSettings
  <2> QED
    BY <1>5, <2>1, <2>3 DEF SshEdit, SettingsTypes
<1>6. CASE Report
  BY <1>6 DEF Report, SettingsTypes
<1>7. ASSUME NEW c, NEW then \in Saving, SaveFirst(c, then), IsSettings(c),
             live' \in [brightness : Darkest..Brightest, dim : Nat],
             live'.dim <= live'.brightness, reader' = reader, wanted' \in ApiKeys \cup {NoKey}
      PROVE  SettingsTypes'
  <2>1. IsSettings(config.cfg)' /\ config.whole' \in BOOLEAN
    BY <1>7, EmptyIsSettings DEF SaveFirst
  <2>2. IsSettings(cfg)'
    BY <1>7 DEF SaveFirst
  <2> QED
    BY <1>7, <2>1, <2>2 DEF SaveFirst, SettingsTypes
<1>8. CASE EditKey
  <2>1. PICK k \in ApiKeys :
          SaveFirst(Put(cfg, "api_key", k), "saving") /\ wanted' = k /\ UNCHANGED <<live, reader>>
    BY <1>8 DEF EditKey
  <2> QED
    BY <1>1, <1>7, <2>1, PutSettings DEF SettingsTypes, Saving
<1>9. CASE SetScan
  <2>1. 1 - Get(cfg, "scan", 0) \in 0..1
    BY <1>1 DEF IsSettings
  <2> QED
    BY <1>1, <1>7, <1>9, <2>1, PutSettings DEF SetScan, SettingsTypes, Saving
<1>10. CASE SetBaud
  <2>1. 1 - Get(cfg, "baud", 0) \in 0..1
    BY <1>1 DEF IsSettings
  <2> QED
    BY <1>1, <1>7, <1>10, <2>1, PutSettings DEF SetBaud, SettingsTypes, Saving
<1>11. CASE SetDevice
  <2>1. PICK d \in Devices \cup {NoDevice} :
          /\ SaveFirst(Put(cfg, "devices", Preferred(d)), "saving, then restart gps")
          /\ UNCHANGED <<live, reader, wanted>>
    BY <1>11 DEF SetDevice
  <2>2. Preferred(d) \in Lists
    BY <1>1, PreferredFacts
  <2> QED
    BY <1>1, <1>7, <2>1, <2>2, PutSettings DEF SettingsTypes, Saving
<1>12. ASSUME NEW delta \in {-10, 10}, Brightness(delta)
       PROVE  SettingsTypes'
  <2> DEFINE new == Clamp(Darkest, Brightest, live.brightness + delta)
  <2>1. new \in Darkest..Brightest
    <3>1. live.brightness + delta \in Int
      BY DEF SettingsTypes
    <3> QED
      BY <3>1 DEF Clamp
  <2>2. /\ SaveFirst(Put(cfg, "brightness", new), "saving")
        /\ live' = SetBrightness(new) /\ UNCHANGED <<reader, wanted>>
    BY <1>12 DEF Brightness
  <2> HIDE DEF new
  <2>3. /\ live' \in [brightness : Darkest..Brightest, dim : Nat]
        /\ live'.dim <= live'.brightness
    BY <2>1, <2>2 DEF SetBrightness, SettingsTypes
  <2> QED
    BY <1>1, <1>7, <2>1, <2>2, <2>3, PutSettings DEF SettingsTypes, Saving
<1>13. ASSUME NEW delta \in {-5, 5}, Dim(delta)
       PROVE  SettingsTypes'
  <2> DEFINE new == Clamp(0, 100, live.dim + delta)
  <2>1. new \in 0..100
    <3>1. live.dim + delta \in Int
      BY DEF SettingsTypes
    <3> QED
      BY <3>1 DEF Clamp
  <2>2. /\ SaveFirst(Put(cfg, "auto_dim_level", new), "saving")
        /\ live' = [live EXCEPT !.dim = Clamp(0, live.brightness, new)]
        /\ UNCHANGED <<reader, wanted>>
    BY <1>13 DEF Dim
  <2> HIDE DEF new
  <2>3. /\ live' \in [brightness : Darkest..Brightest, dim : Nat]
        /\ live'.dim <= live'.brightness
    BY <2>1, <2>2 DEF Clamp, SettingsTypes
  <2> QED
    BY <1>1, <1>7, <2>1, <2>2, <2>3, PutSettings DEF SettingsTypes, Saving
<1>14. CASE UNCHANGED settingsVars
  BY <1>14 DEF settingsVars, SettingsTypes, IsSettings, Get
<1> QED
  BY <1>2, <1>3, <1>4, <1>5, <1>6, <1>8, <1>9, <1>10, <1>11, <1>12, <1>13, <1>14
     DEF SettingsNext

\* A change to one setting, in memory and in the file that is opened for it.
LEMMA ChangeKeeps ==
  ASSUME SettingsInv, NEW k \in Keys, NEW v, NEW then \in Saving,
         SaveFirst(Put(cfg, k, v), then),
         k # "devices" \/ then # "saving", reader' = reader,
         k = "api_key" => v = wanted', k # "api_key" => wanted' = wanted,
         live'.brightness = IF k = "brightness" THEN v ELSE live.brightness,
         IF k = "auto_dim_level" THEN live'.dim <= v ELSE live'.dim <= live.dim,
         live.dim \in Int, live'.dim \in Int, Get(cfg, "auto_dim_level", DimTo) \in Int
  PROVE  Held' /\ InMenu'
<1> DEFINE c == Put(cfg, k, v)
<1>1. doing = "menu" /\ doing' = then /\ cfg' = c /\ beside' = beside /\ config'.whole = FALSE
  BY DEF SaveFirst
<1>2. then \notin {"off", "menu"}
  BY DEF Saving
<1>3. \A d : Get(c, k, d) = v
  BY DEF Put, Get
<1>4. \A j, d : j # k => Get(c, j, d) = Get(cfg, j, d)
  BY DEF Put, Get
<1>5. k # "devices" /\ "devices" \in DOMAIN c
        => "devices" \in DOMAIN cfg /\ c["devices"] = cfg["devices"]
  BY DEF Put
<1> HIDE DEF c
<1>6. Held'
  <2>1. ~beside => Get(cfg, "api_key", NoKey) = wanted
    BY <1>1 DEF SettingsInv, Held
  <2>2. ~beside => Get(c, "api_key", NoKey) = wanted'
    BY <1>3, <1>4, <2>1
  <2> QED
    BY <1>1, <2>2 DEF Held
<1>7. (doing \in {"menu", "saving"} /\ "devices" \in DOMAIN cfg => reader.asked = cfg["devices"])'
  BY <1>1, <1>5 DEF SettingsInv, InMenu, Saving
<1>8. live'.brightness = Get(c, "brightness", Bright)
  <2>1. live.brightness = Get(cfg, "brightness", Bright)
    BY <1>1 DEF SettingsInv, InMenu
  <2> QED
    BY <1>3, <1>4, <2>1
<1>9. live'.dim <= Get(c, "auto_dim_level", DimTo)
  <2>1. live.dim <= Get(cfg, "auto_dim_level", DimTo)
    BY <1>1 DEF SettingsInv, InMenu
  <2>2. CASE k = "auto_dim_level"
    BY <1>3, <2>2
  <2>3. CASE k # "auto_dim_level"
    <3>1. Get(c, "auto_dim_level", DimTo) = Get(cfg, "auto_dim_level", DimTo)
      BY <1>4, <2>3
    <3>2. live'.dim <= live.dim
      BY <2>3
    <3> QED
      BY <2>1, <3>1, <3>2
  <2> QED
    BY <2>2, <2>3
<1> QED
  BY <1>1, <1>2, <1>6, <1>7, <1>8, <1>9 DEF InMenu

LEMMA SettingsInvStep ==
  ASSUME SettingsInv, [SettingsNext]_settingsVars
  PROVE  Held' /\ InMenu'
<1> USE SettingsAssumption DEF SettingsAssumption
<1>0. SettingsTypes /\ Held /\ InMenu /\ KeyKept
  BY LoadedKey DEF SettingsInv
<1>1. /\ IsSettings(cfg) /\ IsSettings(Load)
      /\ live.dim \in Int /\ live.brightness \in Int /\ live.dim <= live.brightness
      /\ Get(cfg, "auto_dim_level", DimTo) \in Int
  <2>1. IsSettings(cfg) /\ IsSettings(Load)
    BY <1>0, EmptyIsSettings DEF SettingsTypes, Load
  <2>2. live.dim \in Int /\ live.brightness \in Int /\ live.dim <= live.brightness
    BY <1>0 DEF SettingsTypes
  <2>3. Get(cfg, "auto_dim_level", DimTo) \in 0..100
    BY <2>1 DEF IsSettings
  <2> QED
    BY <2>1, <2>2, <2>3
<1>2. CASE Boot
  <2>1. /\ IdleInit(Load).brightness = Get(Load, "brightness", Bright)
        /\ IdleInit(Load).dim <= Get(Load, "auto_dim_level", DimTo)
    <3>1. /\ IdleInit(Load).brightness = Get(Load, "brightness", Bright)
          /\ IdleInit(Load).dim = Clamp(0, IdleInit(Load).brightness, Get(Load, "auto_dim_level", DimTo))
          /\ IdleInit(Load).brightness \in Nat
      BY <1>1, LoadFacts
    <3>2. Get(Load, "auto_dim_level", DimTo) \in 0..100
      BY <1>1 DEF IsSettings
    <3> QED
      BY <3>1, <3>2 DEF Clamp
  <2>2. Load' = Load
    BY <1>2 DEF Boot, Load
  <2>3. "devices" \in DOMAIN Load => NewReader(Load, <<AcmZero>>).asked = Load["devices"]
    BY DEF NewReader, Get
  <2>4. Get(Load, "api_key", NoKey) = wanted
    BY <1>0, <1>2 DEF Boot, KeyKept, Saving
  <2>5. Held'
    BY <1>0, <1>2, <2>4 DEF Boot, Held, Saving
  <2>6. InMenu'
    BY <1>2, <2>1, <2>2, <2>3 DEF Boot, InMenu
  <2> QED
    BY <2>5, <2>6
<1>3. CASE Saved
  <2>1. Load' = cfg
    BY <1>3 DEF Saved, Load
  <2>2. "devices" \in DOMAIN cfg => Restarted.asked = cfg["devices"]
    BY DEF Restarted, NewReader, Get
  <2>3. doing # "off" /\ (doing # "saving" \/ doing \in {"menu", "saving"})
    BY <1>3 DEF Saved, Saving
  <2>4. Get(cfg, "api_key", NoKey) = wanted'
    BY <1>0, <1>3, <2>3 DEF Saved, Held
  <2>5. Held'
    BY <1>3, <2>4 DEF Saved, Held
  <2>6. InMenu'
    BY <1>0, <1>3, <2>1, <2>2, <2>3 DEF Saved, InMenu
  <2> QED
    BY <2>5, <2>6
<1>4. CASE Die
  <2>1. /\ doing' = "off" /\ config' = config
        /\ wanted' = IF config.whole THEN wanted ELSE NoKey
    BY <1>4 DEF Die
  <2> QED
    BY <1>0, <2>1 DEF Held, InMenu
<1>5. CASE Quit
  <2>1. doing = "menu" /\ doing' = "off" /\ config' = config /\ wanted' = wanted
    BY <1>5 DEF Quit
  <2> QED
    BY <1>0, <2>1 DEF Held, InMenu, Saving
<1>6. CASE SshEdit
  <2>1. PICK k \in ApiKeys :
          config' = [whole |-> TRUE, cfg |-> Put(Load, "api_key", k)] /\ wanted' = k
    BY <1>6 DEF SshEdit
  <2>2. /\ beside' = TRUE /\ cfg' = cfg /\ doing' = doing /\ live' = live /\ reader' = reader
    BY <1>6 DEF SshEdit
  <2>3. Load' = Put(Load, "api_key", k)
    BY <2>1 DEF Load
  <2>4. Get(Put(Load, "api_key", k), "api_key", NoKey) = k
    BY DEF Put, Get
  <2>5. Held'
    BY <2>1, <2>2, <2>4 DEF Held
  <2>6. doing = "menu" => Put(Load, "api_key", k) = Put(cfg, "api_key", k)
    <3>1. \A c, v : Put(Put(c, "api_key", v), "api_key", k) = Put(c, "api_key", k)
      BY DEF Put
    <3> QED
      BY <1>0, <3>1 DEF InMenu
  <2>7. InMenu'
    BY <1>0, <2>1, <2>2, <2>3, <2>6 DEF InMenu
  <2> QED
    BY <2>5, <2>7
<1>7. CASE Report
  <2>1. UNCHANGED <<config, cfg, doing, live, wanted, beside>> /\ reader'.asked = reader.asked
    BY <1>0, <1>7 DEF Report, SettingsTypes
  <2> QED
    BY <1>0, <2>1 DEF Held, InMenu, Load
<1>8. ASSUME NEW k \in {"api_key", "scan", "baud", "devices"}, NEW v, NEW then \in Saving,
             SaveFirst(Put(cfg, k, v), then), UNCHANGED <<live, reader>>,
             k # "devices" \/ then # "saving",
             k = "api_key" => v = wanted', k # "api_key" => wanted' = wanted
      PROVE  Held' /\ InMenu'
  <2>1. k \in Keys /\ k # "brightness" /\ k # "auto_dim_level"
    BY DEF Keys
  <2>2. live' = live /\ reader' = reader
    BY <1>8
  <2> QED
    BY <1>1, <1>8, <2>1, <2>2, ChangeKeeps
<1>9. CASE EditKey
  <2>1. PICK k \in ApiKeys :
          SaveFirst(Put(cfg, "api_key", k), "saving") /\ wanted' = k /\ UNCHANGED <<live, reader>>
    BY <1>9 DEF EditKey
  <2> QED
    BY <1>8, <2>1 DEF Saving
<1>10. CASE SetScan \/ SetBaud
  BY <1>8, <1>10 DEF SetScan, SetBaud, Saving
<1>11. CASE SetDevice
  <2>1. PICK d \in Devices \cup {NoDevice} :
          /\ SaveFirst(Put(cfg, "devices", Preferred(d)), "saving, then restart gps")
          /\ UNCHANGED <<live, reader, wanted>>
    BY <1>11 DEF SetDevice
  <2> QED
    BY <1>8, <2>1 DEF Saving
<1>12. ASSUME NEW delta \in {-10, 10}, Brightness(delta)
       PROVE  Held' /\ InMenu'
  <2> DEFINE new == Clamp(Darkest, Brightest, live.brightness + delta)
  <2>1. new \in Darkest..Brightest
    <3>1. live.brightness + delta \in Int
      BY <1>1
    <3> QED
      BY <3>1 DEF Clamp
  <2>2. /\ SaveFirst(Put(cfg, "brightness", new), "saving")
        /\ live' = SetBrightness(new) /\ UNCHANGED <<reader, wanted>>
    BY <1>12 DEF Brightness
  <2> HIDE DEF new
  <2>3. live'.brightness = new /\ live'.dim \in Int /\ live'.dim <= live.dim
    BY <1>1, <2>1, <2>2 DEF SetBrightness
  <2> QED
    BY <1>1, <2>2, <2>3, ChangeKeeps DEF Keys, Saving
<1>13. ASSUME NEW delta \in {-5, 5}, Dim(delta)
       PROVE  Held' /\ InMenu'
  <2> DEFINE new == Clamp(0, 100, live.dim + delta)
  <2>1. new \in 0..100
    <3>1. live.dim + delta \in Int
      BY <1>1
    <3> QED
      BY <3>1 DEF Clamp
  <2>2. /\ SaveFirst(Put(cfg, "auto_dim_level", new), "saving")
        /\ live' = [live EXCEPT !.dim = Clamp(0, live.brightness, new)]
        /\ UNCHANGED <<reader, wanted>>
    BY <1>13 DEF Dim
  <2> HIDE DEF new
  <2>3. live'.brightness = live.brightness /\ live'.dim = Clamp(0, live.brightness, new)
    BY <1>0, <2>2 DEF SettingsTypes
  <2>4. live.brightness \in Nat
    BY <1>0 DEF SettingsTypes
  <2>5. live'.dim \in Int /\ live'.dim <= new
    BY <2>1, <2>3, <2>4 DEF Clamp
  <2> QED
    BY <1>1, <2>2, <2>3, <2>5, ChangeKeeps DEF Keys, Saving
<1>14. CASE UNCHANGED settingsVars
  BY <1>0, <1>14 DEF settingsVars, Held, InMenu, Load
<1> QED
  BY <1>2, <1>3, <1>4, <1>5, <1>6, <1>7, <1>9, <1>10, <1>11, <1>12, <1>13, <1>14
     DEF SettingsNext

\* Between two changes, memory, the file and what is in effect agree: the key set
\* last is the one on disk and, unless set beside the program, in use; a save cut
\* short leaves none, one over an edit leaves the program's; a restart would change
\* nothing else, and the GPS reader has the devices that are set
\* (save_config, IdleManager, _restart_gps).
THEOREM SettingsAgreeAlways == SettingsSpec => []SettingsAgree
<1>1. SettingsInit => SettingsInv
  <2> SUFFICES ASSUME SettingsInit PROVE SettingsInv
    OBVIOUS
  <2> USE SettingsAssumption DEF SettingsAssumption
  <2>1. IdleInit(Empty) \in [brightness : Darkest..Brightest, dim : Nat]
        /\ IdleInit(Empty).dim <= IdleInit(Empty).brightness
    BY EmptyIsSettings, LoadFacts
  <2>2. /\ DOMAIN Empty = {} /\ <<>> \in Lists /\ Load = Empty
        /\ \A k, default : Get(Empty, k, default) = default
    BY DEF SettingsInit, Empty, Get, Lists, NoRepeats, Load
  <2>3. reader \in [asked : Lists, device : Devices \cup {NoDevice}]
    BY <2>2 DEF SettingsInit, NewReader
  <2>4. SettingsTypes
    <3>1. IsSettings(config.cfg) /\ config.whole \in BOOLEAN /\ IsSettings(cfg)
      BY EmptyIsSettings DEF SettingsInit
    <3>2. /\ live \in [brightness : Darkest..Brightest, dim : Nat]
          /\ live.dim <= live.brightness
      BY <2>1 DEF SettingsInit
    <3>3. gpsd \in Devices /\ wanted \in ApiKeys \cup {NoKey} /\ beside \in BOOLEAN
      BY DEF SettingsInit
    <3>4. doing \in {"off", "menu"} \cup Saving /\ edits \in 0..MaxEdits
      BY DEF SettingsInit
    <3> QED
      BY ONLY <2>3, <3>1, <3>2, <3>3, <3>4 DEF SettingsTypes
  <2>5. Held /\ InMenu
    BY <2>2 DEF SettingsInit, Held, InMenu, Saving
  <2> QED
    BY <2>4, <2>5 DEF SettingsInv
<1>2. SettingsInv /\ [SettingsNext]_settingsVars => SettingsInv'
  BY SettingsTypesStep, SettingsInvStep DEF SettingsInv
<1>3. SettingsInv => SettingsAgree
  <2> SUFFICES ASSUME SettingsInv PROVE SettingsAgree
    OBVIOUS
  <2>1. SettingsTypes /\ KeyKept /\ InMenu
    BY LoadedKey DEF SettingsInv
  <2>2. ReaderFollows
    BY <2>1 DEF ReaderFollows, InMenu
  <2>3. RestartKeeps
    <3> SUFFICES ASSUME doing = "menu"
                 PROVE  /\ Load = IF beside THEN Put(cfg, "api_key", wanted) ELSE cfg
                        /\ live.brightness = IdleInit(Load).brightness
                        /\ live.dim <= IdleInit(Load).dim
      BY DEF RestartKeeps
    <3>1. /\ Load = IF beside THEN Put(cfg, "api_key", wanted) ELSE cfg
          /\ IsSettings(cfg)
      BY <2>1 DEF InMenu, SettingsTypes
    <3>2. \A k, d : k # "api_key" => Get(Load, k, d) = Get(cfg, k, d)
      BY <3>1 DEF Put, Get
    <3>3. /\ Get(Load, "brightness", Bright) = Get(cfg, "brightness", Bright)
          /\ Get(Load, "auto_dim_level", DimTo) = Get(cfg, "auto_dim_level", DimTo)
      BY <3>2
    <3>4. IdleInit(Load) = IdleInit(cfg)
      BY <3>3 DEF IdleInit
    <3>5. /\ IdleInit(cfg).brightness = Get(cfg, "brightness", Bright)
          /\ IdleInit(cfg).dim
               = Clamp(0, Get(cfg, "brightness", Bright), Get(cfg, "auto_dim_level", DimTo))
      BY <3>1, LoadFacts
    <3>6. /\ live.brightness = Get(cfg, "brightness", Bright)
          /\ live.dim <= Get(cfg, "auto_dim_level", DimTo)
      BY <2>1 DEF InMenu
    <3>7. live.dim \in Nat /\ live.brightness \in Nat /\ live.dim <= live.brightness
      BY <2>1, SettingsAssumption DEF SettingsTypes, SettingsAssumption
    <3>8. Get(cfg, "auto_dim_level", DimTo) \in 0..100
      BY <3>1 DEF IsSettings
    <3>9. live.dim <= Clamp(0, live.brightness, Get(cfg, "auto_dim_level", DimTo))
      BY <3>6, <3>7, <3>8 DEF Clamp
    <3> QED
      BY <3>1, <3>4, <3>5, <3>6, <3>9
  <2> QED
    BY <2>1, <2>2, <2>3 DEF SettingsAgree
<1> QED
  BY <1>1, <1>2, <1>3, PTL DEF SettingsSpec

-------------------------------------------------------------------------------
(* Radio: the hop plan. *)

LEMMA FreqLists == HopOrder \in Seq(Freqs) /\ Anchors \in Seq(Freqs)
<1>1. HopOrder \in Seq(Nat) /\ Anchors \in Seq(Nat)
  BY RadioAssumption DEF RadioAssumption
<1>2. \A i \in 1..Len(HopOrder) : HopOrder[i] \in Freqs
  BY <1>1 DEF Freqs, Range
<1>3. \A i \in 1..Len(Anchors) : Anchors[i] \in Freqs
  BY <1>1, RadioAssumption DEF RadioAssumption, Range
<1> QED
  BY <1>1, <1>2, <1>3

LEMMA SeqRange ==
  ASSUME NEW S, NEW s \in Seq(S), NEW x
  PROVE  x \in Range(s) <=> \E i \in 1..Len(s) : s[i] = x
BY DEF Range

LEMMA ConcatRange ==
  ASSUME NEW S, NEW s \in Seq(S), NEW t \in Seq(S)
  PROVE  s \o t \in Seq(S) /\ Range(s \o t) = Range(s) \cup Range(t)
<1>1. s \o t \in Seq(S) /\ Len(s \o t) = Len(s) + Len(t) /\ Len(s) \in Nat /\ Len(t) \in Nat
  OBVIOUS
<1>2. \A i \in 1..Len(s) : i \in 1..Len(s \o t) /\ (s \o t)[i] = s[i]
  OBVIOUS
<1>3. \A i \in 1..Len(t) : Len(s) + i \in 1..Len(s \o t) /\ (s \o t)[Len(s) + i] = t[i]
  OBVIOUS
<1>4. \A i \in 1..Len(s \o t) : i \in 1..Len(s) \/ \E j \in 1..Len(t) : i = Len(s) + j
  <2> SUFFICES ASSUME NEW i \in 1..Len(s \o t), i \notin 1..Len(s)
               PROVE  \E j \in 1..Len(t) : i = Len(s) + j
    OBVIOUS
  <2>1. i - Len(s) \in 1..Len(t) /\ i = Len(s) + (i - Len(s))
    BY <1>1
  <2> QED
    BY <2>1
<1>5. DOMAIN (s \o t) = 1..Len(s \o t) /\ DOMAIN s = 1..Len(s) /\ DOMAIN t = 1..Len(t)
  OBVIOUS
<1>6. ASSUME NEW x
      PROVE  x \in Range(s \o t) <=> x \in Range(s) \/ x \in Range(t)
  <2>1. x \in Range(s) <=> \E i \in 1..Len(s) : s[i] = x
    BY <1>5 DEF Range
  <2>2. x \in Range(t) <=> \E i \in 1..Len(t) : t[i] = x
    BY <1>5 DEF Range
  <2>3. x \in Range(s \o t) <=> \E i \in 1..Len(s \o t) : (s \o t)[i] = x
    BY <1>5 DEF Range
  <2> QED
    BY <1>2, <1>3, <1>4, <2>1, <2>2, <2>3
<1> QED
  BY <1>1, <1>6

LEMMA OneRange ==
  ASSUME NEW S, NEW x \in S
  PROVE  <<x>> \in Seq(S) /\ Range(<<x>>) = {x}
BY DEF Range

\* What _build_hop_plan puts after every third frequency.
Turn(anchors, n) == <<anchors[(((n \div 3) - 1) % Len(anchors)) + 1]>>

LEMMA TurnFacts ==
  ASSUME NEW S, NEW anchors \in Seq(S), anchors # <<>>, NEW n \in Nat
  PROVE  Turn(anchors, n) \in Seq(S) /\ Range(Turn(anchors, n)) \subseteq Range(anchors)
<1>1. Len(anchors) \in Nat \ {0}
  OBVIOUS
<1>2. ((n \div 3) - 1) \in Int
  OBVIOUS
<1>3. \A a \in Int, b \in Nat \ {0} : a % b \in 0..b - 1
  OBVIOUS
<1>4. ((n \div 3) - 1) % Len(anchors) \in 0..Len(anchors) - 1
  BY <1>1, <1>2, <1>3
<1> DEFINE i == (((n \div 3) - 1) % Len(anchors)) + 1
<1>5. i \in 1..Len(anchors)
  BY <1>1, <1>4
<1> HIDE DEF i
<1>6. anchors[i] \in S /\ anchors[i] \in Range(anchors)
  BY <1>5 DEF Range
<1>7. Turn(anchors, n) = <<anchors[i]>>
  BY DEF Turn, i
<1> QED
  BY <1>6, <1>7, OneRange

\* The recursion behind Woven.
Weaves(woven, freqs, anchors) ==
  woven = [n \in 0..Len(freqs) |->
             IF n = 0 THEN <<>>
             ELSE woven[n - 1] \o <<freqs[n]>> \o IF n % 3 = 0 THEN Turn(anchors, n) ELSE <<>>]

LEMMA WeavesExists ==
  ASSUME NEW S, NEW freqs \in Seq(S), NEW anchors \in Seq(S), anchors # <<>>
  PROVE  \E woven \in [0..Len(freqs) -> Seq(S)] : Weaves(woven, freqs, anchors)
<1> DEFINE m == Len(freqs)
           Then(x, n) == x \o <<freqs[n]>> \o IF n % 3 = 0 THEN Turn(anchors, n) ELSE <<>>
           step == [p \in Seq(S) \X (1..m) |-> Then(p[1], p[2])]
<1>1. m \in Nat /\ <<>> \in Seq(S)
  OBVIOUS
<1>2. ASSUME NEW x \in Seq(S), NEW n \in 1..m
      PROVE  Then(x, n) \in Seq(S)
  <2>1. freqs[n] \in S
    OBVIOUS
  <2>2. (IF n % 3 = 0 THEN Turn(anchors, n) ELSE <<>>) \in Seq(S)
    BY <1>1, TurnFacts
  <2> DEFINE turn == IF n % 3 = 0 THEN Turn(anchors, n) ELSE <<>>
  <2> HIDE DEF turn
  <2>3. x \o <<freqs[n]>> \o turn \in Seq(S)
    BY <2>1, <2>2 DEF turn
  <2> QED
    BY <2>3 DEF turn
<1> HIDE DEF Then
<1>3. \A x \in Seq(S), n \in 1..m : step[<<x, n>>] = Then(x, n)
  OBVIOUS
<1>4. step \in [Seq(S) \X (1..m) -> Seq(S)]
  BY <1>2
<1> HIDE DEF step, m
<1>5. PICK f \in [0..m -> Seq(S)] : Along(f, <<>>, m, step)
  BY <1>1, <1>4, RecursionExists
<1>6. ASSUME NEW n \in 0..m
      PROVE  f[n] = IF n = 0 THEN <<>> ELSE Then(f[n - 1], n)
  <2>1. f[n] = IF n = 0 THEN <<>> ELSE step[<<f[n - 1], n>>]
    BY <1>5 DEF Along
  <2>2. n # 0 => n - 1 \in 0..m /\ n \in 1..m
    BY <1>1
  <2>3. n # 0 => f[n - 1] \in Seq(S)
    BY <1>5, <2>2
  <2> QED
    BY <1>3, <2>1, <2>2, <2>3
<1>7. f = [n \in 0..m |-> IF n = 0 THEN <<>> ELSE Then(f[n - 1], n)]
  BY <1>5, <1>6
<1> QED
  BY <1>5, <1>7 DEF Weaves, Then, m

\* Weaving the anchors in leaves no frequency out and adds none that is not there.
LEMMA WovenFacts ==
  ASSUME NEW freqs \in Seq(Freqs)
  PROVE  Woven(freqs) \in Seq(Freqs) /\ Range(Woven(freqs)) = Range(freqs)
<1> DEFINE anchors == Only(Anchors, Range(freqs))
<1>1. anchors \in Seq(Freqs) /\ Range(anchors) \subseteq Range(freqs)
  <2>1. anchors \in Seq(Freqs)
    BY FreqLists, OnlyFacts
  <2>2. \A i \in 1..Len(anchors) : anchors[i] \in Range(freqs)
    BY FreqLists, OnlyFacts
  <2> HIDE DEF anchors
  <2> QED
    BY <2>1, <2>2, SeqRange
<1>2. CASE anchors = <<>>
  BY <1>2 DEF Woven
<1>3. CASE anchors # <<>>
  <2> DEFINE w == CHOOSE woven : Weaves(woven, freqs, anchors)
  <2> HIDE DEF anchors
  <2>1. Weaves(w, freqs, anchors)
    <3>1. \E woven : Weaves(woven, freqs, anchors)
      BY <1>1, <1>3, WeavesExists
    <3> QED
      BY <3>1
  <2>2. Woven(freqs) = w[Len(freqs)]
    BY <1>3, Zenon DEF Woven, Weaves, Turn, anchors
  <2> HIDE DEF w
  <2> DEFINE Good(n) == /\ w[n] \in Seq(Freqs) /\ Range(w[n]) \subseteq Range(freqs)
                        /\ \A i \in 1..n : freqs[i] \in Range(w[n])
             P == {n \in Nat : n <= Len(freqs) => Good(n)}
  <2>3. 0 \in P
    <3>1. w[0] = <<>>
      BY <2>1 DEF Weaves
    <3>2. w[0] \in Seq(Freqs) /\ Range(w[0]) = {}
      BY <3>1 DEF Range
    <3> QED
      BY <3>2
  <2>4. ASSUME NEW n \in Nat, n \in P
        PROVE  n + 1 \in P
    <3> SUFFICES ASSUME n + 1 <= Len(freqs)
                 PROVE  Good(n + 1)
      OBVIOUS
    <3> DEFINE turn == IF (n + 1) % 3 = 0 THEN Turn(anchors, n + 1) ELSE <<>>
               one == <<freqs[n + 1]>>
    <3>1. w[n + 1] = w[n] \o one \o turn
      <4>1. n + 1 \in 0..Len(freqs) /\ n + 1 # 0 /\ (n + 1) - 1 = n
        BY <2>4
      <4> QED
        BY <2>1, <4>1 DEF Weaves
    <3>2. Good(n)
      BY <2>4
    <3>3. n + 1 \in 1..Len(freqs) /\ freqs[n + 1] \in Freqs /\ freqs[n + 1] \in Range(freqs)
      BY <2>4 DEF Range
    <3>4. one \in Seq(Freqs) /\ Range(one) = {freqs[n + 1]}
      BY <3>3, OneRange
    <3>5. turn \in Seq(Freqs) /\ Range(turn) \subseteq Range(freqs)
      <4>1. CASE (n + 1) % 3 = 0
        <5>1. n + 1 \in Nat /\ turn = Turn(anchors, n + 1)
          BY <2>4, <4>1
        <5>2. /\ Turn(anchors, n + 1) \in Seq(Freqs)
              /\ Range(Turn(anchors, n + 1)) \subseteq Range(anchors)
          BY <1>1, <1>3, <5>1, TurnFacts
        <5> QED
          BY <1>1, <5>1, <5>2
      <4>2. CASE (n + 1) % 3 # 0
        BY <4>2 DEF Range
      <4> QED
        BY <4>1, <4>2
    <3> HIDE DEF one, turn
    <3>6. w[n] \o one \in Seq(Freqs) /\ Range(w[n] \o one) = Range(w[n]) \cup Range(one)
      BY <3>2, <3>4, ConcatRange
    <3>7. /\ w[n + 1] \in Seq(Freqs)
          /\ Range(w[n + 1]) = Range(w[n]) \cup {freqs[n + 1]} \cup Range(turn)
      <4> DEFINE front == w[n] \o one
      <4>1. w[n + 1] = front \o turn
        BY <3>1
      <4>2. front \in Seq(Freqs) /\ Range(front) = Range(w[n]) \cup {freqs[n + 1]}
        BY <3>4, <3>6
      <4> HIDE DEF front
      <4>3. front \o turn \in Seq(Freqs) /\ Range(front \o turn) = Range(front) \cup Range(turn)
        BY <3>5, <4>2, ConcatRange
      <4> QED
        BY <4>1, <4>2, <4>3
    <3>8. \A i \in 1..n + 1 : i \in 1..n \/ i = n + 1
      BY <2>4
    <3> QED
      BY <3>2, <3>3, <3>5, <3>7, <3>8
  <2>5. Good(Len(freqs))
    <3>1. Len(freqs) \in Nat
      OBVIOUS
    <3> HIDE DEF Good
    <3>2. Len(freqs) \in P
      <4> HIDE DEF P
      <4> QED
        BY <2>3, <2>4, <3>1, NatSetInduction
    <3> QED
      BY <3>1, <3>2
  <2>6. Range(freqs) \subseteq Range(w[Len(freqs)])
    BY <2>5, SeqRange
  <2> QED
    BY <2>2, <2>5, <2>6
<1> QED
  BY <1>2, <1>3

\* The hop thread goes through every frequency the radio has and no other,
\* however they are woven (MonitorScanner._build_hop_plan).
THEOREM HopPlanCovers ==
  ASSUME NEW supported \in SUBSET Freqs
  PROVE  /\ HopPlan(supported) \in Seq(Freqs)
         /\ Range(HopPlan(supported)) = IF supported = {} THEN Freqs ELSE supported
<1> DEFINE T == IF supported = {} THEN Freqs ELSE supported
           freqs == Only(HopOrder, T)
<1>1. T \subseteq Freqs
  OBVIOUS
<1> HIDE DEF T
<1>2. freqs \in Seq(Freqs)
  BY FreqLists, OnlyFacts
<1>3. \A x : (\E i \in 1..Len(freqs) : freqs[i] = x) <=> x \in T /\ x \in Freqs
  <2>1. \A x : x \in Freqs <=> \E i \in 1..Len(HopOrder) : HopOrder[i] = x
    BY FreqLists DEF Freqs, Range
  <2>2. \A x : (\E i \in 1..Len(freqs) : freqs[i] = x)
                 <=> x \in T /\ \E i \in 1..Len(HopOrder) : HopOrder[i] = x
    BY FreqLists, OnlyFacts
  <2> HIDE DEF freqs
  <2> QED
    BY <2>1, <2>2
<1> HIDE DEF freqs
<1>4. Range(freqs) = T
  BY <1>1, <1>2, <1>3, SeqRange
<1>5. HopPlan(supported) = Woven(freqs)
  BY DEF HopPlan, freqs, T
<1> QED
  BY <1>2, <1>4, <1>5, WovenFacts DEF T

-------------------------------------------------------------------------------
(* Radio: the interface, the rotation and the hops. *)

\* Of two or more numbers one is the least.
LEMMA MinFacts ==
  ASSUME NEW S \in SUBSET Nat, S # {}
  PROVE  Min(S) \in S /\ \A y \in S : Min(S) <= y
<1>1. \E n \in S : \A m \in S : ~(<<m, n>> \in OpToRel(<, Nat))
  BY NatLessThanWellFounded, WFMin, Zenon
<1>2. \A m, n \in Nat : m < n => <<m, n>> \in OpToRel(<, Nat)
  BY DEF OpToRel
<1>3. PICK n \in S : \A m \in S : ~(m < n)
  BY <1>1, <1>2
<1>4. \A m \in S : n <= m
  BY <1>3
<1> QED
  BY <1>3, <1>4 DEF Min

LEMMA MinOfTwo ==
  ASSUME NEW a \in Nat, NEW b \in Nat
  PROVE  Min({a, b}) = IF a <= b THEN a ELSE b
<1>1. {a, b} \in SUBSET Nat /\ {a, b} # {}
  OBVIOUS
<1>2. Min({a, b}) \in {a, b} /\ \A y \in {a, b} : Min({a, b}) <= y
  BY <1>1, MinFacts
<1> QED
  BY <1>2

\* The remainder of a number less than twice the divisor.
LEMMA ModFacts ==
  ASSUME NEW L \in Nat \ {0}, NEW a \in Nat, a < L + L
  PROVE  a % L = IF a < L THEN a ELSE a - L
<1>1. CASE a < L
  BY <1>1
<1>2. CASE a >= L
  BY <1>2
<1> QED
  BY <1>1, <1>2

LEMMA BoundedSeqFacts ==
  ASSUME NEW S, NEW n \in Nat, NEW s
  PROVE  s \in BoundedSeq(S, n) <=> s \in Seq(S) /\ Len(s) <= n
<1>1. s \in BoundedSeq(S, n) <=> \E m \in 0..n : s \in [1..m -> S]
  BY DEF BoundedSeq, SeqOf
<1>2. ASSUME NEW m \in 0..n, s \in [1..m -> S]
      PROVE  s \in Seq(S) /\ Len(s) <= n
  BY <1>2
<1>3. ASSUME s \in Seq(S), Len(s) <= n
      PROVE  Len(s) \in 0..n /\ s \in [1..Len(s) -> S]
  BY <1>3
<1> QED
  BY <1>1, <1>2, <1>3

\* Appended, and cut to its bound, a list stays within it.
LEMMA AppendBounded ==
  ASSUME NEW A, NEW s \in Seq(A), NEW x \in A, NEW n \in Nat \ {0}, Len(s) <= n
  PROVE  LET all == Append(s, x)
             new == IF Len(all) > n THEN Tail(all) ELSE all
         IN  new \in Seq(A) /\ Len(new) <= n
<1> DEFINE all == Append(s, x)
<1>1. all \in Seq(A) /\ Len(all) = Len(s) + 1 /\ Len(s) \in Nat
  OBVIOUS
<1> HIDE DEF all
<1>2. Len(all) > n => Tail(all) \in Seq(A) /\ Len(Tail(all)) = Len(all) - 1
  BY <1>1
<1> QED
  BY <1>1, <1>2 DEF all

\* What _start_wifi's choice may be.
LEMMA PickFacts ==
  ASSUME NEW p \in Prefs \cup {"scan"}, NEW listing \in Listings, NEW choice \in PickWifi(p, listing)
  PROVE  /\ choice.iface \in Names /\ choice.mode \in {"monitor", "scan"}
         /\ choice.mode = "monitor" =>
              choice.iface \in MonNames
                \/ \E i \in UNION Listings : i.name = choice.iface /\ i.type = "monitor"
         /\ p = "scan" =>
              choice.mode = "scan" /\ (Scannables(listing) # {} =>
                 \E i \in listing : i.name = choice.iface /\ i.type = "managed")
<1>1. \A mode, names : choice \in On(mode, names) => choice.mode = mode /\ choice.iface \in names
  BY DEF On
<1>2. ASSUME NEW i \in listing
      PROVE  i \in UNION Listings /\ i.name \in Names
  BY DEF Names
<1>3. \A T \in SUBSET listing : Best(T) \subseteq T
  BY DEF Best
<1>4. CASE p \notin {"auto", "monitor", "scan"}
  <2>1. choice \in Named(p, listing)
    BY <1>4 DEF PickWifi
  <2>2. p \in Names
    BY <1>4 DEF Names
  <2> DEFINE known == {i \in listing : i.name = p}
             isMonitor == IF known = {} THEN p \in MonNames
                                        ELSE \E i \in known : i.type = "monitor"
  <2>3. choice.iface = p /\ choice.mode = IF isMonitor THEN "monitor" ELSE "scan"
    BY <1>1, <2>1 DEF Named
  <2>4. isMonitor => p \in MonNames
                       \/ \E i \in UNION Listings : i.name = p /\ i.type = "monitor"
    BY <1>2
  <2> HIDE DEF isMonitor
  <2> QED
    BY <1>4, <2>2, <2>3, <2>4
<1>5. CASE choice \in ToScan(listing)
  <2>1. CASE Scannables(listing) = {}
    <3>1. choice.mode = "scan" /\ choice.iface = "wlan0"
      BY <1>1, <1>5, <2>1 DEF ToScan
    <3> QED
      BY <2>1, <3>1 DEF Names
  <2>2. CASE Scannables(listing) # {}
    <3>1. choice.mode = "scan" /\ choice.iface \in {i.name : i \in Best(Scannables(listing))}
      BY <1>1, <1>5, <2>2 DEF ToScan
    <3>2. PICK i \in Best(Scannables(listing)) : choice.iface = i.name
      BY <3>1
    <3>3. i \in listing /\ i.type = "managed"
      BY <1>3, <3>2 DEF Scannables
    <3> QED
      BY <1>2, <3>1, <3>2, <3>3
  <2> QED
    BY <2>1, <2>2
<1>6. CASE p # "scan" /\ choice \in On("monitor", {i.name : i \in Best(Monitors(listing))})
  <2>1. choice.mode = "monitor" /\ choice.iface \in {i.name : i \in Best(Monitors(listing))}
    BY <1>1, <1>6
  <2>2. PICK i \in Best(Monitors(listing)) : choice.iface = i.name
    BY <2>1
  <2>3. i \in listing /\ i.type = "monitor"
    BY <1>3, <2>2 DEF Monitors
  <2> QED
    BY <1>2, <1>6, <2>1, <2>2, <2>3
<1> QED
  BY <1>4, <1>5, <1>6 DEF PickWifi

\* Nothing has been set before the sweeps or the hops start.
Fresh ==
  phase # "running" =>
    /\ refused # "-" => phase = "scan"
    /\ worker = "none" /\ plan = <<>> /\ planIdx = 0 /\ hopIdx = 0
    /\ bandFail = [b \in Bands |-> 0] /\ answers = <<>> /\ retrying = NoBand

\* Each thread has what it turns through in hand.
Turning ==
  /\ worker = "hop" => hopIdx < Len(hopFreqs)
  /\ worker \in {"next", "sweep"} => plan \in Plans /\ planIdx < Len(plan)
  /\ worker = "sweep" => band \in Bands

\* Slot i of the plan has a band that is still swept; no slot has.
Live(i) == plan[i] \in usable /\ ~Retired(plan[i])
NoneLive == \A i \in 1..Len(plan) : ~Live(i)

\* The band in hand is that of the slot before planIdx, or all bands for want of
\* another; the band to retry is that of the slot at planIdx, or the same.
Rotation ==
  /\ worker = "sweep" =>
       \/ band = "all" /\ NoneLive
       \/ LET before == ((planIdx + Len(plan) - 1) % Len(plan)) + 1
          IN  band = plan[before] /\ Live(before)
  /\ worker = "next" /\ retrying # NoBand =>
       \/ retrying = "all" /\ NoneLive
       \/ retrying = plan[planIdx + 1] /\ Live(planIdx + 1)

\* The last answers to sweeps of the band watched are the failures counted.
Counted ==
  watched # NoBand =>
    /\ bandFail[watched] <= Len(answers)
    /\ \A n \in 1..Len(answers) : n > Len(answers) - bandFail[watched] => answers[n] = "failed"

\* The interface monitor capture is tried on is a monitor, by its type or name.
TriedOnMonitor ==
  phase = "monitor" =>
    \/ iface \in MonNames
    \/ \E i \in UNION Listings : i.name = iface /\ i.type = "monitor"

RadioInv ==
  /\ RadioTypes /\ Fresh /\ Turning /\ Rotation /\ Counted /\ RetryKeepsBand
  /\ TriedOnMonitor /\ FallBackCanScan

\* The slots ahead: 0 is the slot at hand, none means that no band is left, and
\* the first is the least.
LEMMA AheadFacts ==
  ASSUME RadioTypes, plan \in Plans, planIdx < Len(plan)
  PROVE  /\ Ahead \in SUBSET Nat /\ (Ahead = {} <=> NoneLive)
         /\ 0 \in Ahead <=> Live(planIdx + 1)
         /\ \A d \in Ahead :
              /\ (planIdx + d) % Len(plan) \in 0..Len(plan) - 1
              /\ Live(((planIdx + d) % Len(plan)) + 1)
<1> DEFINE L == Len(plan)
<1>1. L \in Nat \ {0} /\ planIdx \in 0..L - 1
  BY RadioAssumption DEF RadioAssumption, RadioTypes
<1> HIDE DEF L
<1>2. Ahead = {d \in 0..L - 1 : Live(((planIdx + d) % L) + 1)}
  BY DEF Ahead, Live, L
<1>3. \A d \in 0..L - 1 : (planIdx + d) % L = IF planIdx + d < L THEN planIdx + d
                                              ELSE planIdx + d - L
  <2> TAKE d \in 0..L - 1
  <2> DEFINE a == planIdx + d
  <2>1. a \in Nat /\ a < L + L
    BY <1>1
  <2> HIDE DEF a
  <2>2. a % L = IF a < L THEN a ELSE a - L
    BY <1>1, <2>1, ModFacts
  <2> QED
    BY <1>1, <2>1, <2>2 DEF a
<1>4. \A d \in 0..L - 1 : (planIdx + d) % L \in 0..L - 1
  BY <1>1, <1>3
<1>5. 0 \in Ahead <=> Live(planIdx + 1)
  <2>1. (planIdx + 0) % L = planIdx /\ 0 \in 0..L - 1
    BY <1>1, <1>3
  <2> QED
    BY <1>2, <2>1
<1>6. ASSUME NEW i \in 1..L
      PROVE  \E d \in 0..L - 1 : ((planIdx + d) % L) + 1 = i
  <2> DEFINE d == IF i - 1 >= planIdx THEN i - 1 - planIdx ELSE i - 1 - planIdx + L
  <2>1. d \in 0..L - 1 /\ planIdx + d = IF i - 1 >= planIdx THEN i - 1 ELSE i - 1 + L
    BY <1>1
  <2>2. (planIdx + d) % L = i - 1
    BY <1>1, <1>3, <2>1
  <2>3. ((planIdx + d) % L) + 1 = i
    BY <2>2
  <2> HIDE DEF d
  <2> QED
    BY <2>1, <2>3
<1>7. Ahead = {} <=> NoneLive
  <2>1. NoneLive <=> \A i \in 1..L : ~Live(i)
    BY DEF NoneLive, L
  <2>2. \A d \in 0..L - 1 : ((planIdx + d) % L) + 1 \in 1..L
    BY <1>1, <1>4
  <2> QED
    BY <1>2, <1>6, <2>1, <2>2
<1> QED
  BY <1>1, <1>2, <1>4, <1>5, <1>7 DEF L

\* What an answer does to the history of answers, and to the count of failures.
LEMMA NoteFacts ==
  ASSUME RadioTypes, Counted, NEW answer \in {"ok", "failed"}, Note(answer),
         watched' = watched, watched # NoBand, band \in Bands, band = watched
  PROVE  /\ answers' \in Seq({"ok", "failed"}) /\ Len(answers') <= BandFailLimit
         /\ LET count == Min({bandFail[watched] + 1, BandFailLimit})
            IN  answer = "failed" =>
                  /\ count <= Len(answers')
                  /\ \A n \in 1..Len(answers') :
                       n > Len(answers') - count => answers'[n] = "failed"
<1> DEFINE A == {"ok", "failed"}
           all == Append(answers, answer)
           c == Min({bandFail[watched] + 1, BandFailLimit})
           k == bandFail[watched]
<1>1. answers \in Seq(A) /\ Len(answers) <= BandFailLimit /\ BandFailLimit \in Nat \ {0}
  BY BoundedSeqFacts, RadioAssumption DEF RadioAssumption, RadioTypes
<1>2. k \in 0..BandFailLimit
  BY DEF RadioTypes
<1>3. k <= Len(answers) /\ \A n \in 1..Len(answers) : n > Len(answers) - k => answers[n] = "failed"
  BY DEF Counted
<1>4. c = IF k + 1 <= BandFailLimit THEN k + 1 ELSE BandFailLimit
  BY <1>1, <1>2, MinOfTwo
<1>5. answers' = IF Len(all) > BandFailLimit THEN Tail(all) ELSE all
  BY DEF Note
<1> HIDE DEF c, k, A
<1>6. /\ all \in Seq(A) /\ Len(all) = Len(answers) + 1 /\ Len(answers) \in Nat
      /\ \A n \in 1..Len(answers) : all[n] = answers[n]
      /\ all[Len(answers) + 1] = answer
  BY <1>1 DEF A
<1> HIDE DEF all
<1>7. ASSUME answer = "failed"
      PROVE  \A n \in 1..Len(all) : n > Len(all) - (k + 1) => all[n] = "failed"
  <2> TAKE n \in 1..Len(all)
  <2>1. n \in 1..Len(answers) \/ n = Len(answers) + 1
    BY <1>6
  <2> QED
    BY <1>2, <1>3, <1>6, <1>7, <2>1
<1> DEFINE Result ==
             /\ answers' \in Seq(A) /\ Len(answers') <= BandFailLimit
             /\ answer = "failed" =>
                  /\ c <= Len(answers')
                  /\ \A n \in 1..Len(answers') : n > Len(answers') - c => answers'[n] = "failed"
<1>8. ASSUME Len(all) <= BandFailLimit
      PROVE  Result
  <2>1. answers' = all /\ c = k + 1
    BY <1>1, <1>2, <1>3, <1>4, <1>5, <1>6, <1>8
  <2> QED
    BY <1>2, <1>3, <1>6, <1>7, <1>8, <2>1
<1>9. ASSUME ~(Len(all) <= BandFailLimit)
      PROVE  Result
  <2>1. /\ answers' \in Seq(A) /\ Len(answers') = Len(all) - 1
        /\ \A n \in 1..Len(answers') : answers'[n] = all[n + 1]
    BY <1>1, <1>5, <1>6, <1>9
  <2>2. Len(answers') = BandFailLimit
    BY <1>1, <1>6, <1>9, <2>1
  <2>3. ASSUME answer = "failed", NEW n \in 1..Len(answers'), n > Len(answers') - c
        PROVE  answers'[n] = "failed"
    <3>1. n + 1 \in 1..Len(all) /\ n + 1 > Len(all) - (k + 1)
      BY <1>1, <1>2, <1>4, <1>6, <2>1, <2>3
    <3> QED
      BY <1>7, <2>1, <2>3, <3>1
  <2>4. c <= Len(answers')
    BY <1>1, <1>2, <1>4, <2>2
  <2> QED
    BY <2>1, <2>2, <2>3, <2>4
<1>10. Result
  BY <1>8, <1>9
<1> QED
  BY <1>10 DEF A, c, k

\* The interface is picked, and picked again to sweep on.
LEMMA PickStep ==
  ASSUME RadioInv, Start \/ FallBack
  PROVE  RadioInv'
<1>1. PICK p \in Prefs \cup {"scan"}, listing \in Listings : \E c \in PickWifi(p, listing) :
        /\ listed' = listing /\ iface' = c.iface /\ phase' = c.mode
        /\ FallBack => p = "scan"
  BY DEF Start, FallBack, PickSource
<1>2. PICK c \in PickWifi(p, listing) :
        /\ listed' = listing /\ iface' = c.iface /\ phase' = c.mode
        /\ FallBack => p = "scan"
  BY <1>1
<1>3. /\ c.iface \in Names /\ c.mode \in {"monitor", "scan"}
      /\ c.mode = "monitor" =>
           c.iface \in MonNames
             \/ \E i \in UNION Listings : i.name = c.iface /\ i.type = "monitor"
      /\ p = "scan" =>
           c.mode = "scan" /\ (Scannables(listing) # {} =>
              \E i \in listing : i.name = c.iface /\ i.type = "managed")
  BY <1>2, PickFacts
<1>4. /\ UNCHANGED <<worker, stop, sweeper, hopper>>
      /\ \/ Start /\ phase = "pick" /\ refused' = refused
         \/ FallBack /\ phase = "monitor" /\ refused' = iface
  <2>1. CASE Start
    BY <2>1 DEF Start
  <2>2. CASE FallBack
    BY <2>2 DEF FallBack
  <2> QED
    BY <2>1, <2>2
<1>5. RadioTypes /\ Fresh /\ Turning /\ Rotation /\ Counted /\ RetryKeepsBand
      /\ TriedOnMonitor /\ FallBackCanScan
  BY DEF RadioInv
<1>6. RadioTypes'
  BY <1>2, <1>3, <1>4, <1>5 DEF RadioTypes, sweeper, hopper
<1>7. Fresh'
  BY <1>2, <1>3, <1>4, <1>5 DEF Fresh, sweeper, hopper
<1>8. worker' = "none" /\ answers' = answers /\ bandFail' = bandFail /\ watched' = watched
  BY <1>4, <1>5 DEF Fresh, sweeper
<1>9. Turning' /\ Rotation' /\ Counted' /\ RetryKeepsBand'
  BY <1>5, <1>8 DEF Turning, Rotation, Counted, RetryKeepsBand
<1>10. TriedOnMonitor'
  BY <1>2, <1>3 DEF TriedOnMonitor
<1>11. FallBackCanScan'
  <2>1. CASE Start /\ phase = "pick" /\ refused' = refused
    BY <1>5, <2>1 DEF Fresh, FallBackCanScan
  <2>2. CASE FallBack /\ phase = "monitor" /\ refused' = iface
    <3> SUFFICES ASSUME Scannables(listing) # {}
                 PROVE  /\ c.iface # iface
                        /\ \A i \in listing : i.name = c.iface => i.type = "managed"
      BY <1>2, <2>2 DEF FallBackCanScan, Scannables
    <3>1. PICK i \in listing : i.name = c.iface /\ i.type = "managed"
      BY <1>2, <1>3, <2>2
    <3>2. \A j \in listing : j \in UNION Listings
      OBVIOUS
    <3>3. \A j \in UNION Listings : j.name = c.iface => j.type = "managed"
      BY <3>1, <3>2, NamesTellTypes
    <3>4. c.iface # iface
      <4>1. c.iface \notin MonNames
        BY <3>1, <3>2, NamesTellTypes
      <4>2. ~\E j \in UNION Listings : j.name = c.iface /\ j.type = "monitor"
        BY <3>3
      <4> QED
        BY <1>5, <2>2, <4>1, <4>2 DEF TriedOnMonitor
    <3> QED
      BY <3>2, <3>3, <3>4
  <2> QED
    BY <1>4, <2>1, <2>2
<1> QED
  BY <1>6, <1>7, <1>9, <1>10, <1>11 DEF RadioInv

\* A thread starts.
LEMMA StartStep ==
  ASSUME RadioInv, StartMonitor \/ StartSweeps
  PROVE  RadioInv'
<1>1. RadioTypes /\ Fresh
  BY DEF RadioInv
<1>2. phase # "running" /\ phase' = "running" /\ listed' = {} /\ refused' = "-" /\ iface' = iface
  BY DEF StartMonitor, StartSweeps, Running
<1>3. /\ hopIdx = 0 /\ planIdx = 0 /\ retrying = NoBand /\ answers = <<>>
      /\ bandFail = [b \in Bands |-> 0]
  BY <1>1, <1>2 DEF Fresh
<1>4. Fresh' /\ TriedOnMonitor' /\ FallBackCanScan'
  BY <1>2 DEF Fresh, TriedOnMonitor, FallBackCanScan
<1>5. CASE StartMonitor
  <2>1. /\ UNCHANGED <<stop, sweeper, hopIdx, bad, rejected, freq>>
        /\ hopFreqs' \in Seq(Freqs)
        /\ worker' = IF hopFreqs' = <<>> THEN "none" ELSE "hop"
    <3>1. PICK hop \in BOOLEAN, supported \in SUBSET Freqs :
            /\ hopFreqs' = IF hop THEN HopPlan(supported) ELSE <<>>
            /\ worker' = IF hopFreqs' = <<>> THEN "none" ELSE "hop"
      BY <1>5 DEF StartMonitor
    <3>2. HopPlan(supported) \in Seq(Freqs)
      BY HopPlanCovers
    <3>3. UNCHANGED <<stop, sweeper, hopIdx, bad, rejected, freq>>
      BY <1>5 DEF StartMonitor
    <3>4. hopFreqs' \in Seq(Freqs)
      BY <3>1, <3>2
    <3> QED
      BY <3>1, <3>3, <3>4
  <2>2. RadioTypes'
    <3>1. hopIdx' \in 0..Len(hopFreqs')
      BY <1>3, <2>1
    <3> QED
      BY <1>1, <1>2, <2>1, <3>1 DEF RadioTypes, sweeper
  <2>3. Turning'
    <3>1. hopFreqs' # <<>> => Len(hopFreqs') > 0
      BY <2>1
    <3> QED
      BY <1>3, <2>1, <3>1 DEF Turning
  <2>4. Rotation' /\ RetryKeepsBand' /\ Counted'
    BY <2>1 DEF RadioInv, Rotation, RetryKeepsBand, Counted, sweeper
  <2> QED
    BY <1>4, <2>2, <2>3, <2>4 DEF RadioInv
<1>6. CASE StartSweeps
  <2>1. /\ worker' \in {"next", "none"} /\ plan' \in Plans /\ useFlush' \in BOOLEAN
        /\ usable' \subseteq Bands /\ watched' \in Range(plan')
        /\ UNCHANGED <<iface, stop, hopper, planIdx, band, bandFail, retrying, answers>>
    BY <1>6, RadioAssumption DEF StartSweeps, RadioAssumption
  <2>2. plan' \in Seq(Bands) /\ plan' # <<>> /\ Len(plan') \in Nat \ {0}
    BY <2>1, RadioAssumption DEF RadioAssumption
  <2>3. watched' \in Bands
    BY <2>1, <2>2 DEF Range
  <2>4. RadioTypes'
    <3>1. planIdx' \in 0..Len(plan')
      BY <1>3, <2>1, <2>2
    <3> QED
      BY <1>1, <1>2, <2>1, <2>3, <3>1 DEF RadioTypes, hopper
  <2>5. Turning'
    BY <1>3, <2>1, <2>2 DEF Turning
  <2>6. Rotation' /\ RetryKeepsBand'
    BY <1>3, <2>1 DEF Rotation, RetryKeepsBand
  <2>7. Counted'
    BY <1>3, <2>1, <2>3 DEF Counted
  <2> QED
    BY <1>4, <2>4, <2>5, <2>6, <2>7 DEF RadioInv
<1> QED
  BY <1>5, <1>6

\* The hop thread, its end, and the end of the session.
LEMMA HopStep ==
  ASSUME RadioInv, Hop \/ Stop \/ End
  PROVE  RadioInv'
<1>1. RadioTypes /\ Fresh /\ Turning /\ Rotation /\ Counted /\ RetryKeepsBand
      /\ TriedOnMonitor /\ FallBackCanScan
  BY DEF RadioInv
<1>2. UNCHANGED startup
  BY DEF Hop, HopSkip, HopTo, HopRejected, HopRaises, Hopping, Stop, End
<1>3. phase = "running"
  <2>1. CASE Hop \/ End
    BY <1>1, <2>1 DEF Hop, HopSkip, HopTo, HopRejected, HopRaises, Hopping, End, Fresh
  <2> QED
    BY <2>1 DEF Stop
<1>4. Fresh' /\ TriedOnMonitor' /\ FallBackCanScan'
  BY <1>1, <1>2, <1>3 DEF startup, Fresh, TriedOnMonitor, FallBackCanScan
<1>5. CASE Hop
  <2>1. /\ worker = "hop" /\ hopIdx' = (hopIdx + 1) % Len(hopFreqs)
        /\ UNCHANGED <<stop, sweeper, hopFreqs>>
    BY <1>5 DEF Hop, HopSkip, HopTo, HopRejected, HopRaises, Hopping
  <2>2. UNCHANGED sweeper
    BY <1>5 DEF Hop, HopSkip, HopTo, HopRejected, HopRaises, Hopping, sweeper
  <2>3. hopIdx \in 0..Len(hopFreqs) - 1 /\ Len(hopFreqs) \in Nat \ {0} /\ hopFreqs \in Seq(Freqs)
    BY <1>1, <2>1 DEF Turning, RadioTypes
  <2>4. hopIdx' \in 0..Len(hopFreqs) - 1
    BY <2>1, <2>3, ModFacts
  <2>5. HopFreq \in Freqs
    BY <2>3 DEF HopFreq
  <2>6. worker' \in {"hop", "ended"} /\ rejected' \subseteq bad' /\ bad' \subseteq Freqs
        /\ freq' \in Freqs \cup {NoFreq}
    BY <1>1, <1>5, <2>1, <2>5 DEF RadioTypes, Hop, HopSkip, HopTo, HopRejected, HopRaises
  <2>7. RadioTypes'
    BY <1>1, <1>2, <2>1, <2>2, <2>3, <2>4, <2>6 DEF RadioTypes, startup, sweeper
  <2>8. Turning' /\ Rotation' /\ RetryKeepsBand'
    BY <2>1, <2>3, <2>4, <2>6 DEF Turning, Rotation, RetryKeepsBand
  <2>9. Counted'
    BY <1>1, <2>2 DEF Counted, sweeper
  <2> QED
    BY <1>4, <2>7, <2>8, <2>9 DEF RadioInv
<1>6. CASE Stop \/ End
  <2>1. UNCHANGED <<sweeper, hopper>> /\ stop' \in BOOLEAN
        /\ (worker' = worker \/ worker' = "ended")
    BY <1>1, <1>6 DEF Stop, End, RadioTypes
  <2>2. RadioTypes'
    BY <1>1, <1>2, <2>1 DEF RadioTypes, startup, sweeper, hopper
  <2>3. Turning' /\ Counted' /\ RetryKeepsBand'
    BY <1>1, <2>1 DEF Turning, Counted, RetryKeepsBand, sweeper, hopper
  <2>4. Rotation'
    BY <1>1, <2>1 DEF Rotation, Live, NoneLive, Retired, sweeper
  <2> QED
    BY <1>4, <2>2, <2>3, <2>4 DEF RadioInv
<1> QED
  BY <1>5, <1>6

\* The next band is taken.
LEMMA NextBandStep ==
  ASSUME RadioInv, NextBand
  PROVE  RadioInv'
<1>1. RadioTypes /\ Fresh /\ Turning /\ Rotation /\ Counted /\ RetryKeepsBand
      /\ TriedOnMonitor /\ FallBackCanScan
  BY DEF RadioInv
<1>2. /\ worker = "next" /\ worker' = "sweep"
      /\ UNCHANGED <<startup, stop, hopper, plan, usable, useFlush, bandFail,
                     retrying, watched, answers>>
  BY DEF NextBand
<1>3. plan \in Plans /\ planIdx < Len(plan) /\ phase = "running"
  BY <1>1, <1>2 DEF Turning, Fresh
<1>4. Len(plan) \in Nat \ {0} /\ plan \in Seq(Bands) /\ planIdx \in 0..Len(plan) - 1
  BY <1>1, <1>3, RadioAssumption DEF RadioAssumption, RadioTypes
<1>5. NoneLive' = NoneLive /\ \A i \in 1..Len(plan) : Live(i)' = Live(i)
  BY <1>2 DEF NoneLive, Live, Retired
<1>6. /\ planIdx' \in 0..Len(plan) - 1 /\ band' \in Bands
      /\ \/ band' = "all" /\ NoneLive
         \/ LET before == ((planIdx' + Len(plan) - 1) % Len(plan)) + 1
            IN  before \in 1..Len(plan) /\ band' = plan[before] /\ Live(before)
      /\ retrying # NoBand => band' = retrying
  <2>1. CASE Ahead = {}
    <3>1. band' = "all" /\ planIdx' = planIdx /\ NoneLive
      BY <1>1, <1>3, <2>1, AheadFacts DEF NextBand
    <3>2. retrying # NoBand => retrying = "all"
      <4>1. planIdx + 1 \in 1..Len(plan)
        BY <1>4
      <4> QED
        BY <1>1, <1>2, <3>1, <4>1 DEF Rotation, NoneLive
    <3> QED
      BY <1>4, <3>1, <3>2, RadioAssumption DEF RadioAssumption
  <2>2. CASE Ahead # {}
    <3> DEFINE d == Min(Ahead)
               slot == planIdx + d
               at == slot % Len(plan)
    <3>1. d \in Ahead /\ d \in Nat /\ \A e \in Ahead : d <= e
      BY <1>1, <1>3, <2>2, AheadFacts, MinFacts
    <3>2. at \in 0..Len(plan) - 1 /\ Live(at + 1)
      BY <1>1, <1>3, <3>1, AheadFacts
    <3>3. band' = plan[at + 1] /\ planIdx' = (slot + 1) % Len(plan)
      BY <2>2 DEF NextBand
    <3>4. d \in 0..Len(plan) - 1
      BY <3>1 DEF Ahead
    <3> HIDE DEF d
    <3>5. slot \in Nat /\ slot < Len(plan) + Len(plan) - 1
      BY <1>4, <3>4
    <3>6. at = IF slot < Len(plan) THEN slot ELSE slot - Len(plan)
      <4> HIDE DEF slot
      <4>1. slot < Len(plan) + Len(plan)
        BY <1>4, <3>5
      <4> QED
        BY <1>4, <3>5, <4>1, ModFacts
    <3>7. planIdx' = IF at + 1 < Len(plan) THEN at + 1 ELSE 0
      <4> HIDE DEF slot
      <4>1. (slot + 1) % Len(plan)
              = IF slot + 1 < Len(plan) THEN slot + 1 ELSE slot + 1 - Len(plan)
        <5> DEFINE n == slot + 1
        <5>1. n \in Nat /\ n < Len(plan) + Len(plan)
          BY <1>4, <3>5
        <5> HIDE DEF n
        <5>2. n % Len(plan) = IF n < Len(plan) THEN n ELSE n - Len(plan)
          BY <1>4, <5>1, ModFacts
        <5> QED
          BY <1>4, <3>5, <5>2 DEF n
      <4> QED
        BY <1>4, <3>3, <3>5, <3>6, <4>1
    <3> HIDE DEF at, slot
    <3>8. (planIdx' + Len(plan) - 1) % Len(plan) = at
      <4> DEFINE n == planIdx' + Len(plan) - 1
      <4>1. n \in Nat /\ n < Len(plan) + Len(plan)
            /\ n = IF at + 1 < Len(plan) THEN at + Len(plan) ELSE at
        BY <1>4, <3>2, <3>7
      <4> HIDE DEF n
      <4>2. n % Len(plan) = IF n < Len(plan) THEN n ELSE n - Len(plan)
        BY <1>4, <4>1, ModFacts
      <4> DEFINE m == n % Len(plan)
      <4>3. m = IF n < Len(plan) THEN n ELSE n - Len(plan)
        BY <4>2
      <4> HIDE DEF m
      <4>4. m = at
        BY <1>4, <3>2, <4>1, <4>3
      <4> QED
        BY <4>4 DEF m, n
    <3>9. at + 1 \in 1..Len(plan) /\ plan[at + 1] \in Bands /\ planIdx' \in 0..Len(plan) - 1
      BY <1>4, <3>2, <3>7
    <3>10. retrying # NoBand => band' = retrying
      <4> SUFFICES ASSUME retrying # NoBand PROVE band' = retrying
        OBVIOUS
      <4>1. ~NoneLive
        BY <3>2, <3>9 DEF NoneLive
      <4>2. retrying = plan[planIdx + 1] /\ Live(planIdx + 1)
        BY <1>1, <1>2, <4>1 DEF Rotation
      <4>3. 0 \in Ahead
        BY <1>1, <1>3, <4>2, AheadFacts
      <4>4. d = 0
        BY <3>1, <4>3
      <4>5. slot = planIdx /\ at = planIdx
        BY <1>4, <3>6, <4>4 DEF slot
      <4> QED
        BY <3>3, <4>2, <4>5
    <3> QED
      BY <3>2, <3>3, <3>8, <3>9, <3>10
  <2> QED
    BY <2>1, <2>2
<1>7. RadioTypes'
  BY <1>1, <1>2, <1>4, <1>6 DEF RadioTypes, startup, hopper
<1>8. Fresh' /\ TriedOnMonitor' /\ FallBackCanScan'
  BY <1>1, <1>2, <1>3 DEF startup, Fresh, TriedOnMonitor, FallBackCanScan
<1>9. Turning'
  BY <1>2, <1>3, <1>4, <1>6 DEF Turning
<1>10. Rotation'
  <2>1. CASE band' = "all" /\ NoneLive
    BY <1>2, <1>5, <2>1 DEF Rotation
  <2>2. CASE ~(band' = "all" /\ NoneLive)
    <3>1. PICK i \in 1..Len(plan) : /\ i = ((planIdx' + Len(plan) - 1) % Len(plan)) + 1
                                    /\ band' = plan[i] /\ Live(i)
      BY <1>6, <2>2
    <3>2. plan' = plan /\ Live(i)'
      BY <1>2, <1>5, <3>1
    <3>3. i = (((planIdx + Len(plan) - 1) % Len(plan)) + 1)'
      BY <3>1, <3>2
    <3> QED
      BY <1>2, <3>1, <3>2, <3>3 DEF Rotation
  <2> QED
    BY <2>1, <2>2
<1>11. Counted' /\ RetryKeepsBand'
  BY <1>1, <1>2, <1>6 DEF Counted, RetryKeepsBand
<1> QED
  BY <1>7, <1>8, <1>9, <1>10, <1>11 DEF RadioInv

\* The answer to a sweep.
LEMMA SweptStep ==
  ASSUME RadioInv, SweepOk \/ FlushRefused \/ SweepFailed \/ SweepRaises
  PROVE  RadioInv'
<1>1. RadioTypes /\ Fresh /\ Turning /\ Rotation /\ Counted /\ RetryKeepsBand
      /\ TriedOnMonitor /\ FallBackCanScan
  BY DEF RadioInv
<1>2. /\ worker = "sweep" /\ worker' = "next"
      /\ UNCHANGED <<startup, stop, hopper, plan, usable, band, watched>>
  BY DEF SweepOk, FlushRefused, SweepFailed, SweepRaises, Swept
<1>3. plan \in Plans /\ planIdx < Len(plan) /\ phase = "running" /\ band \in Bands
  BY <1>1, <1>2 DEF Turning, Fresh
<1>4. Len(plan) \in Nat \ {0} /\ plan \in Seq(Bands) /\ planIdx \in 0..Len(plan) - 1
  BY <1>1, <1>3, RadioAssumption DEF RadioAssumption, RadioTypes
<1>5. answers \in Seq({"ok", "failed"}) /\ Len(answers) <= BandFailLimit
      /\ BandFailLimit \in Nat \ {0} /\ bandFail \in [Bands -> 0..BandFailLimit]
  BY <1>1, BoundedSeqFacts, RadioAssumption DEF RadioAssumption, RadioTypes
<1>6. Fresh' /\ TriedOnMonitor' /\ FallBackCanScan' /\ RetryKeepsBand'
  BY <1>1, <1>2, <1>3 DEF startup, Fresh, TriedOnMonitor, FallBackCanScan, RetryKeepsBand
<1>7. ASSUME answers' \in Seq({"ok", "failed"}), Len(answers') <= BandFailLimit,
             bandFail' \in [Bands -> 0..BandFailLimit], useFlush' \in BOOLEAN,
             planIdx' \in 0..Len(plan) - 1, retrying' \in Bands \cup {NoBand},
             Counted', Rotation'
      PROVE  RadioInv'
  <2>1. RadioTypes'
    <3>1. answers' \in BoundedSeq({"ok", "failed"}, BandFailLimit)
      BY <1>5, <1>7, BoundedSeqFacts
    <3>2. planIdx' \in 0..Len(plan')
      BY <1>2, <1>4, <1>7
    <3> QED
      BY <1>1, <1>2, <1>7, <3>1, <3>2 DEF RadioTypes, startup, hopper
  <2>2. Turning'
    BY <1>2, <1>3, <1>4, <1>7 DEF Turning
  <2> QED
    BY <1>6, <1>7, <2>1, <2>2 DEF RadioInv
<1>8. CASE SweepOk
  <2>1. /\ planIdx' = planIdx /\ retrying' = NoBand /\ useFlush' = useFlush
        /\ bandFail' = [bandFail EXCEPT ![band] = 0] /\ Note("ok")
    BY <1>8 DEF SweepOk
  <2>2. answers' \in Seq({"ok", "failed"}) /\ Len(answers') <= BandFailLimit
    <3>1. CASE band = watched /\ watched # NoBand
      BY <1>1, <1>2, <1>3, <2>1, <3>1, NoteFacts
    <3>2. CASE band = watched /\ watched = NoBand
      BY <1>5, <2>1, <3>2, AppendBounded DEF Note
    <3>3. CASE band # watched
      BY <1>5, <2>1, <3>3 DEF Note
    <3> QED
      BY <3>1, <3>2, <3>3
  <2>3. Counted'
    <3> SUFFICES ASSUME watched # NoBand PROVE Counted'
      BY <1>2 DEF Counted
    <3>1. CASE band = watched
      <4>1. bandFail'[watched] = 0 /\ Len(answers') \in Nat
        BY <1>3, <1>5, <2>1, <2>2, <3>1
      <4> QED
        BY <1>2, <4>1 DEF Counted
    <3>2. CASE band # watched
      <4>1. answers' = answers /\ bandFail'[watched] = bandFail[watched]
        BY <1>1, <1>5, <2>1, <3>2 DEF Note, RadioTypes
      <4> QED
        BY <1>1, <1>2, <4>1 DEF Counted
    <3> QED
      BY <3>1, <3>2
  <2>4. Rotation' /\ bandFail' \in [Bands -> 0..BandFailLimit]
    <3>1. Rotation'
      BY <1>2, <2>1 DEF Rotation
    <3>2. 0 \in 0..BandFailLimit
      BY <1>5
    <3> QED
      BY <1>5, <2>1, <3>1, <3>2
  <2> QED
    BY <1>1, <1>4, <1>7, <2>1, <2>2, <2>3, <2>4 DEF RadioTypes
<1>9. CASE SweepFailed
  <2>1. /\ planIdx' = planIdx /\ retrying' = NoBand /\ useFlush' = useFlush
        /\ bandFail' = [bandFail EXCEPT ![band] = Min({@ + 1, BandFailLimit})] /\ Note("failed")
    BY <1>9 DEF SweepFailed
  <2>2. answers' \in Seq({"ok", "failed"}) /\ Len(answers') <= BandFailLimit
    <3>1. CASE band = watched /\ watched # NoBand
      BY <1>1, <1>2, <1>3, <2>1, <3>1, NoteFacts
    <3>2. CASE band = watched /\ watched = NoBand
      BY <1>5, <2>1, <3>2, AppendBounded DEF Note
    <3>3. CASE band # watched
      BY <1>5, <2>1, <3>3 DEF Note
    <3> QED
      BY <3>1, <3>2, <3>3
  <2>3. Min({bandFail[band] + 1, BandFailLimit}) \in 0..BandFailLimit
    BY <1>3, <1>5, MinOfTwo
  <2>4. Counted'
    <3> SUFFICES ASSUME watched # NoBand PROVE Counted'
      BY <1>2 DEF Counted
    <3>1. CASE band = watched
      <4>1. bandFail'[watched] = Min({bandFail[watched] + 1, BandFailLimit})
        BY <1>3, <1>5, <2>1, <3>1
      <4> QED
        BY <1>1, <1>2, <1>3, <2>1, <3>1, <4>1, NoteFacts DEF Counted
    <3>2. CASE band # watched
      <4>1. answers' = answers /\ bandFail'[watched] = bandFail[watched]
        BY <1>1, <1>5, <2>1, <3>2 DEF Note, RadioTypes
      <4> QED
        BY <1>1, <1>2, <4>1 DEF Counted
    <3> QED
      BY <3>1, <3>2
  <2>5. Rotation' /\ bandFail' \in [Bands -> 0..BandFailLimit]
    BY <1>2, <1>5, <2>1, <2>3 DEF Rotation
  <2> QED
    BY <1>1, <1>4, <1>7, <2>1, <2>2, <2>4, <2>5 DEF RadioTypes
<1>10. CASE SweepRaises
  <2>1. /\ UNCHANGED <<useFlush, planIdx, bandFail, answers>> /\ retrying' = NoBand
    BY <1>10 DEF SweepRaises
  <2>2. Counted' /\ Rotation'
    BY <1>1, <1>2, <2>1 DEF Counted, Rotation
  <2> QED
    BY <1>1, <1>4, <1>5, <1>7, <2>1, <2>2 DEF RadioTypes
<1>11. CASE FlushRefused
  <2>1. /\ useFlush' = FALSE /\ planIdx' = (planIdx + Len(plan) - 1) % Len(plan)
        /\ retrying' = band /\ UNCHANGED <<bandFail, answers>>
    BY <1>11 DEF FlushRefused
  <2>2. planIdx' \in 0..Len(plan) - 1
    <3> DEFINE n == planIdx + Len(plan) - 1
    <3>1. n \in Nat /\ n < Len(plan) + Len(plan)
      BY <1>4
    <3> HIDE DEF n
    <3> DEFINE m == n % Len(plan)
    <3>2. m = IF n < Len(plan) THEN n ELSE n - Len(plan)
      BY <1>4, <3>1, ModFacts
    <3> HIDE DEF m
    <3>3. m \in 0..Len(plan) - 1
      BY <1>4, <3>1, <3>2
    <3> QED
      BY <2>1, <3>3 DEF m, n
  <2>3. /\ NoneLive' = NoneLive /\ plan' = plan
        /\ \A i \in 1..Len(plan) : Live(i)' = Live(i)
    BY <1>2, <2>1 DEF NoneLive, Live, Retired
  <2>4. Rotation'
    <3>1. CASE band = "all" /\ NoneLive
      BY <1>2, <2>1, <2>3, <3>1 DEF Rotation
    <3>2. CASE ~(band = "all" /\ NoneLive)
      <4>1. band = plan[planIdx' + 1] /\ Live(planIdx' + 1)
        <5> DEFINE before == ((planIdx + Len(plan) - 1) % Len(plan)) + 1
        <5>1. band = plan[before] /\ Live(before)
          BY <1>1, <1>2, <3>2 DEF Rotation
        <5>2. before = planIdx' + 1
          BY <2>1
        <5> QED
          BY <5>1, <5>2
      <4>2. PICK i \in 1..Len(plan) : i = planIdx' + 1
        <5> DEFINE n == planIdx'
        <5>1. n \in 0..Len(plan) - 1
          BY <2>2
        <5> HIDE DEF n
        <5>2. n + 1 \in 1..Len(plan)
          BY <1>4, <5>1
        <5> QED
          BY <5>2 DEF n
      <4>3. retrying' = plan'[i] /\ Live(i)'
        BY <2>1, <2>3, <4>1, <4>2
      <4> QED
        BY <1>2, <4>2, <4>3 DEF Rotation
    <3> QED
      BY <3>1, <3>2
  <2>5. Counted'
    BY <1>1, <1>2, <2>1 DEF Counted
  <2> QED
    BY <1>3, <1>5, <1>7, <2>1, <2>2, <2>4, <2>5
<1> QED
  BY <1>8, <1>9, <1>10, <1>11

LEMMA RadioInvAlways == RadioSpec => []RadioInv
<1>1. RadioInit => RadioInv
  <2> SUFFICES ASSUME RadioInit PROVE RadioInv
    OBVIOUS
  <2>1. <<>> \in BoundedSeq({"ok", "failed"}, BandFailLimit)
    <3>1. BandFailLimit \in Nat /\ <<>> \in Seq({"ok", "failed"}) /\ Len(<<>>) <= BandFailLimit
      BY RadioAssumption DEF RadioAssumption
    <3> QED
      BY <3>1, BoundedSeqFacts
  <2>2. [b \in Bands |-> 0] \in [Bands -> 0..BandFailLimit]
    BY RadioAssumption DEF RadioAssumption
  <2>3. RadioTypes
    <3>1. /\ planIdx \in 0..Len(plan) /\ hopIdx \in 0..Len(hopFreqs)
          /\ hopFreqs \in Seq(Freqs) /\ plan \in Plans \cup {<<>>}
      BY DEF RadioInit
    <3>2. /\ answers \in BoundedSeq({"ok", "failed"}, BandFailLimit)
          /\ bandFail \in [Bands -> 0..BandFailLimit]
      BY <2>1, <2>2 DEF RadioInit
    <3>3. /\ phase = "pick" /\ listed = {} /\ iface = "-" /\ refused = "-" /\ worker = "none"
          /\ stop = FALSE /\ usable = {} /\ useFlush = FALSE /\ band = NoBand
          /\ retrying = NoBand /\ watched = NoBand /\ bad = {} /\ rejected = {} /\ freq = NoFreq
      BY DEF RadioInit
    <3> QED
      BY ONLY <3>1, <3>2, <3>3 DEF RadioTypes
  <2>4. Fresh /\ Turning /\ Rotation /\ Counted /\ RetryKeepsBand
    BY DEF RadioInit, Fresh, Turning, Rotation, Counted, RetryKeepsBand
  <2>5. TriedOnMonitor /\ FallBackCanScan
    BY DEF RadioInit, TriedOnMonitor, FallBackCanScan
  <2> QED
    BY <2>3, <2>4, <2>5 DEF RadioInv
<1>2. RadioInv /\ [RadioNext]_radioVars => RadioInv'
  <2> SUFFICES ASSUME RadioInv, [RadioNext]_radioVars
               PROVE  RadioInv'
    OBVIOUS
  <2>1. CASE Start \/ FallBack
    BY <2>1, PickStep
  <2>2. CASE StartMonitor \/ StartSweeps
    BY <2>2, StartStep
  <2>3. CASE Hop \/ Stop \/ End
    BY <2>3, HopStep
  <2>4. CASE NextBand
    BY <2>4, NextBandStep
  <2>5. CASE SweepOk \/ FlushRefused \/ SweepFailed \/ SweepRaises
    BY <2>5, SweptStep
  <2>6. CASE UNCHANGED radioVars
    <3>1. UNCHANGED <<startup, worker, stop, sweeper, hopper>>
      BY <2>6 DEF radioVars
    <3>2. /\ RadioTypes' /\ Fresh' /\ Turning' /\ Counted' /\ RetryKeepsBand'
          /\ TriedOnMonitor' /\ FallBackCanScan'
      BY <3>1 DEF RadioInv, RadioTypes, Fresh, Turning, Counted, RetryKeepsBand,
                  TriedOnMonitor, FallBackCanScan, startup, sweeper, hopper
    <3>3. Rotation'
      BY <3>1 DEF RadioInv, Rotation, NoneLive, Live, Retired, sweeper
    <3> QED
      BY <3>2, <3>3 DEF RadioInv
  <2> QED
    BY <2>1, <2>2, <2>3, <2>4, <2>5, <2>6 DEF RadioNext, Sweep
<1> QED
  BY <1>1, <1>2, PTL DEF RadioSpec

\* The rotation of bands retries the band whose sweep was refused, whatever is
\* skipped to get to it, and retires one after as many failures in a row as the
\* limit has (WifiScanner._next_band, _run).
THEOREM RotationSoundAlways == RadioSpec => []RotationSound
<1>1. RadioInv => RotationSound
  <2> SUFFICES ASSUME RadioInv PROVE RotationSound
    OBVIOUS
  <2>1. RadioTypes /\ RetryKeepsBand /\ Counted
    BY DEF RadioInv
  <2>2. RetiredAfterFailures
    <3> SUFFICES ASSUME watched # NoBand, Retired(watched)
                 PROVE  /\ Len(answers) = BandFailLimit
                        /\ \A n \in DOMAIN answers : answers[n] = "failed"
      BY DEF RetiredAfterFailures
    <3>1. /\ answers \in Seq({"ok", "failed"}) /\ Len(answers) <= BandFailLimit
          /\ BandFailLimit \in Nat /\ bandFail[watched] \in 0..BandFailLimit
      BY <2>1, BoundedSeqFacts, RadioAssumption DEF RadioAssumption, RadioTypes
    <3>2. bandFail[watched] = BandFailLimit
      BY <3>1 DEF Retired
    <3> QED
      BY <2>1, <3>1, <3>2 DEF Counted
  <2> QED
    BY <2>1, <2>2 DEF RotationSound
<1> QED
  BY <1>1, RadioInvAlways, PTL

\* When monitor capture cannot start, what is swept on instead is a managed
\* interface, if one is listed, and never the one just refused
\* (App._start_wifi, pick_wifi_source).
THEOREM FallBackCanScanAlways == RadioSpec => []FallBackCanScan
<1>1. RadioInv => FallBackCanScan
  BY DEF RadioInv
<1> QED
  BY <1>1, RadioInvAlways, PTL

===============================================================================
