--------------------------- MODULE DsiClient_proofs ---------------------------
(***************************************************************************)
(* For any networks, settings and screen: one press answers one screen, a    *)
(* key is offered only where it belongs, what is saved has been let in, and  *)
(* the selected result is shown.                                            *)
(***************************************************************************)
EXTENDS DsiClient, TLAPS

\* No network is tried a third time.
TriesInv == at \in {"saved", "savedRescue", "savedSettle", "join"} => join.try \in {0, 1}

\* The menu, which takes an A that repeats, is never shown while one is spent.
PressInv == ~twice /\ (at \in {"off", "menu"} => button # "spent")

Belongs(c) == c.key.of \in {"", c.ssid}

\* Only in the list, once the name is wiped out, is there a key of another network.
KeyInv ==
    /\ (at = "list" /\ config.ssid = "") \/ Belongs(config)
    /\ ini # Absent => Belongs(ini)

\* The stages on the way onto a network, and those at which the login may be new.
Setup == {"list", "key", "join", "settle", "rescue", "noAddress"}
Connecting == {"off", "wifi", "saved", "savedRescue", "savedSettle", "auto"} \cup Setup

Known == {atBoot, NoLogin}
Proven == config.backend = "number" \/ Login(config) \in Known \cup {accepted}

\* Until the first run the card has nothing new; after it what the program holds is
\* proven, and nothing is tried any more.
LoginInv ==
    /\ at \in Connecting => then = "wifi"
    /\ at = "summary" => then = "run"
    /\ at = "off" => atBoot = Login(Load(ini))
    /\ then = "wifi" => ini = Absent \/ Login(ini) \in Known
    /\ then = "wifi" /\ at \notin Setup \cup {"run"} => Login(config) \in Known
    /\ then = "run" \/ at = "run" => Proven
    /\ at \in {"rescue", "savedRescue"} => radio = "" \/ accepted = Login(config)
    /\ SavedIsProven

IInv == TypeOK /\ TriesInv /\ PressInv /\ KeyInv /\ LoginInv /\ SelectedIsShown

-----------------------------------------------------------------------------
(* The menu.                                                                *)

\* Among seven tries, if one succeeds there is a first that does.
LEMMA FirstOfSeven ==
  ASSUME NEW S \in SUBSET (1 .. 7), S # {}
  PROVE  \E n \in 1 .. 7 : n \in S /\ \A m \in 1 .. n - 1 : m \notin S
<1>1. CASE 1 \in S
  BY <1>1
<1>2. CASE 1 \notin S /\ 2 \in S
  BY <1>2
<1>3. CASE 1 \notin S /\ 2 \notin S /\ 3 \in S
  BY <1>3
<1>4. CASE 1 \notin S /\ 2 \notin S /\ 3 \notin S /\ 4 \in S
  BY <1>4
<1>5. CASE 1 \notin S /\ 2 \notin S /\ 3 \notin S /\ 4 \notin S
  <2>1. CASE 5 \in S
    BY <1>5, <2>1
  <2>2. CASE 5 \notin S /\ 6 \in S
    BY <1>5, <2>2
  <2>3. CASE 5 \notin S /\ 6 \notin S
    <3>1. PICK k \in 1 .. 7 : k \in S
      OBVIOUS
    <3>2. k = 7
      BY <1>5, <2>3, <3>1
    <3> QED
      BY <1>5, <2>3, <3>1, <3>2
  <2> QED
    BY <2>1, <2>2, <2>3
<1> QED
  BY <1>1, <1>2, <1>3, <1>4, <1>5

\* The cursor stays on a row of the menu.
LEMMA MovedType ==
  ASSUME row \in 0 .. 6, NEW step \in {1, 6}
  PROVE  Moved(step) \in 0 .. 6
<1> DEFINE After(n) == (row + n * step) % 7
           S == {n \in 1 .. 7 : Enabled(After(n))}
           First(n) == Enabled(After(n)) /\ \A m \in 1 .. n - 1 : ~Enabled(After(m))
<1>1. Enabled(0)
  BY DEF Enabled
<1>2. \E n \in 1 .. 7 : After(n) = 0
  <2>1. CASE step = 1
    <3>1. 7 - row \in 1 .. 7 /\ row + (7 - row) * step = 7
      BY <2>1
    <3> QED
      BY <3>1
  <2>2. CASE step = 6 /\ row = 0
    <3>1. 7 \in 1 .. 7 /\ row + 7 * step = 42
      BY <2>2
    <3> QED
      BY <3>1
  <2>3. CASE step = 6 /\ row # 0
    <3>1. row \in 1 .. 7 /\ row + row * step = 7 * row
      BY <2>3
    <3> QED
      BY <3>1
  <2> QED
    BY <2>1, <2>2, <2>3
<1>3. S # {}
  BY <1>1, <1>2
<1>4. \E n \in 1 .. 7 : First(n)
  <2>1. PICK n \in 1 .. 7 : n \in S /\ \A m \in 1 .. n - 1 : m \notin S
    BY <1>3, FirstOfSeven
  <2>2. \A m \in 1 .. n - 1 : m \in 1 .. 7
    OBVIOUS
  <2> QED
    BY <2>1, <2>2
<1>5. PICK n \in 1 .. 7 : Moved(step) = After(n)
  <2> DEFINE n == CHOOSE n \in 1 .. 7 : First(n)
  <2>1. n \in 1 .. 7
    BY <1>4
  <2>2. Moved(step) = After(n)
    BY DEF Moved
  <2> QED
    BY <2>1, <2>2
<1>6. row + n * step \in Nat
  BY SMT
<1> HIDE DEF First, S
<1> QED
  BY <1>5, <1>6

\* Left and right turn a choice round its range.
LEMMA Turned ==
  ASSUME NEW size \in Nat \ {0}, NEW x \in 0 .. size - 1, NEW step \in {1, -1}
  PROVE  (x + step + size) % size \in 0 .. size - 1
<1> DEFINE y == x + step + size
<1>1. y \in Nat
  OBVIOUS
<1> HIDE DEF y
<1>2. y % size \in 0 .. size - 1
  BY <1>1
<1> QED
  BY <1>2 DEF y
-----------------------------------------------------------------------------
(* Types.                                                                   *)

\* Two parts of TypeOK: the button's, which is about truth values, and the rest.
ButtonOK == button \in {"up", "fresh", "seen", "spent"} /\ twice \in BOOLEAN
RestOK ==
    /\ config \in Config /\ ini \in Config \cup {Absent}
    /\ at \in Stages /\ then \in {"wifi", "run"} /\ row \in 0 .. 6 /\ endpoint \in Backend
    /\ radio \in Network \cup {""} /\ status \in {"other", "dhcp", "associated"}
    /\ join \in [try : 0 .. 2, needsKey : BOOLEAN]
    /\ list \in [count : 0 .. MaxShown, selected : 0 .. MaxShown, first : 0 .. MaxShown]

\* Together they are TypeOK.
LEMMA TypeParts == (TypeOK <=> ButtonOK /\ RestOK) /\ (TypeOK' <=> ButtonOK' /\ RestOK')
BY Zenon DEF TypeOK, ButtonOK, RestOK

\* The constants are sound.
LEMMA Sizes == Borders \in Nat \ {0} /\ Visible \in Nat \ {0} /\ MaxShown \in Nat /\ Detected \in 0 .. 2
BY Zenon, ClientAssumption DEF ClientAssumption

Lists == [count : 0 .. MaxShown, selected : 0 .. MaxShown, first : 0 .. MaxShown]
Shown(l) ==
    /\ l \in Lists
    /\ l.first <= l.selected /\ l.selected < l.first + Visible
    /\ l.count > 0 => l.selected < l.count

\* No list, and the list a run leaves, which ends with the last line.
LEMMA ListBegins ==
  /\ Shown(NoList)
  /\ \A count \in 0 .. MaxShown :
        Shown([count |-> count, selected |-> IF count > 0 THEN count - 1 ELSE 0,
               first |-> IF count > Visible THEN count - Visible ELSE 0])
<1>1. Shown(NoList)
  BY Sizes DEF Shown, Lists, NoList
<1>2. ASSUME NEW count \in 0 .. MaxShown
      PROVE  Shown([count |-> count, selected |-> IF count > 0 THEN count - 1 ELSE 0,
                    first |-> IF count > Visible THEN count - Visible ELSE 0])
  BY Sizes, <1>2 DEF Shown, Lists
<1> QED
  BY <1>1, <1>2

With(l, s, f) == [l EXCEPT !.selected = s, !.first = f]

\* A selected line and a first one put into a list.
LEMMA ListWith ==
  ASSUME NEW l \in Lists, NEW s \in 0 .. MaxShown, NEW f \in 0 .. MaxShown
  PROVE  /\ With(l, s, f) \in Lists /\ With(l, s, f).count = l.count
         /\ With(l, s, f).selected = s /\ With(l, s, f).first = f
BY DEF Lists, With

\* Each key keeps a list's selected line on the screen.
LEMMA KeysShow ==
  ASSUME NEW l, Shown(l), l.count > 0
  PROVE  /\ Shown(LineUp(l)) /\ LineUp(l).count = l.count
         /\ Shown(LineDown(l)) /\ LineDown(l).count = l.count
         /\ Shown(PageUp(l)) /\ PageUp(l).count = l.count
         /\ Shown(PageDown(l)) /\ PageDown(l).count = l.count
<1>0. Visible \in Nat \ {0} /\ MaxShown \in Nat
  BY Sizes
<1>a. l \in Lists /\ l.count \in 0 .. MaxShown /\ l.selected \in 0 .. MaxShown /\ l.first \in 0 .. MaxShown
  BY DEF Shown, Lists
<1>b. ASSUME NEW s \in 0 .. MaxShown, NEW f \in 0 .. MaxShown, f <= s, s < f + Visible, s < l.count
      PROVE  Shown(With(l, s, f)) /\ With(l, s, f).count = l.count
  <2>1. /\ With(l, s, f) \in Lists /\ With(l, s, f).count = l.count
        /\ With(l, s, f).selected = s /\ With(l, s, f).first = f
    BY <1>a, ListWith
  <2> QED
    BY <1>b, <2>1 DEF Shown
<1>1. Shown(LineUp(l)) /\ LineUp(l).count = l.count
  <2> DEFINE s == l.selected - 1
             f == IF s < l.first THEN s ELSE l.first
  <2>1. CASE l.selected = 0
    BY <2>1 DEF LineUp
  <2>2. CASE l.selected # 0
    <3>1. s \in 0 .. MaxShown /\ f \in 0 .. MaxShown /\ f <= s /\ s < f + Visible /\ s < l.count
      BY <1>0, <1>a, <2>2 DEF Shown
    <3>2. LineUp(l) = With(l, s, f)
      BY <1>a, <2>2 DEF LineUp, Lists, With
    <3> HIDE DEF s, f
    <3> QED
      BY <1>b, <3>1, <3>2
  <2> QED
    BY <2>1, <2>2
<1>2. Shown(LineDown(l)) /\ LineDown(l).count = l.count
  <2> DEFINE s == l.selected + 1
             f == IF s >= l.first + Visible THEN l.selected + 2 - Visible ELSE l.first
  <2>1. CASE s = l.count
    BY <2>1 DEF LineDown
  <2>2. CASE s # l.count
    <3>1. s \in 0 .. MaxShown /\ f \in 0 .. MaxShown /\ f <= s /\ s < f + Visible /\ s < l.count
      BY <1>0, <1>a, <2>2 DEF Shown
    <3>2. LineDown(l) = With(l, s, f)
      BY <1>a, <2>2 DEF LineDown, Lists, With
    <3> HIDE DEF s, f
    <3> QED
      BY <1>b, <3>1, <3>2
  <2> QED
    BY <2>1, <2>2
<1>3. ASSUME NEW s \in 0 .. l.count - 1
      PROVE  Shown(Jump(l, s)) /\ Jump(l, s).count = l.count
  <2> DEFINE f == IF s < Visible THEN 0 ELSE s - Visible + 1
  <2>1. s \in 0 .. MaxShown /\ f \in 0 .. MaxShown /\ f <= s /\ s < f + Visible /\ s < l.count
    BY <1>0, <1>a
  <2>2. Jump(l, s) = With(l, s, f)
    BY DEF Jump, With
  <2> HIDE DEF f
  <2> QED
    BY <1>b, <2>1, <2>2
<1>4. Shown(PageUp(l)) /\ PageUp(l).count = l.count
  <2>1. l.selected - Least(l.selected, Visible) \in 0 .. l.count - 1
    BY <1>0 DEF Shown, Lists, Least
  <2> QED
    BY <2>1, <1>3 DEF PageUp
<1>5. Shown(PageDown(l)) /\ PageDown(l).count = l.count
  <2>1. l.selected + Least(l.count - l.selected - 1, Visible) \in 0 .. l.count - 1
    BY <1>0 DEF Shown, Lists, Least
  <2> QED
    BY <2>1, <1>3 DEF PageDown
<1> QED
  BY <1>1, <1>2, <1>4, <1>5

\* What the card may come with is typed, and so are the defaults.
LEMMA SettingsTyped ==
  /\ Default \in Config /\ NoKey \in Key /\ NoJoin \in [try : 0 .. 2, needsKey : BOOLEAN]
  /\ \A file \in Config \cup {Absent} : Load(file) \in Config
  /\ Files \subseteq Config \cup {Absent}
<1>1. 0 \in 0 .. Borders - 1 /\ Detected \in 0 .. 2
  BY Sizes
<1>2. NoKey \in Key
  BY DEF Key
<1>3. Default \in Config
  BY <1>1, <1>2 DEF Default, Config, Backend
<1>4. NoJoin \in [try : 0 .. 2, needsKey : BOOLEAN]
  BY DEF NoJoin
<1>5. \A file \in Config \cup {Absent} : Load(file) \in Config
  BY <1>3 DEF Load
<1>6. Files \subseteq Config \cup {Absent}
  BY ClientAssumption
<1> QED
  BY <1>2, <1>3, <1>4, <1>5, <1>6

\* A name and a key of their sets may take the place of those of the settings.
LEMMA LoginTyped ==
  ASSUME NEW c \in Config, NEW ssid \in Network \cup {""}, NEW key \in Key
  PROVE  /\ [c EXCEPT !.ssid = ssid] \in Config /\ [c EXCEPT !.key = key] \in Config
         /\ [c EXCEPT !.ssid = ssid, !.key = key] \in Config
BY DEF Config

\* A launcher and a border, too.
LEMMA Choices ==
  ASSUME NEW c \in Config, NEW launcher \in 0 .. 2, NEW border \in 0 .. Borders - 1
  PROVE  [c EXCEPT !.launcher = launcher, !.border = border] \in Config
BY DEF Config

\* The key that goes with a name is one.
LEMMA KeyForTyped ==
  ASSUME config \in Config, NEW ssid
  PROVE  KeyFor(ssid) \in Key
BY SettingsTyped DEF KeyFor, Config

\* One try more.
LEMMA TryAgain ==
  ASSUME NEW j \in [try : 0 .. 2, needsKey : BOOLEAN], j.try \in {0, 1}
  PROVE  LET k == [j EXCEPT !.try = @ + 1]
         IN  k \in [try : 0 .. 2, needsKey : BOOLEAN] /\ (j.try = 0 => k.try = 1)
OBVIOUS

\* So may no name at all.
LEMMA NameWiped ==
  ASSUME NEW c \in Config
  PROVE  [c EXCEPT !.ssid = ""] \in Config
BY DEF Config

\* The menu's first row is one.
LEMMA FirstRow == 0 \in 0 .. 6
OBVIOUS

\* There are three launchers.
LEMMA LauncherTurned ==
  ASSUME NEW x \in 0 .. 2, NEW step \in {1, -1}
  PROVE  (x + step + 3) % 3 \in 0 .. 2
OBVIOUS

\* None yet.
LEMMA NoTries ==
  ASSUME NEW j \in [try : 0 .. 2, needsKey : BOOLEAN]
  PROVE  [j EXCEPT !.try = 0] \in [try : 0 .. 2, needsKey : BOOLEAN] /\ [j EXCEPT !.try = 0].try = 0
OBVIOUS

\* A network picked anew has had no try.
LEMMA Asks ==
  ASSUME NEW b \in BOOLEAN
  PROVE  LET k == [try |-> 0, needsKey |-> b]
         IN  k \in [try : 0 .. 2, needsKey : BOOLEAN] /\ k.try = 0
<1>1. 0 \in 0 .. 2
  OBVIOUS
<1> QED
  BY <1>1, Zenon

\* The keys of one frame, one after the other.
LEMMA BrowseShown ==
  ASSUME Browse, Shown(list)
  PROVE  Shown(list')
<1>1. PICK keys \in SUBSET {"up", "down", "left", "right"} :
        LET l1 == IF "up" \in keys THEN LineUp(list) ELSE list
            l2 == IF "down" \in keys THEN LineDown(l1) ELSE l1
            l3 == IF "left" \in keys THEN PageUp(l2) ELSE l2
        IN  list' = IF "right" \in keys THEN PageDown(l3) ELSE l3
  BY Zenon DEF Browse
<1> DEFINE l1 == IF "up" \in keys THEN LineUp(list) ELSE list
           l2 == IF "down" \in keys THEN LineDown(l1) ELSE l1
           l3 == IF "left" \in keys THEN PageUp(l2) ELSE l2
<1>0. list.count > 0
  BY DEF Browse
<1>2. Shown(l1) /\ l1.count > 0
  BY <1>0, KeysShow
<1> HIDE DEF l1
<1>3. Shown(l2) /\ l2.count > 0
  BY <1>2, KeysShow
<1> HIDE DEF l2
<1>4. Shown(l3) /\ l3.count > 0
  BY <1>3, KeysShow
<1> HIDE DEF l3
<1>5. list' = IF "right" \in keys THEN PageDown(l3) ELSE l3
  BY <1>1 DEF l1, l2, l3
<1> QED
  BY <1>4, <1>5, KeysShow

\* The button's states, whatever a screen does with it.
LEMMA ButtonStep ==
  ASSUME ButtonOK, [Next]_vars
  PROVE  ButtonOK'
<1>1. Answer => ButtonOK'
  BY DEF Answer, ButtonOK
<1>2. Polled => ButtonOK'
  BY Zenon DEF Polled, ButtonOK
<1>3. UNCHANGED screens => ButtonOK'
  BY Zenon DEF screens, ButtonOK
<1>4. Press \/ Release \/ Off => ButtonOK'
  BY Zenon DEF Press, Release, Off, ButtonOK
<1>5. CASE MenuMove \/ MenuChange \/ MenuReset \/ ConfirmKeep \/ TypeName \/ TypeKey \/ KeyCancelled \/ Run \/ Browse
  BY Zenon, <1>2, <1>5 DEF MenuMove, MenuChange, MenuReset, ConfirmKeep, TypeName, TypeKey, KeyCancelled, Run, Browse
<1>6. CASE MenuStart \/ ConfirmReset \/ PickNetwork \/ BackToList \/ Again
  BY Zenon, <1>1, <1>6 DEF MenuStart, ConfirmReset, PickNetwork, BackToList, Again
<1>7. CASE \/ Boot \/ SaveOpens \/ SaveWrites \/ Released \/ WifiStart \/ SavedOn \/ SavedFails \/ SavedSettle
           \/ SavedRescue \/ AutoConnect \/ Joined \/ NotJoined \/ SettleAgain \/ Rescue \/ UNCHANGED vars
  BY Zenon, <1>3, <1>7
  DEF Boot, SaveOpens, SaveWrites, Released, WifiStart, SavedOn, SavedFails, SavedSettle, SavedRescue,
      AutoConnect, Joined, NotJoined, SettleAgain, Rescue, vars, screens
<1> QED
  BY Zenon, <1>4, <1>5, <1>6, <1>7 DEF Next

\* The rest of the types, and the number of tries.
LEMMA RestStep ==
  ASSUME RestOK, TriesInv, SelectedIsShown, [Next]_vars
  PROVE  RestOK' /\ TriesInv'
<1> USE DEF TriesInv, RestOK, Go, screens, net
<1>0. 0 \in 0 .. 6 /\ Load(Absent) \in Config
  <2>1. Absent \in Config \cup {Absent}
    OBVIOUS
  <2>2. Load(Absent) \in Config
    BY <2>1, SettingsTyped
  <2> QED
    BY <2>2, FirstRow
<1>1. CASE Press
  BY <1>1, ZenonT(40) DEF Press, Stages
<1>2. CASE Release
  BY <1>2, ZenonT(40) DEF Release, Stages
<1>3. CASE Boot
  BY <1>3, SettingsTyped DEF Boot, Stages, Config
<1>4. CASE Off
  BY <1>0, <1>4, SettingsTyped, ListBegins DEF Off, Stages, Backend, Shown, Lists, Save
<1>5. CASE SaveOpens
  BY <1>5 DEF SaveOpens, Stages
<1>6. CASE SaveWrites
  BY <1>6 DEF SaveWrites, Stages
<1>7. CASE MenuMove
  BY <1>7, MovedType DEF MenuMove, InMenu, Stages
<1>8. CASE MenuChange
  <2>1. config' \in Config
    <3>1. PICK step \in {1, -1} :
            config' = [config EXCEPT
                !.launcher = IF row = 0 THEN (@ + step + 3) % 3 ELSE @,
                !.border = IF row = 3 THEN (@ + step + Borders) % Borders ELSE @]
      BY <1>8 DEF MenuChange
    <3>2. config.launcher \in 0 .. 2 /\ config.border \in 0 .. Borders - 1
      BY DEF Config
    <3>3. (config.launcher + step + 3) % 3 \in 0 .. 2
      BY <3>2, LauncherTurned
    <3>4. (config.border + step + Borders) % Borders \in 0 .. Borders - 1
      BY <3>2, Turned, Sizes
    <3> QED
      BY <3>1, <3>2, <3>3, <3>4, Choices
  <2> QED
    BY <1>8, <2>1 DEF MenuChange, InMenu
<1>9. CASE MenuStart
  BY <1>0, <1>9 DEF MenuStart, InMenu, Save, Stages
<1>10. CASE MenuReset
  BY <1>10 DEF MenuReset, InMenu, Stages
<1>11. CASE ConfirmReset
  BY <1>0, <1>11 DEF ConfirmReset, Stages
<1>12. CASE ConfirmKeep
  BY <1>12 DEF ConfirmKeep, Stages
<1>13. CASE Released
  BY <1>13 DEF Released, Stages
<1>14. CASE WifiStart
  BY <1>14, SettingsTyped DEF WifiStart, NoJoin, Stages
<1>15. CASE SavedOn
  BY <1>15, SettingsTyped DEF SavedOn, JoinWorks, LetsIn, NoJoin, Stages
<1>16. CASE SavedFails
  BY <1>16 DEF SavedFails, JoinFails, Refused, TurnedAway, NoAddress, LetsIn, Stages
<1>17. CASE SavedSettle
  <2>1. join.try \in {0, 1}
    BY <1>17 DEF SavedSettle
  <2>2. join' \in [try : 0 .. 2, needsKey : BOOLEAN] /\ (join.try = 0 => join'.try = 1)
    BY <1>17, <2>1, TryAgain DEF SavedSettle
  <2> QED
    <3>1. radio' \in Network \cup {""} /\ UNCHANGED then
      BY <1>17 DEF SavedSettle, Settle
    <3>2. (join.try = 0 /\ at' = "saved") \/ at' = "auto"
      BY <1>17 DEF SavedSettle, SavedNext
    <3>3. join'.try = 1 \/ at' = "auto"
      BY <2>2, <3>2
    <3>4. UNCHANGED <<config, ini, row, endpoint, status, list>>
      BY <1>17 DEF SavedSettle
    <3> QED
      BY <2>2, <3>1, <3>2, <3>3, <3>4 DEF Stages
<1>18. CASE SavedRescue
  BY <1>18 DEF SavedRescue, Stages
<1>19. CASE AutoConnect
  BY <1>19, SettingsTyped DEF AutoConnect, NoJoin, Stages
<1>20. CASE PickNetwork
  <2>1. PICK ssid \in Network :
          /\ config' = [config EXCEPT !.ssid = ssid, !.key = IF ssid \in Open THEN NoKey ELSE KeyFor(ssid)]
          /\ join' = [try |-> 0, needsKey |-> ssid \notin Open]
          /\ Go(IF ssid \in Open THEN "join" ELSE "key")
    BY <1>20 DEF PickNetwork
  <2>2. config' \in Config
    BY <2>1, KeyForTyped, SettingsTyped, LoginTyped
  <2>3. join' \in [try : 0 .. 2, needsKey : BOOLEAN] /\ join'.try = 0
    BY <2>1, Asks
  <2> QED
    BY <1>20, <2>1, <2>2, <2>3 DEF PickNetwork, Stages
<1>21. CASE TypeName
  <2>1. CASE UNCHANGED <<config, join, at, then>>
    BY <1>21, <2>1 DEF TypeName
  <2>2. CASE config' = [config EXCEPT !.ssid = ""] /\ UNCHANGED <<join, at, then>>
    <3>1. config' \in Config
      BY <2>2, NameWiped
    <3> QED
      BY <1>21, <2>2, <3>1 DEF TypeName
  <2>3. ASSUME NEW ssid \in Network,
               config' = [config EXCEPT !.ssid = ssid, !.key = KeyFor(ssid)],
               join' = [try |-> 0, needsKey |-> TRUE], Go("key")
        PROVE  RestOK' /\ TriesInv'
    <3>1. config' \in Config
      BY <2>3, KeyForTyped, LoginTyped
    <3> QED
      <4>1. join' \in [try : 0 .. 2, needsKey : BOOLEAN]
        BY <2>3, Asks
      <4>2. at' = "key" /\ then' = then
        BY <2>3
      <4> HIDE DEF Go
      <4> QED
        BY <1>21, <3>1, <4>1, <4>2 DEF TypeName, Stages
  <2> QED
    BY <1>21, <2>1, <2>2, <2>3 DEF TypeName
<1>22. CASE TypeKey
  <2>1. config.key \in Key
    BY DEF Config
  <2>2. config' \in Config
    <3>1. PICK key \in {config.key, NoKey} \cup {k \in Key : k.of = config.ssid} :
            config' = [config EXCEPT !.key = key]
      BY <1>22 DEF TypeKey
    <3>2. key \in Key
      BY <2>1, SettingsTyped
    <3> QED
      BY <3>1, <3>2, LoginTyped
  <2>3. join' \in [try : 0 .. 2, needsKey : BOOLEAN] /\ join'.try = 0
    BY <1>22, NoTries DEF TypeKey
  <2> QED
    BY <1>22, <2>2, <2>3 DEF TypeKey, Stages
<1>23. CASE KeyCancelled
  BY <1>23 DEF KeyCancelled, Stages
<1>24. CASE Joined
  BY <1>24, SettingsTyped DEF Joined, JoinWorks, LetsIn, Save, NoJoin, Stages
<1>25. CASE NotJoined
  <2>1. join.try \in {0, 1}
    BY <1>25 DEF NotJoined
  <2>2. join' \in [try : 0 .. 2, needsKey : BOOLEAN]
    BY <1>25, <2>1, TryAgain DEF NotJoined
  <2>3. at' \in {"settle", "rescue"} /\ UNCHANGED then
    BY <1>25 DEF NotJoined
  <2> QED
    BY <1>25, <2>2, <2>3 DEF NotJoined, JoinFails, Refused, TurnedAway, NoAddress, LetsIn, Stages
<1>26. CASE SettleAgain
  BY <1>26 DEF SettleAgain, Settle, Stages
<1>27. CASE Rescue
  BY <1>27, SettingsTyped DEF Rescue, Settle, Save, NoJoin, Stages
<1>28. CASE BackToList
  BY <1>28 DEF BackToList, Stages
<1>29. CASE Run
  BY <1>29, ListBegins DEF Run, Stages, Shown, Lists
<1>30. CASE Again
  BY <1>30, ListBegins DEF Again, Stages, Shown, Lists
<1>31. CASE Browse
  BY <1>31, BrowseShown DEF Browse, Shown, Lists, SelectedIsShown
<1>32. CASE UNCHANGED vars
  BY <1>32, ZenonT(40) DEF vars, Stages
<1> QED
  BY <1>1, <1>2, <1>3, <1>4, <1>5, <1>6, <1>7, <1>8, <1>9, <1>10, <1>11, <1>12, <1>13, <1>14, <1>15, <1>16,
     <1>17, <1>18, <1>19, <1>20, <1>21, <1>22, <1>23, <1>24, <1>25, <1>26, <1>27, <1>28, <1>29, <1>30, <1>31,
     <1>32 DEF Next
\* So is every state: TypeOK and the number of tries keep each other.
LEMMA TypeStep ==
  ASSUME TypeOK, TriesInv, SelectedIsShown, [Next]_vars
  PROVE  TypeOK' /\ TriesInv'
BY TypeParts, ButtonStep, RestStep

-----------------------------------------------------------------------------
(* The button, the keys, the login, the list.                               *)

\* Each screen that takes an A finds one that no screen has had.
LEMMA PressStep ==
  ASSUME TypeOK, PressInv, [Next]_vars
  PROVE  PressInv'
<1> DEFINE Free == at' \notin {"off", "menu"}
<1>1. ASSUME Answer, button # "spent", Free  PROVE PressInv'
  BY <1>1, Zenon DEF Answer, PressInv
<1>2. ASSUME Polled, Free \/ at = "menu"  PROVE PressInv'
  <2>1. UNCHANGED twice /\ (button # "spent" => button' # "spent")
    BY <1>2 DEF Polled
  <2> QED
    BY <1>2, <2>1, Zenon DEF PressInv
<1>3. ASSUME UNCHANGED screens, Free \/ UNCHANGED at  PROVE PressInv'
  BY <1>3, Zenon DEF screens, PressInv
<1>4. CASE Press \/ Release
  <2>1. button' # "spent" /\ UNCHANGED twice
    BY <1>4 DEF Press, Release
  <2> QED
    BY <2>1, Zenon DEF PressInv
<1>5. CASE Boot \/ Off \/ Released
  <2>1. CASE Boot
    BY <2>1, Zenon DEF Boot, PressInv, screens
  <2>2. CASE Off
    <3>1. button' # "spent" /\ twice' = FALSE
      BY <2>2 DEF Off
    <3> QED
      BY <3>1, Zenon DEF PressInv
  <2>3. CASE Released
    <3>1. button # "spent"
      BY <2>3 DEF Released, LetGoOfA
    <3> QED
      BY <2>3, <3>1, Zenon DEF Released, PressInv, screens
  <2> QED
    BY <1>5, <2>1, <2>2, <2>3
<1>6. CASE MenuStart \/ ConfirmReset \/ PickNetwork \/ BackToList \/ Again
  <2>1. button # "spent"
    BY <1>6 DEF MenuStart, ConfirmReset, PickNetwork, BackToList, Again, InMenu, Edge, PressedAgain, PressInv
  <2>2. Answer /\ Free
    BY <1>6 DEF MenuStart, ConfirmReset, PickNetwork, BackToList, Again, Save, Go
  <2> QED
    BY <1>1, <2>1, <2>2
<1>7. CASE MenuMove \/ MenuChange
  BY <1>2, <1>7 DEF MenuMove, MenuChange, InMenu
<1>8. CASE MenuReset \/ ConfirmKeep \/ TypeName \/ TypeKey \/ KeyCancelled \/ Run \/ Browse
  <2>1. Polled /\ Free
    BY <1>8 DEF MenuReset, ConfirmKeep, TypeName, TypeKey, KeyCancelled, Run, Browse, Go
  <2> QED
    BY <1>2, <2>1
<1>9. CASE \/ SaveOpens \/ SaveWrites \/ WifiStart \/ SavedOn \/ SavedFails \/ SavedSettle
           \/ SavedRescue \/ AutoConnect \/ Joined \/ NotJoined \/ SettleAgain \/ Rescue
  <2>1. then \in {"wifi", "run"}
    BY DEF TypeOK
  <2>2. UNCHANGED screens /\ Free
    BY <1>9, <2>1
    DEF SaveOpens, SaveWrites, WifiStart, SavedOn, SavedFails, SavedSettle, SavedNext, SavedRescue, AutoConnect,
        Joined, NotJoined, SettleAgain, Rescue, Save, Go
  <2> QED
    BY <1>3, <2>2
<1>10. CASE UNCHANGED vars
  BY <1>3, <1>10 DEF vars
<1> QED
  BY Zenon, <1>4, <1>5, <1>6, <1>7, <1>8, <1>9, <1>10 DEF Next

\* A key goes where the name it was typed for goes.
LEMMA KeyStep ==
  ASSUME TypeOK, KeyInv, [Next]_vars
  PROVE  KeyInv'
<1>1. ASSUME at # "list", UNCHANGED config, ini' \in {ini, config, Absent}  PROVE KeyInv'
  BY <1>1 DEF KeyInv, Belongs
<1>2. Belongs(Load(ini)) /\ Belongs(Default)
  BY DEF KeyInv, Belongs, Load, Default, NoKey
<1>3. CASE Boot
  BY <1>2, <1>3 DEF Boot, KeyInv
<1>4. CASE Off \/ ConfirmReset
  <2>1. config' = Default /\ ini' \in {ini, Absent}
    BY <1>4 DEF Off, ConfirmReset, Load
  <2> QED
    BY <1>2, <2>1 DEF KeyInv, Belongs
<1>5. CASE MenuChange
  <2>1. config'.ssid = config.ssid /\ config'.key = config.key /\ UNCHANGED <<ini, at>>
    BY <1>5 DEF MenuChange, TypeOK, Config
  <2> QED
    BY <2>1 DEF KeyInv, Belongs
<1>6. ASSUME NEW ssid \in Network, at = "list"  PROVE KeyFor(ssid).of \in {"", ssid}
  BY <1>6, ClientAssumption DEF KeyFor, NoKey, KeyInv, Belongs
<1>7. CASE PickNetwork
  <2>1. PICK ssid \in Network :
          config' = [config EXCEPT !.ssid = ssid, !.key = IF ssid \in Open THEN NoKey ELSE KeyFor(ssid)]
    BY <1>7 DEF PickNetwork
  <2>2. config'.ssid = ssid /\ config'.key \in {NoKey, KeyFor(ssid)}
    BY <2>1 DEF TypeOK, Config
  <2>3. Belongs(config')
    <3>1. NoKey.of = "" /\ KeyFor(ssid).of \in {"", ssid}
      BY <1>6, <1>7 DEF PickNetwork, NoKey
    <3> QED
      BY <2>2, <3>1 DEF Belongs
  <2> QED
    BY <1>7, <2>3 DEF PickNetwork, KeyInv
<1>8. CASE TypeName
  <2>1. at = "list" /\ UNCHANGED ini
    BY <1>8 DEF TypeName
  <2>2. CASE UNCHANGED <<config, at>>
    BY <2>1, <2>2 DEF KeyInv, Belongs
  <2>3. CASE config' = [config EXCEPT !.ssid = ""] /\ UNCHANGED at
    <3>1. config'.ssid = "" /\ at' = "list"
      BY <2>1, <2>3 DEF TypeOK, Config
    <3> QED
      BY <2>1, <3>1 DEF KeyInv, Belongs
  <2>4. ASSUME NEW ssid \in Network, config' = [config EXCEPT !.ssid = ssid, !.key = KeyFor(ssid)]
        PROVE  KeyInv'
    <3>1. config'.ssid = ssid /\ config'.key = KeyFor(ssid)
      BY <2>4 DEF TypeOK, Config
    <3> QED
      BY <1>6, <2>1, <3>1 DEF KeyInv, Belongs
  <2> QED
    BY <1>8, <2>2, <2>3, <2>4 DEF TypeName
<1>9. CASE TypeKey
  <2>1. PICK key \in {config.key, NoKey} \cup {k \in Key : k.of = config.ssid} :
          config' = [config EXCEPT !.key = key]
    BY <1>9 DEF TypeKey
  <2>2. config'.ssid = config.ssid /\ config'.key = key
    BY <2>1 DEF TypeOK, Config
  <2>3. Belongs(config) /\ UNCHANGED ini
    BY <1>9 DEF TypeKey, KeyInv
  <2>4. key.of \in {"", config.ssid}
    <3>1. config.key.of \in {"", config.ssid} /\ NoKey.of = ""
      BY <2>3 DEF Belongs, NoKey
    <3> QED
      BY <3>1
  <2> QED
    BY <2>2, <2>3, <2>4 DEF KeyInv, Belongs
<1>10. CASE Press \/ Release \/ UNCHANGED vars
  BY <1>10 DEF Press, Release, vars, KeyInv, Belongs
<1>11. CASE SaveOpens \/ SaveWrites
  BY <1>1, <1>11 DEF SaveOpens, SaveWrites
<1>12. CASE \/ MenuMove \/ MenuStart \/ MenuReset \/ ConfirmKeep \/ Released \/ WifiStart \/ SavedOn \/ SavedFails
            \/ SavedSettle \/ SavedRescue \/ AutoConnect
  <2>1. at # "list" /\ UNCHANGED <<config, ini>>
    BY <1>12
    DEF MenuMove, MenuStart, MenuReset, ConfirmKeep, Released, WifiStart, SavedOn, SavedFails, SavedSettle,
        SavedRescue, AutoConnect, InMenu
  <2> QED
    BY <1>1, <2>1
<1>13. CASE \/ KeyCancelled \/ Joined \/ NotJoined \/ SettleAgain \/ Rescue \/ BackToList \/ Run \/ Again \/ Browse
  <2>1. at # "list" /\ UNCHANGED <<config, ini>>
    BY <1>13 DEF KeyCancelled, Joined, NotJoined, SettleAgain, Rescue, BackToList, Run, Again, Browse
  <2> QED
    BY <1>1, <2>1
<1> QED
  BY Zenon, <1>3, <1>4, <1>5, <1>7, <1>8, <1>9, <1>10, <1>11, <1>12, <1>13 DEF Next

\* What is on the card has been there, is nothing, or has been let in.
LEMMA LoginStep ==
  ASSUME TypeOK, LoginInv, [Next]_vars
  PROVE  LoginInv'
<1> USE DEF LoginInv, SavedIsProven, Proven, Known, Connecting, Setup, Go, screens, net
<1>1. CASE Press \/ Release \/ UNCHANGED vars
  BY <1>1 DEF Press, Release, vars, Login, Load
<1>2. CASE Boot
  BY <1>2 DEF Boot, Login
<1>3. CASE Off
  BY <1>3 DEF Off, Login, NoLogin, Default, Load
<1>4. CASE SaveOpens
  BY <1>4 DEF SaveOpens, TypeOK, Login
<1>5. CASE SaveWrites
  BY <1>5 DEF SaveWrites, TypeOK, Login
<1>6. CASE MenuMove \/ MenuReset \/ ConfirmKeep \/ Released
  BY <1>6 DEF MenuMove, MenuReset, ConfirmKeep, Released, InMenu, Login
<1>7. CASE MenuChange
  <2>1. config'.ssid = config.ssid /\ config'.key = config.key /\ config'.backend = config.backend
    BY <1>7 DEF MenuChange, TypeOK, Config
  <2> QED
    BY <1>7, <2>1 DEF MenuChange, InMenu, Login
<1>8. CASE MenuStart
  BY <1>8 DEF MenuStart, InMenu, Save, TypeOK, Login
<1>9. CASE ConfirmReset
  BY <1>9 DEF ConfirmReset, TypeOK, Login, Load, Default, NoLogin
<1>10. CASE WifiStart
  BY <1>10 DEF WifiStart, Login
<1>11. CASE SavedOn
  BY <1>11 DEF SavedOn, JoinWorks, Login
<1>12. CASE SavedFails
  BY <1>12 DEF SavedFails, JoinFails, Refused, TurnedAway, NoAddress, Login
<1>13. CASE SavedSettle
  BY <1>13 DEF SavedSettle, SavedNext, Login
<1>14. CASE SavedRescue
  BY <1>14 DEF SavedRescue, Resolves, Login
<1>15. CASE AutoConnect
  BY <1>15 DEF AutoConnect, Login
<1>16. CASE PickNetwork
  BY <1>16 DEF PickNetwork, Login
<1>17. CASE TypeName \/ TypeKey \/ KeyCancelled
  BY <1>17 DEF TypeName, TypeKey, KeyCancelled, Login
<1>18. CASE Joined
  BY <1>18 DEF Joined, JoinWorks, Save, Login
<1>19. CASE NotJoined
  BY <1>19 DEF NotJoined, JoinFails, Refused, TurnedAway, NoAddress, Login
<1>20. CASE SettleAgain \/ BackToList
  BY <1>20 DEF SettleAgain, BackToList, Login
<1>21. CASE Rescue
  BY <1>21 DEF Rescue, Resolves, Save, Login
<1>22. CASE Run
  BY <1>22 DEF Run, TypeOK, Login
<1>23. CASE Again \/ Browse
  <2>1. /\ at = "summary" /\ at' \in {"summary", "release"}
        /\ UNCHANGED <<config, ini, then, radio, accepted, atBoot>>
    BY <1>23 DEF Again, Browse
  <2> QED
    BY <2>1 DEF Login
<1> QED
  BY Zenon, <1>1, <1>2, <1>3, <1>4, <1>5, <1>6, <1>7, <1>8, <1>9, <1>10, <1>11, <1>12, <1>13, <1>14, <1>15,
     <1>16, <1>17, <1>18, <1>19, <1>20, <1>21, <1>22, <1>23 DEF Next

\* The selected line stays on the screen.
LEMMA ShownStep ==
  ASSUME TypeOK, SelectedIsShown, [Next]_vars
  PROVE  SelectedIsShown'
<1>0. Shown(list)
  BY DEF Shown, Lists, TypeOK, SelectedIsShown
<1>1. ASSUME Shown(list')  PROVE SelectedIsShown'
  BY <1>1 DEF Shown, SelectedIsShown
<1>2. CASE Off \/ Again
  BY <1>1, <1>2, ListBegins DEF Off, Again
<1>3. CASE Run
  BY <1>1, <1>3, ListBegins DEF Run
<1>4. CASE Browse
  BY <1>0, <1>1, <1>4, BrowseShown
<1>5. CASE \/ Press \/ Release \/ Boot \/ SaveOpens \/ SaveWrites \/ MenuMove \/ MenuChange \/ MenuStart
           \/ MenuReset \/ ConfirmReset \/ ConfirmKeep \/ Released \/ WifiStart \/ SavedOn \/ UNCHANGED vars
  BY <1>0, <1>1, <1>5
  DEF Press, Release, Boot, SaveOpens, SaveWrites, MenuMove, MenuChange, MenuStart, MenuReset, ConfirmReset,
      ConfirmKeep, Released, WifiStart, SavedOn, vars
<1>6. CASE \/ SavedFails \/ SavedSettle \/ SavedRescue \/ AutoConnect \/ PickNetwork \/ TypeName \/ TypeKey
           \/ KeyCancelled \/ Joined \/ NotJoined \/ SettleAgain \/ Rescue \/ BackToList
  BY <1>0, <1>1, <1>6
  DEF SavedFails, SavedSettle, SavedRescue, AutoConnect, PickNetwork, TypeName, TypeKey, KeyCancelled, Joined,
      NotJoined, SettleAgain, Rescue, BackToList
<1> QED
  BY Zenon, <1>2, <1>3, <1>4, <1>5, <1>6 DEF Next

-----------------------------------------------------------------------------
(* The theorems.                                                            *)

\* The program begins well.
LEMMA Initially == Init => IInv
<1> SUFFICES ASSUME Init PROVE IInv
  OBVIOUS
<1>1. RestOK
  BY SettingsTyped, ListBegins, FirstRow DEF Init, RestOK, Stages, Backend, Shown, Lists
<1>2. ButtonOK
  BY Zenon DEF Init, ButtonOK
<1>3. TriesInv
  BY DEF Init, TriesInv
<1>4. PressInv
  BY Zenon DEF Init, PressInv
<1>5. KeyInv
  BY ClientAssumption DEF Init, KeyInv, Belongs, Default, NoKey
<1>6. LoginInv
  BY DEF Init, LoginInv, SavedIsProven, Known, Connecting, Setup, Proven, Login, Load, Default, NoLogin
<1>7. SelectedIsShown
  BY ListBegins DEF Init, SelectedIsShown, Shown
<1> QED
  BY <1>1, <1>2, <1>3, <1>4, <1>5, <1>6, <1>7, TypeParts DEF IInv

\* And goes on so.
LEMMA Inductive == Spec => []IInv
<1>1. IInv /\ [Next]_vars => IInv'
  BY TypeStep, PressStep, KeyStep, LoginStep, ShownStep DEF IInv
<1> QED
  BY Initially, <1>1, PTL DEF Spec

\* The program's state is of its type, whatever the user and the radio do.
THEOREM TypeCorrect == Spec => []TypeOK
<1>1. IInv => TypeOK
  BY DEF IInv
<1> QED
  BY Inductive, <1>1, PTL

\* One press of A never answers two screens (main.c's menus and waits).
THEOREM PressesAreSpent == Spec => []OnePressOneAnswer
<1>1. IInv => OnePressOneAnswer
  BY Zenon DEF IInv, PressInv, OnePressOneAnswer
<1> QED
  BY Inductive, <1>1, PTL

\* A key is offered, and saved, only beside the name it was typed for (connect_wifi).
THEOREM KeysStay == Spec => []KeyBelongs
<1>1. IInv => KeyBelongs
  BY DEF IInv, KeyInv, Belongs, KeyBelongs
<1> QED
  BY Inductive, <1>1, PTL

\* What is saved has let the console in, or was there (connect_wifi, save_config).
THEOREM SavesAreProven == Spec => []SavedIsProven
<1>1. IInv => SavedIsProven
  BY DEF IInv, LoginInv
<1> QED
  BY Inductive, <1>1, PTL

\* The selected result is on the screen, of any height (main's result list).
THEOREM SelectionIsShown == Spec => []SelectedIsShown
<1>1. IInv => SelectedIsShown
  BY DEF IInv
<1> QED
  BY Inductive, <1>1, PTL
=============================================================================
