------------------------------ MODULE DsiClient ------------------------------
(***************************************************************************)
(* The console's program around the scan (main.c): the settings and their    *)
(* file, the options menu, the way onto a network, the loop of runs and the  *)
(* list at the end of each.  A run over the card is one step here; DsiScan   *)
(* models it.  The user presses what he likes, the radio does what it likes. *)
(***************************************************************************)
EXTENDS Naturals, Integers, FiniteSets

CONSTANTS
    Network,            \* the networks in reach
    Open,               \* those that want no key
    Detected,           \* the launcher the card is set up for (detect_launcher)
    Borders,            \* the frames to choose from: 5
    Visible,            \* VISIBLE_RESULTS: 8
    MaxShown,           \* bound of a model: the results a run leaves to browse
    Absent,             \* no settings on the card
    Files               \* the settings a card may come with

NoKey == [of |-> "", right |-> FALSE]
Key == {NoKey} \cup [of : Network, right : BOOLEAN]
\* A server of the user's own has a name, or is named by its number.
Backend == {"default", "own", "number"}
Config == [ssid : Network \cup {""}, key : Key, launcher : 0 .. 2, border : 0 .. Borders - 1, backend : Backend]
Default == [ssid |-> "", key |-> NoKey, launcher |-> Detected, border |-> 0, backend |-> "default"]

ASSUME ClientAssumption ==
    /\ Open \subseteq Network /\ "" \notin Network
    /\ Files \subseteq {Absent} \cup {c \in Config : c.key.of \in {"", c.ssid}}
    /\ Detected \in 0 .. 2 /\ Borders \in Nat \ {0} /\ Visible \in Nat \ {0} /\ MaxShown \in Nat

VARIABLES
    config,             \* g_config
    ini,                \* the settings on the card, or Absent: no file, or an empty one
    at,                 \* where main is
    then,               \* where it goes once the settings are saved
    row,                \* options_menu's
    endpoint,           \* the backend networking.c was pointed at
    radio,              \* the network the radio is on, or ""
    status,             \* g_last_assoc_status
    join,               \* connect_wifi's locals
    button,             \* A: "up", "fresh" (down, and no poll has seen it), "seen" or "spent"
    list,               \* the result list: its length, the selected row, the first shown
    atBoot, accepted,   \* history: the network and key at the start, and the last ones let in
    twice               \* history: one press of A has answered two screens

net == <<radio, status, join, accepted>>
screens == <<button, twice>>
vars == <<config, ini, at, then, row, endpoint, net, screens, list, atBoot>>

Login(c) == <<c.ssid, c.key>>
NoLogin == <<"", NoKey>>
NoJoin == [try |-> 0, needsKey |-> FALSE]
NoList == [count |-> 0, selected |-> 0, first |-> 0]

-----------------------------------------------------------------------------
(* The A button.  A poll sees an edge once; what repeats is down until it is  *)
(* up (scanKeys, keysDown, keysDownRepeat).                                 *)

Press ==
    /\ button = "up" /\ button' = "fresh"
    /\ UNCHANGED <<config, ini, at, then, row, endpoint, net, list, atBoot, twice>>
Release ==
    /\ button # "up" /\ button' = "up"
    /\ UNCHANGED <<config, ini, at, then, row, endpoint, net, list, atBoot, twice>>

Edge == button = "fresh"
Repeats == button # "up"
\* A screen takes A for its answer.
Answer == button' = "spent" /\ twice' = (twice \/ button = "spent")
\* Whatever else a screen does, it has polled.
Polled == button' = (IF button = "fresh" THEN "seen" ELSE button) /\ UNCHANGED twice

Go(stage) == at' = stage /\ UNCHANGED then

-----------------------------------------------------------------------------
(* Settings: load_config, save_config, reset_config.                        *)

Load(file) == IF file = Absent THEN Default ELSE file

Boot ==
    /\ at = "off"
    /\ config' = Load(ini)
    /\ endpoint' = config'.backend
    /\ Go("menu")
    /\ UNCHANGED <<ini, row, net, screens, list, atBoot>>

\* START, an error that ends the program, or the power goes: the card is what stays.
Off ==
    /\ at # "off"
    /\ config' = Default /\ endpoint' = "default"
    /\ row' = 0 /\ radio' = "" /\ status' = "other" /\ join' = NoJoin /\ list' = NoList
    /\ button' = "up" /\ twice' = FALSE
    /\ atBoot' = Login(Load(ini)) /\ accepted' = NoLogin
    /\ at' = "off" /\ then' = "wifi"
    /\ UNCHANGED ini

Save(stage) == at' = "save" /\ then' = stage

\* fopen empties the file before a line of the new one is in it; or it fails.
SaveOpens ==
    /\ at = "save"
    /\ \/ ini' = Absent /\ Go("write")
       \/ UNCHANGED ini /\ Go(then)
    /\ UNCHANGED <<config, row, endpoint, net, screens, list, atBoot>>

SaveWrites ==
    /\ at = "write"
    /\ ini' = config
    /\ Go(then)
    /\ UNCHANGED <<config, row, endpoint, net, screens, list, atBoot>>

-----------------------------------------------------------------------------
(* options_menu.                                                            *)

FixedBmp == config.launcher \in {1, 2}
Enabled(r) == ~(FixedBmp /\ r \in 2 .. 4) /\ ~(r = 4 /\ config.border = 0)
InMenu == at = "menu"

\* The next enabled row up (6) or down (1), which is always there: row 0 is.
Moved(step) ==
    LET After(n) == (row + n * step) % 7
        n == CHOOSE n \in 1 .. 7 : Enabled(After(n)) /\ \A m \in 1 .. n - 1 : ~Enabled(After(m))
    IN  After(n)

MenuMove ==
    /\ InMenu
    /\ \E step \in {1, 6} : row' = Moved(step)
    /\ Polled
    /\ UNCHANGED <<config, ini, at, then, endpoint, net, list, atBoot>>

\* Left and right; the rows of what no screen reads back change nothing here.
MenuChange ==
    /\ InMenu /\ Enabled(row)
    /\ \E step \in {1, -1} :
        config' = [config EXCEPT
            !.launcher = IF row = 0 THEN (@ + step + 3) % 3 ELSE @,
            !.border = IF row = 3 THEN (@ + step + Borders) % Borders ELSE @]
    /\ Polled
    /\ UNCHANGED <<ini, at, then, row, endpoint, net, list, atBoot>>

\* A, also while it repeats: the settings are saved and the run begins, the first
\* time by way of a network.
MenuStart ==
    /\ InMenu /\ Repeats
    /\ Answer
    /\ Save(then)
    /\ row' = 0
    /\ UNCHANGED <<config, ini, endpoint, net, list, atBoot>>

MenuReset ==
    /\ InMenu /\ ~Edge
    /\ Polled
    /\ Go("confirm")
    /\ UNCHANGED <<config, ini, row, endpoint, net, list, atBoot>>

\* A resets: the file goes, and what the program holds becomes the defaults.
ConfirmReset ==
    /\ at = "confirm" /\ Edge
    /\ Answer
    /\ ini' = Absent /\ config' = Load(Absent)
    /\ row' = 0
    /\ Go("release")
    /\ UNCHANGED <<endpoint, net, list, atBoot>>

ConfirmKeep ==
    /\ at = "confirm" /\ ~Edge
    /\ Polled
    /\ Go("release")
    /\ UNCHANGED <<config, ini, row, endpoint, net, list, atBoot>>

\* Mutant of the next: the menu comes back while A is still down.
ReleasedAnyhow == TRUE
LetGoOfA == button = "up"
\* Back to the menu, once A is up again.
Released ==
    /\ at = "release" /\ LetGoOfA
    /\ Go("menu")
    /\ UNCHANGED <<config, ini, row, endpoint, net, screens, list, atBoot>>

-----------------------------------------------------------------------------
(* connect_wifi.                                                            *)

LetsIn(c) == c.ssid \in Network /\ (c.ssid \in Open \/ c.key = [of |-> c.ssid, right |-> TRUE])

\* join_network: refused at once, which leaves the last status standing; timed out
\* or turned away; let in without an address; or on.
Refused == radio' = "" /\ UNCHANGED <<status, accepted>>
TurnedAway == radio' = "" /\ status' = "other" /\ UNCHANGED accepted
NoAddress == LetsIn(config) /\ radio' = config.ssid /\ status' = "dhcp" /\ accepted' = Login(config)
JoinFails == Refused \/ TurnedAway \/ NoAddress
JoinWorks == LetsIn(config) /\ radio' = config.ssid /\ status' = "associated" /\ accepted' = Login(config)

\* settle_radio.
Settle == radio' = ""

\* The saved network, twice, if there is one; then what the console has stored.
WifiStart ==
    /\ at = "wifi"
    /\ Go(IF config.ssid # "" THEN "saved" ELSE "auto")
    /\ join' = NoJoin
    /\ UNCHANGED <<config, ini, row, endpoint, radio, status, accepted, screens, list, atBoot>>

SavedOn ==
    /\ at = "saved"
    /\ JoinWorks
    /\ Go("run")
    /\ join' = NoJoin
    /\ UNCHANGED <<config, ini, row, endpoint, screens, list, atBoot>>

\* Mutant of the next: tried for as long as it takes.
SavedForever == "saved"
SavedNext == IF join.try = 0 THEN "saved" ELSE "auto"

SavedFails ==
    /\ at = "saved"
    /\ JoinFails
    /\ IF status' = "dhcp" THEN Go("savedRescue") ELSE Go("savedSettle")
    /\ UNCHANGED <<config, ini, row, endpoint, join, screens, list, atBoot>>

SavedSettle ==
    /\ at = "savedSettle"
    /\ Settle
    /\ Go(SavedNext)
    /\ join' = [join EXCEPT !.try = @ + 1]
    /\ UNCHANGED <<config, ini, row, endpoint, status, accepted, screens, list, atBoot>>

\* static_ip_rescue: a static address works where the gateway finds the server by
\* its name, which takes a radio that is on the network; a number needs no finding.
Resolves == radio # "" \/ config.backend = "number"

SavedRescue ==
    /\ at = "savedRescue"
    /\ \/ Resolves /\ Go("run")
       \/ Go("savedSettle")
    /\ UNCHANGED <<config, ini, row, endpoint, net, screens, list, atBoot>>

AutoConnect ==
    /\ at = "auto"
    /\ \/ \E n \in Network : radio' = n /\ status' = "associated" /\ Go("run")
       \/ radio' = "" /\ status' \in {"other", "dhcp"} /\ Go("list")
    /\ join' = NoJoin
    /\ UNCHANGED <<config, ini, row, endpoint, accepted, screens, list, atBoot>>

\* Mutant of the next: the key of the last network is offered to this one.
KeyKept(ssid) == config.key
\* A changed name drops the key that was for another.
KeyFor(ssid) == IF config.ssid = ssid THEN config.key ELSE NoKey

PickNetwork ==
    /\ at = "list" /\ Edge
    /\ Answer
    /\ \E ssid \in Network :
        /\ config' = [config EXCEPT !.ssid = ssid, !.key = IF ssid \in Open THEN NoKey ELSE KeyFor(ssid)]
        /\ join' = [try |-> 0, needsKey |-> ssid \notin Open]
        /\ Go(IF ssid \in Open THEN "join" ELSE "key")
    /\ UNCHANGED <<ini, row, endpoint, radio, status, accepted, list, atBoot>>

\* A name by hand; an empty one, or B, leads back to the list.
TypeName ==
    /\ at = "list"
    /\ Polled
    /\ \/ UNCHANGED <<config, join, at, then>>
       \/ config' = [config EXCEPT !.ssid = ""] /\ UNCHANGED <<join, at, then>>
       \/ \E ssid \in Network :
            /\ config' = [config EXCEPT !.ssid = ssid, !.key = KeyFor(ssid)]
            /\ join' = [try |-> 0, needsKey |-> TRUE]
            /\ Go("key")
    /\ UNCHANGED <<ini, row, endpoint, radio, status, accepted, list, atBoot>>

\* A key: the one shown, or one typed for the network it is asked for.  One of a
\* shape no WEP key has is asked for again (DS mode).
TypeKey ==
    /\ at = "key"
    /\ Polled
    /\ \E key \in {config.key, NoKey} \cup {k \in Key : k.of = config.ssid} :
        config' = [config EXCEPT !.key = key]
    /\ Go("join") \/ Go("key")
    /\ join' = [join EXCEPT !.try = 0]
    /\ UNCHANGED <<ini, row, endpoint, radio, status, accepted, list, atBoot>>

KeyCancelled ==
    /\ at = "key"
    /\ Polled
    /\ Go("list")
    /\ UNCHANGED <<config, ini, row, endpoint, net, list, atBoot>>

\* Mutant of the next: saved whether or not the network let the console in.
JoinedAnyhow ==
    /\ at = "join"
    /\ JoinWorks \/ TurnedAway
    /\ Save("run")
    /\ UNCHANGED <<config, ini, row, endpoint, join, screens, list, atBoot>>
Joined ==
    /\ at = "join"
    /\ JoinWorks
    /\ Save("run")
    /\ join' = NoJoin
    /\ UNCHANGED <<config, ini, row, endpoint, screens, list, atBoot>>

NotJoined ==
    /\ at = "join"
    /\ JoinFails
    /\ IF join.try = 0 THEN Go("settle")
       ELSE IF status' = "dhcp" THEN Go("rescue") ELSE Go("settle")
    /\ join' = [join EXCEPT !.try = @ + 1]
    /\ UNCHANGED <<config, ini, row, endpoint, screens, list, atBoot>>

\* Twice per key; then the key is asked for again, or another network.
SettleAgain ==
    /\ at = "settle"
    /\ Settle
    /\ Go(IF join.try = 1 THEN "join" ELSE IF join.needsKey THEN "key" ELSE "list")
    /\ UNCHANGED <<config, ini, row, endpoint, status, join, accepted, screens, list, atBoot>>

Rescue ==
    /\ at = "rescue"
    /\ \/ Resolves /\ Save("run") /\ UNCHANGED radio
       \/ Settle /\ Go("noAddress")
    /\ join' = NoJoin
    /\ UNCHANGED <<config, ini, row, endpoint, status, accepted, screens, list, atBoot>>

\* "A: Back to the list".
BackToList ==
    /\ at = "noAddress" /\ Edge
    /\ Answer
    /\ Go("list")
    /\ UNCHANGED <<config, ini, row, endpoint, net, list, atBoot>>

-----------------------------------------------------------------------------
(* A run, and the list at its end.                                          *)

Run ==
    /\ at = "run"
    /\ \E count \in 0 .. MaxShown :
        list' = [count |-> count, selected |-> IF count > 0 THEN count - 1 ELSE 0,
                 first |-> IF count > Visible THEN count - Visible ELSE 0]
    /\ Polled
    /\ at' = "summary" /\ then' = "run"
    /\ UNCHANGED <<config, ini, row, endpoint, net, atBoot>>

\* Mutant of the next: the A that started the run starts another.
AgainOnRepeat == Repeats
PressedAgain == Edge
Again ==
    /\ at = "summary" /\ PressedAgain
    /\ Answer
    /\ Go("release")
    /\ list' = NoList
    /\ UNCHANGED <<config, ini, row, endpoint, net, atBoot>>

\* One frame's keys, in the order the code looks at them.
LineUp(l) ==
    IF l.selected = 0 THEN l
    ELSE [l EXCEPT !.selected = @ - 1, !.first = IF l.selected - 1 < @ THEN l.selected - 1 ELSE @]
\* Mutant of the next: the window follows a line late.
LineDownLate(l) ==
    IF l.selected + 1 = l.count THEN l
    ELSE [l EXCEPT !.selected = @ + 1,
                   !.first = IF l.selected + 1 > @ + Visible THEN l.selected + 2 - Visible ELSE @]
LineDown(l) ==
    IF l.selected + 1 = l.count THEN l
    ELSE [l EXCEPT !.selected = @ + 1,
                   !.first = IF l.selected + 1 >= @ + Visible THEN l.selected + 2 - Visible ELSE @]
Least(a, b) == IF a < b THEN a ELSE b
Jump(l, selected) ==
    [l EXCEPT !.selected = selected, !.first = IF selected < Visible THEN 0 ELSE selected - Visible + 1]
PageUp(l) == Jump(l, l.selected - Least(l.selected, Visible))
PageDown(l) == Jump(l, l.selected + Least(l.count - l.selected - 1, Visible))

Browse ==
    /\ at = "summary" /\ list.count > 0 /\ ~Edge
    /\ \E keys \in SUBSET {"up", "down", "left", "right"} :
        LET l1 == IF "up" \in keys THEN LineUp(list) ELSE list
            l2 == IF "down" \in keys THEN LineDown(l1) ELSE l1
            l3 == IF "left" \in keys THEN PageUp(l2) ELSE l2
        IN  list' = IF "right" \in keys THEN PageDown(l3) ELSE l3
    /\ Polled
    /\ UNCHANGED <<config, ini, at, then, row, endpoint, net, atBoot>>

-----------------------------------------------------------------------------
Init ==
    /\ ini \in Files
    /\ config = Default /\ at = "off" /\ then = "wifi" /\ row = 0
    /\ endpoint = "default" /\ radio = "" /\ status = "other" /\ join = NoJoin
    /\ button = "up" /\ list = NoList
    /\ atBoot = Login(Load(ini)) /\ accepted = NoLogin /\ twice = FALSE

Next ==
    \/ Press \/ Release
    \/ Boot \/ Off \/ SaveOpens \/ SaveWrites
    \/ MenuMove \/ MenuChange \/ MenuStart \/ MenuReset
    \/ ConfirmReset \/ ConfirmKeep \/ Released
    \/ WifiStart \/ SavedOn \/ SavedFails \/ SavedSettle \/ SavedRescue \/ AutoConnect
    \/ PickNetwork \/ TypeName \/ TypeKey \/ KeyCancelled
    \/ Joined \/ NotJoined \/ SettleAgain \/ Rescue \/ BackToList
    \/ Run \/ Again \/ Browse

Spec == Init /\ [][Next]_vars

-----------------------------------------------------------------------------
(* What the program promises.                                               *)

Stages == {"off", "menu", "confirm", "release", "save", "write", "wifi", "saved", "savedRescue",
           "savedSettle", "auto", "list", "key", "join", "settle", "rescue", "noAddress", "run", "summary"}

TypeOK ==
    /\ config \in Config /\ ini \in Config \cup {Absent}
    /\ at \in Stages /\ then \in {"wifi", "run"} /\ row \in 0 .. 6 /\ endpoint \in Backend
    /\ radio \in Network \cup {""} /\ status \in {"other", "dhcp", "associated"}
    /\ join \in [try : 0 .. 2, needsKey : BOOLEAN]
    /\ button \in {"up", "fresh", "seen", "spent"} /\ twice \in BOOLEAN
    /\ list \in [count : 0 .. MaxShown, selected : 0 .. MaxShown, first : 0 .. MaxShown]

\* One press of A answers one screen: it never confirms a reset and starts the
\* run, nor starts a run and, the card being small, the next (main.c).
OnePressOneAnswer == ~twice

\* A key is offered only to the network it was typed for, and no other is saved
\* beside a network's name (connect_wifi).
KeyBelongs ==
    /\ at \in {"saved", "key", "join"} => config.key.of \in {"", config.ssid}
    /\ ini # Absent => ini.key.of \in {"", ini.ssid}

\* The network and key on the card are those that were there, none, or ones a
\* network has let this console in with: a failed setup leaves no trace
\* (connect_wifi, save_config).  A server named by its number is not covered: the
\* rescue believes any network then, even one the radio is not on.
SavedIsProven == ini # Absent /\ ini.backend # "number" => Login(ini) \in {atBoot, NoLogin, accepted}

\* The selected result is on the screen, and within the list, whatever keys come
\* in one frame (main).
SelectedIsShown ==
    /\ list.first <= list.selected /\ list.selected < list.first + Visible
    /\ list.count > 0 => list.selected < list.count

\* Fails, see README: once configured the backend is fixed for the run.
BackendFixed == at = "run" => endpoint = config.backend
=============================================================================
