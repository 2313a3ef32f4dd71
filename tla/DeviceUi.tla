----------------------------- MODULE DeviceUi ------------------------------
(* The pages of the Cardputer (ui.cpp).  u is the DeviceUi object, e what  *)
(* it reads from the other objects of the firmware: lists that change      *)
(* between two ticks.  Of the keys that are pressed the model has the      *)
(* number, which is what Keyboard.isChange compares, and whether one of    *)
(* them went down on another page, in the other mode or in the dark.       *)
(* Disturbances bounds what the lists, the link and the console do; in one *)
(* behaviour the things of one set in Varies change, "time" with the       *)
(* settings.                                                               *)
EXTENDS UiMode, Integers, Sequences, SequencesExt

CONSTANTS None, Unknown,
          Ssid, Encrypted,          \* networks
          Mac, Session,
          WifiList, MacList, SessionList,   \* lists there may be
          Levels,                   \* kBrightnessLevels, from 1
          ScreenTimeouts,           \* kScreenTimeouts
          IdleDimAfter,             \* kIdleDimAfterMs
          CodeLength,               \* digits of a pair code
          Varies,                   \* bound: sets of "time", "networks", "Macs", "sessions"
          Disturbances              \* bound

ASSUME UiAssumption ==
  /\ Page = {"Main", "Codex", "Wifi", "WifiPassword", "Computers", "AddComputer", "PairCode",
             "Brightness", "ScreenOff"}
  /\ {None, Unknown} \cap (Ssid \cup Mac \cup Session) = {}
  /\ WifiList \subseteq Seq(Ssid) /\ MacList \subseteq Seq(Mac) /\ SessionList \subseteq Seq(Session)
  /\ ScreenTimeouts \in Seq(Nat) /\ ScreenTimeouts # <<>> /\ IdleDimAfter \in Nat
  /\ Levels \in Nat \ {0} /\ CodeLength \in Nat /\ Disturbances \in Nat

VARIABLES u,      \* DeviceUi
          e,      \* what it reads
          keys,   \* down: how many; stray: one of them went down elsewhere
          shown,  \* what the screen highlights, None in the dark; Unknown once out of date
          deed,   \* what the last tick did
          budget

vars == <<u, e, keys, shown, deed, budget>>

Key == {"up", "down", "left", "right", "enter", "esc", "del", "tab", "char"}

NoDeed == [stray |-> FALSE, astray |-> FALSE, moved |-> FALSE, touched |-> FALSE]
NoFocus == [id |-> None, seq |-> 0]
MaxIdle == CHOOSE t \in Range(ScreenTimeouts) : \A s \in Range(ScreenTimeouts) : s <= t

-----------------------------------------------------------------------------
(* The object; lists count from 0 as in the code.                          *)
At(list, i) == list[i + 1]
HasIndex(list, i) == i + 1 \in DOMAIN list

Begin ==
  [mode |-> "Local", page |-> Main, suppress |-> FALSE, screenOff |-> FALSE, selection |-> 0,
   dimmed |-> FALSE, idle |-> 0, main |-> 0, home |-> 0, agent |-> 0, chosen |-> None,
   focus |-> NoFocus, text |-> 0, pending |-> None, brightness |-> Levels,
   display |-> Levels, timeout |-> 1]

NoteActivity(v) ==
  IF v.dimmed /\ ~v.screenOff
  THEN [v EXCEPT !.idle = 0, !.dimmed = FALSE, !.display = v.brightness]
  ELSE [v EXCEPT !.idle = 0]

(* wakeScreen, for a v that became w.                                      *)
Lit(v, w) ==
  IF v.screenOff /\ ~w.screenOff THEN [w EXCEPT !.dimmed = FALSE, !.display = v.brightness] ELSE w

DimLevel == 0
Timeout(v) == ScreenTimeouts[v.timeout]

UpdateScreenPower(v) ==
  IF v.screenOff THEN v
  ELSE IF Timeout(v) # 0 /\ v.idle >= Timeout(v)
       THEN [v EXCEPT !.screenOff = TRUE, !.dimmed = FALSE, !.display = DimLevel]
  ELSE IF ~v.dimmed /\ v.idle >= IdleDimAfter
       THEN [v EXCEPT !.dimmed = TRUE, !.display = DimLevel]
  ELSE v

ShowCodex(v, held) == SetPage([v EXCEPT !.focus = NoFocus, !.chosen = None], "Codex", held)

-----------------------------------------------------------------------------
(* The session on the pages Main and Codex.                                *)
FollowFocus(v, f) == IF v.focus = f THEN v ELSE [v EXCEPT !.focus = f, !.chosen = f.id]

IndexOf(list, x) == CHOOSE i \in 0 .. Len(list) - 1 : At(list, i) = x

Choose(v, list, i) == [v EXCEPT !.agent = i, !.chosen = At(list, i)]

(* MUTANT: the place in the list is kept, and not the session.             *)
KeepPlace(v, list) ==
  IF v.chosen = None \/ HasIndex(list, v.agent) THEN v
  ELSE IF list = <<>> THEN [v EXCEPT !.agent = 0, !.chosen = None] ELSE Choose(v, list, Len(list) - 1)

KeepSession(v, list) ==
  IF v.chosen = None THEN v
  ELSE IF v.chosen \in Range(list) THEN [v EXCEPT !.agent = IndexOf(list, v.chosen)]
  ELSE IF list = <<>> THEN [v EXCEPT !.agent = 0, !.chosen = None]
  ELSE Choose(v, list, IF v.agent < Len(list) THEN v.agent ELSE Len(list) - 1)

ShowingCodex(v) == v.page \in {"Main", "Codex"}
FollowAgents(v) == IF ShowingCodex(v) THEN KeepSession(FollowFocus(v, e.focus), e.agents) ELSE v

(* What is highlighted once v and the lists f are drawn.                   *)
Highlighted(v, f) ==
  CASE ShowingCodex(v) -> IF HasIndex(f.agents, v.agent) THEN At(f.agents, v.agent) ELSE None
    [] v.page = "Wifi" -> IF HasIndex(f.wifi, v.selection) THEN At(f.wifi, v.selection) ELSE None
    [] v.page = "Computers" -> IF HasIndex(f.paired, v.selection) THEN At(f.paired, v.selection) ELSE None
    [] v.page = "AddComputer" ->
         IF HasIndex(f.discovered, v.selection) THEN At(f.discovered, v.selection) ELSE None
    [] OTHER -> None

-----------------------------------------------------------------------------
(* The handlers: from r = [ui, env, item] and a key to the next; item is   *)
(* what a command to another object was about.                             *)
Around(i, n, step) == (i + n + step) % n
Steps(k) == IF k \in {"up", "left"} THEN -1 ELSE 1

Goto(r, page) == [r EXCEPT !.ui = SetPage(r.ui, page, TRUE)]
Scroll(r, n, k) == [r EXCEPT !.ui.selection = Around(@, n, Steps(k))]
(* startScan; the list of a scan that runs already was emptied with it.    *)
Scans(r) == [r EXCEPT !.env.wifi = <<>>]

Remembered(v) == IF v.main > 0 THEN [v EXCEPT !.home = v.main - 1] ELSE v

(* The home page: the Codex card (0) left of four settings, 1 2 over 3 4.  *)
MainMove == [left |-> <<0, 1, 0, 3>>, right |-> <<2, 2, 4, 4>>,
             up   |-> <<1, 2, 1, 2>>, down  |-> <<3, 4, 3, 4>>]

MainMoved(v, k) ==
  IF v.main # 0 THEN [v EXCEPT !.main = MainMove[k][v.main]]
  ELSE IF k = "right" THEN [v EXCEPT !.main = v.home + 1]
  ELSE v

HandleMain(r, k) ==
  LET v == Remembered(IF k \in DOMAIN MainMove THEN MainMoved(r.ui, k) ELSE r.ui)
      s == [r EXCEPT !.ui = v]
  IN  IF k # "enter" THEN s
      ELSE CASE v.main = 0 -> [s EXCEPT !.ui = ShowCodex(v, TRUE)]
             [] v.main = 1 -> Goto(Scans(s), "Wifi")
             [] v.main = 2 -> Goto(s, "Computers")
             [] v.main = 3 -> Goto(s, "Brightness")
             [] v.main = 4 -> Goto(s, "ScreenOff")

HandleCodex(r, k) ==
  LET list == r.env.agents
      n    == Len(list)
      v    == IF n > 0 /\ r.ui.agent >= n THEN Choose(r.ui, list, n - 1) ELSE r.ui
      s    == [r EXCEPT !.ui = v]
  IN  IF k \in {"esc", "del"} THEN Goto(s, "Main")
      ELSE IF n = 0 THEN s
      ELSE IF k \in {"left", "right"} THEN [s EXCEPT !.ui = Choose(v, list, Around(v.agent, n, Steps(k)))]
      ELSE IF k = "enter" THEN [s EXCEPT !.item = At(list, v.agent)]
      ELSE s

Forgotten(r, x) ==
  LET s == [r EXCEPT !.env.saved = @ \ {x}, !.item = x]
  IN  IF s.env.saved = {} THEN Scans([s EXCEPT !.env.setup = TRUE]) ELSE s

Joins(r, x) == [r EXCEPT !.env.saved = @ \cup {x}, !.env.setup = FALSE]

HandleWifi(r, k) ==
  LET list == r.env.wifi
      n    == Len(list)
      s    == IF n > 0 /\ r.ui.selection >= n THEN [r EXCEPT !.ui.selection = n - 1] ELSE r
      x    == At(list, s.ui.selection)
  IN  IF k = "tab" THEN Scans(s)
      ELSE IF k = "del" /\ n > 0 /\ x \in s.env.saved THEN Forgotten(s, x)
      ELSE IF k = "esc" THEN Goto(s, "Main")
      ELSE IF n = 0 THEN s
      ELSE IF k \in {"up", "down"} THEN Scroll(s, n, k)
      ELSE IF k # "enter" THEN s
      ELSE IF x \in s.env.saved THEN Goto(Joins([s EXCEPT !.item = x], x), "Main")
      ELSE IF x \in Encrypted
           THEN Goto([s EXCEPT !.item = x, !.ui.pending = x, !.ui.text = 0], "WifiPassword")
      ELSE Goto(Joins([s EXCEPT !.item = x], x), "Main")

(* removeLast and appendTypedText; texts are as long as a code at most.    *)
Typed(r, k) ==
  CASE k = "del" /\ r.ui.text > 0 -> [r EXCEPT !.ui.text = @ - 1]
    [] k = "char" /\ r.ui.text < CodeLength -> [r EXCEPT !.ui.text = @ + 1]
    [] OTHER -> r

HandlePassword(r, k) ==
  CASE k = "esc"   -> Goto(r, "Wifi")
    [] k = "enter" -> Goto(Joins([r EXCEPT !.ui.text = 0], r.ui.pending), "Main")
    [] OTHER       -> Typed(r, k)

(* deletePairing, disconnect(true) and connectTo...: the link goes down.   *)
Unlinked(r) == [r EXCEPT !.env.link = "offline", !.env.current = None]

HandleComputers(r, k) ==
  LET list == r.env.paired
      n    == Len(list)
      i    == r.ui.selection
      x    == At(list, i)
      left == RemoveAt(list, i + 1)
      gone == [r EXCEPT !.env.paired = left, !.item = x,
                        !.ui.selection = IF i >= n - 1 /\ i > 0 THEN i - 1 ELSE i]
  IN  IF k = "del" /\ i < n THEN IF r.env.current = x THEN Unlinked(gone) ELSE gone
      ELSE IF k = "esc" THEN Goto(r, "Main")
      ELSE IF k \in {"up", "down"} THEN Scroll(r, n + 2, k)
      ELSE IF k # "enter" THEN r
      ELSE IF i < n
           THEN IF r.env.current = x \/ x \in Range(r.env.discovered)
                THEN Unlinked([r EXCEPT !.item = x]) ELSE r
      ELSE IF i = n THEN Goto(r, "AddComputer")
      ELSE Goto(r, "Main")

HandleAddComputer(r, k) ==
  LET n == Len(r.env.discovered)
      i == r.ui.selection
  IN  IF k \in {"esc", "del"} THEN Goto(r, "Computers")
      ELSE IF n > 0 /\ k \in {"up", "down"} THEN Scroll(r, n, k)
      ELSE IF k = "enter" /\ i < n THEN Unlinked([r EXCEPT !.item = At(r.env.discovered, i)])
      ELSE r

(* A code that is sent changes nothing here until the answer comes.        *)
HandlePairCode(r, k) ==
  IF k = "esc" THEN Goto(Unlinked(r), "Computers")
  ELSE IF k = "enter" /\ r.ui.text = CodeLength THEN r
  ELSE Typed(r, k)

Turn(k) == IF k \in {"left", "down"} THEN -1 ELSE IF k \in {"right", "up", "enter"} THEN 1 ELSE 0

HandleBrightness(r, k) ==
  LET next == Around(r.ui.brightness - 1, Levels, Turn(k)) + 1
  IN  IF k \in {"esc", "del"} THEN Goto(r, "Main")
      ELSE IF Turn(k) = 0 THEN r
      ELSE [r EXCEPT !.ui.brightness = next, !.ui.display = next, !.ui.dimmed = FALSE]

HandleScreenOff(r, k) ==
  LET next == Around(r.ui.timeout - 1, Len(ScreenTimeouts), Turn(k)) + 1
  IN  IF k \in {"esc", "del"} THEN Goto(r, "Main")
      ELSE IF Turn(k) = 0 THEN r
      ELSE [r EXCEPT !.ui = NoteActivity([r.ui EXCEPT !.timeout = next])]

HandleInput(r, k) ==
  CASE r.ui.page = "Main"         -> HandleMain(r, k)
    [] r.ui.page = "Codex"        -> HandleCodex(r, k)
    [] r.ui.page = "Wifi"         -> HandleWifi(r, k)
    [] r.ui.page = "WifiPassword" -> HandlePassword(r, k)
    [] r.ui.page = "Computers"    -> HandleComputers(r, k)
    [] r.ui.page = "AddComputer"  -> HandleAddComputer(r, k)
    [] r.ui.page = "PairCode"     -> HandlePairCode(r, k)
    [] r.ui.page = "Brightness"   -> HandleBrightness(r, k)
    [] r.ui.page = "ScreenOff"    -> HandleScreenOff(r, k)

-----------------------------------------------------------------------------
(* tick, up to the handlers: the button, the keys as such, the screen, the *)
(* first-boot funnel, pairing, the session.                                *)
Funnelled(v) == e.setup /\ v.mode = "Local" /\ v.page = Main

Interrupted(v, held) ==
  LET w == IF Funnelled(v) THEN SetPage(v, "Wifi", held) ELSE v
      x == PairingInterrupts(w, e.link = "awaiting", e.link = "connected", held)
  IN  IF x.page = "PairCode" /\ w.page # "PairCode" THEN [x EXCEPT !.text = 0] ELSE x

Powered(clicked, held) ==
  LET a == IF clicked THEN NoteActivity(u) ELSE u
      b == Unsuppressed(Lit(a, BtnA(a, clicked, held)), held)
      c == IF held THEN NoteActivity(b) ELSE b
  IN  UpdateScreenPower(Lit(c, Woken(c, held)))

Prepared(d, held) == FollowAgents(Interrupted(d, held))

Same(v, w) == v.page = w.page /\ v.mode = w.mode

(* What asks for a redraw, beside the time since the last.                 *)
Redraws(v, w) == [v EXCEPT !.idle = 0, !.suppress = FALSE] # [w EXCEPT !.idle = 0, !.suppress = FALSE]

Acts(v, down) == v.mode = "Local" /\ ~v.suppress /\ down # keys.down /\ down > 0

(* The funnel took note of the setup and started a scan.                   *)
Routed(d, v, down, k) ==
  LET env == IF Funnelled(d) THEN [e EXCEPT !.setup = FALSE, !.wifi = <<>>] ELSE e
      r   == [ui |-> v, env |-> env, item |-> None]
  IN  IF Acts(v, down) THEN HandleInput(r, k) ELSE r

(* One of the keys went down elsewhere, or now, in the dark.               *)
Stray(clicked, down, kept) == (kept > 0 /\ keys.stray) \/ (down > 0 /\ u.screenOff /\ ~clicked)

Ticked(v, r, clicked, down, kept, k, due) ==
  /\ u' = r.ui /\ e' = r.env
  /\ keys' = [down |-> down, stray |-> down > 0 /\ (Stray(clicked, down, kept) \/ ~Same(u, r.ui))]
  /\ deed' = [stray   |-> Acts(v, down) /\ (Stray(clicked, down, kept) \/ ~Same(u, v)),
              astray  |-> r.item # None /\ shown \notin {r.item, Unknown, None},
              moved   |-> Acts(v, down) /\ k \in {"left", "right"},
              touched |-> down > 0 \/ clicked]
  /\ shown' = IF r.ui.screenOff THEN None
              ELSE IF due \/ Acts(v, down) \/ Redraws(u, r.ui) THEN Highlighted(r.ui, r.env)
              ELSE shown
  /\ UNCHANGED budget

(* d, v and r are bound by \E so that TLC evaluates them once.             *)
Tick(clicked, down, kept, k, due) ==
  \E d \in {Powered(clicked, down > 0)} : \E v \in {Prepared(d, down > 0)} :
    \E r \in {Routed(d, v, down, k)} : Ticked(v, r, clicked, down, kept, k, due)

(* Keys go down and up one at a time, or one takes the place of another.   *)
Presses ==
  LET steps == {d \in 0 .. 2 : d - keys.down \in {-1, 0, 1}}
  IN  {<<d, IF d < keys.down THEN d ELSE keys.down>> : d \in steps} \cup (IF keys.down = 1 THEN {<<1, 0>>} ELSE {})

Settings == {"Brightness", "ScreenOff"}
Pressable == {k \in Key : u.page \in Settings /\ Turn(k) # 0 => "time" \in e.varies}

Ticks ==
  \E clicked \in BOOLEAN, due \in IF shown = Unknown THEN BOOLEAN ELSE {TRUE}, p \in Presses :
    \E k \in IF p[1] > 0 /\ p[1] # keys.down THEN Pressable ELSE {"up"} :
      Tick(clicked, p[1], p[2], k, due)

(* Time without activity, in steps of the shortest timeout.                *)
TimePasses ==
  /\ "time" \in e.varies /\ u.idle < MaxIdle /\ u' = [u EXCEPT !.idle = @ + 1]
  /\ deed' = NoDeed /\ UNCHANGED <<e, keys, shown, budget>>

-----------------------------------------------------------------------------
(* What the other objects do between two ticks.                            *)
Spend == budget > 0 /\ budget' = budget - 1 /\ deed' = NoDeed

StillShown(f) ==
  IF ShowingCodex(u)
  THEN f.focus = e.focus /\ u.chosen # None /\ u.chosen \in Range(f.agents)
  ELSE Highlighted(u, f) = shown

Reads(f) == e' = f /\ shown' = IF StillShown(f) THEN shown ELSE Unknown

Elsewhere ==
  /\ Spend /\ UNCHANGED <<u, keys>>
  /\ \/ "networks" \in e.varies /\ \E list \in WifiList : Reads([e EXCEPT !.wifi = list])
     \/ "networks" \in e.varies /\ Reads([e EXCEPT !.setup = TRUE])
     \/ "Macs" \in e.varies /\ \E list \in MacList : Reads([e EXCEPT !.discovered = list])
     \/ "sessions" \in e.varies /\ \E list \in SessionList : Reads([e EXCEPT !.agents = list])
     \/ "sessions" \in e.varies /\ \E x \in Session : Reads([e EXCEPT !.focus = [id |-> x, seq |-> 1 - @.seq]])
     \/ "Macs" \in e.varies /\ Reads([e EXCEPT !.link = "awaiting", !.current = None])
     \/ "Macs" \in e.varies /\ Reads([e EXCEPT !.link = "offline", !.current = None])

(* The Mac takes the code, or the device is known to it.                   *)
Connects ==
  /\ e.link = "awaiting" /\ deed' = NoDeed /\ UNCHANGED <<u, keys, budget>>
  /\ \E mac \in Mac :
       Reads([e EXCEPT !.link = "connected", !.current = mac,
                       !.paired = IF mac \in Range(@) THEN @ ELSE Append(@, mac)])

(* "mode" and "page codex" at the serial console.                          *)
Console ==
  /\ Spend /\ UNCHANGED e
  /\ u' \in {ToggleMode(u, keys.down > 0), ShowCodex(u, keys.down > 0)}
  /\ keys' = [keys EXCEPT !.stray = keys.down > 0] /\ shown' = Unknown

Init ==
  /\ u = Begin /\ keys = [down |-> 0, stray |-> FALSE] /\ deed = NoDeed /\ budget = Disturbances
  /\ \E things \in Varies :
       \E known \in IF "networks" \in things THEN {{}, Ssid \ Encrypted} ELSE {Ssid},
          list \in IF "sessions" \in things THEN SessionList ELSE {<<>>} :
         e = [varies |-> things, wifi |-> <<>>, saved |-> known, paired |-> <<>>, discovered |-> <<>>,
              current |-> None, agents |-> list, focus |-> NoFocus, link |-> "offline",
              setup |-> known = {}]
  /\ shown = Highlighted(u, e)

Next == Ticks \/ TimePasses \/ Elsewhere \/ Connects \/ Console

Spec == Init /\ [][Next]_vars

-----------------------------------------------------------------------------
Focus == [id : Session \cup {None}, seq : 0 .. 1]

UiObject ==
  [mode : {"Local", "Remote"}, page : Page, suppress : BOOLEAN, screenOff : BOOLEAN,
   selection : Nat, dimmed : BOOLEAN, idle : Nat, main : 0 .. 4, home : 0 .. 3, agent : Nat,
   chosen : Session \cup {None}, focus : Focus, text : 0 .. CodeLength,
   pending : Ssid \cup {None}, brightness : 1 .. Levels, display : 0 .. Levels,
   timeout : DOMAIN ScreenTimeouts]

Lists ==
  [varies : Varies, wifi : Seq(Ssid), saved : SUBSET Ssid, paired : Seq(Mac),
   discovered : Seq(Mac), current : Mac \cup {None}, agents : Seq(Session), focus : Focus,
   link : {"offline", "awaiting", "connected"}, setup : BOOLEAN]

UiTypeOK ==
  /\ u \in UiObject /\ e \in Lists
  /\ u.main > 0 => u.home = u.main - 1
  /\ u.screenOff => ~u.dimmed
  /\ u.page = "WifiPassword" => u.pending # None
  /\ keys \in [down : 0 .. 2, stray : BOOLEAN]
  /\ deed \in [stray : BOOLEAN, astray : BOOLEAN, moved : BOOLEAN, touched : BOOLEAN]
  /\ shown \in Ssid \cup Mac \cup Session \cup {None, Unknown}
  /\ budget \in 0 .. Disturbances

(* A key acts only on the page, in the mode and on the lit screen where it *)
(* went down: "In Local mode the waking keypress must not also act on the  *)
(* UI", nor a key that was held across a change of page or mode.           *)
KeysActWhereTheyWentDown == ~deed.stray

(* A command is about what the screen highlights, unless the list it is in *)
(* changed after it was drawn, or has become too short for the highlight.  *)
(* For sessions a new order is not such a change.                          *)
ActsOnHighlighted == ~deed.astray

(* "The mode is the user's decision alone: connecting/disconnecting never  *)
(* changes it"; a code to be typed forces Local.                           *)
ModeIsTheUsers ==
  [][u'.mode # u.mode =>
       deed'.touched \/ budget' < budget \/ (u'.mode = "Local" /\ e.link = "awaiting")]_vars

(* Enter on the Codex card of the home page opens the page of the sessions *)
(* and drops the choice: at the next tick it is the Agent's focus again.   *)
OpensCodex(v, w) ==
  v.page = Main /\ w.page = "Codex" /\ w.chosen = None /\ w.focus = NoFocus

(* "Manual left/right selection remains sticky until another prompt        *)
(* changes focus again": while its session is listed, no tick moves it     *)
(* when the list is sorted anew, a page is left or the screen wakes.  The  *)
(* code breaks the sentence in one case, which is named here: a choice is  *)
(* lost without a prompt when the Codex page is opened from the home page. *)
(* ("page codex" at the serial console, which is no tick, does the same.)  *)
SelectionSticky ==
  [][ /\ ShowingCodex(u) /\ ShowingCodex(u') /\ u.chosen # None /\ u.chosen \in Range(e.agents)
      /\ u.focus = e.focus /\ budget' = budget
      => \/ u'.chosen = u.chosen /\ shown' \in {shown, u.chosen, None}
         \/ deed'.moved
         \/ deed'.touched /\ OpensCodex(u, u')]_vars
=============================================================================
