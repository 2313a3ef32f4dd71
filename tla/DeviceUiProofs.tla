--------------------------- MODULE DeviceUiProofs ---------------------------
(* What holds of the pages of the Cardputer whatever the lists, the levels *)
(* and the timeouts are, and however the lists, the link and the time      *)
(* change together.                                                        *)
EXTENDS DeviceUi, TLAPS

(* A key that went down elsewhere is still waited for, unless it is the    *)
(* Mac's.                                                                  *)
StrayWaits == keys.stray => u.suppress \/ u.mode = "Remote"

(* What the screen highlights is where the selection is, once keys act.    *)
ShownFollows ==
  \/ shown \in {None, Unknown}
  \/ u.suppress
  \/ /\ ShowingCodex(u) /\ u.focus = e.focus
     /\ \/ u.chosen = None /\ shown = Highlighted(u, e)
        \/ u.chosen # None /\ shown = u.chosen /\ u.chosen \in Range(e.agents)
  \/ ~ShowingCodex(u) /\ shown = Highlighted(u, e)

UiInv == UiTypeOK /\ StrayWaits /\ ShownFollows

-----------------------------------------------------------------------------
(* The screen.                                                             *)

(* What neither the screen nor its timer changes.                          *)
Kept(v, w) ==
  /\ w.page = v.page /\ w.selection = v.selection /\ w.main = v.main /\ w.home = v.home
  /\ w.agent = v.agent /\ w.chosen = v.chosen /\ w.focus = v.focus /\ w.pending = v.pending

Screen(v) == v.screenOff => ~v.dimmed

LEMMA LevelsFit == 0 \in 0 .. Levels /\ \A n \in 1 .. Levels : n \in 0 .. Levels
BY UiAssumption

LEMMA NoteActivityKeeps ==
  ASSUME NEW v \in UiObject
  PROVE  /\ NoteActivity(v) \in UiObject /\ Kept(v, NoteActivity(v))
         /\ NoteActivity(v).mode = v.mode /\ NoteActivity(v).suppress = v.suppress
         /\ NoteActivity(v).screenOff = v.screenOff
         /\ Screen(v) => Screen(NoteActivity(v))
BY LevelsFit DEF NoteActivity, UiObject, Kept, Screen

LEMMA LitKeeps ==
  ASSUME NEW v \in UiObject, NEW w \in UiObject
  PROVE  /\ Lit(v, w) \in UiObject /\ Kept(w, Lit(v, w))
         /\ Lit(v, w).mode = w.mode /\ Lit(v, w).suppress = w.suppress
         /\ Lit(v, w).screenOff = w.screenOff
         /\ Screen(w) => Screen(Lit(v, w))
BY LevelsFit DEF Lit, UiObject, Kept, Screen

LEMMA UpdateScreenPowerKeeps ==
  ASSUME NEW v \in UiObject
  PROVE  /\ UpdateScreenPower(v) \in UiObject /\ Kept(v, UpdateScreenPower(v))
         /\ UpdateScreenPower(v).mode = v.mode /\ UpdateScreenPower(v).suppress = v.suppress
         /\ Screen(v) => Screen(UpdateScreenPower(v))
BY LevelsFit DEF UpdateScreenPower, DimLevel, UiObject, Kept, Screen

LEMMA SetModeKeeps ==
  ASSUME NEW v \in UiObject, NEW mode \in {"Local", "Remote"}, NEW held \in BOOLEAN
  PROVE  /\ SetMode(v, mode, held) \in UiObject /\ Kept(v, SetMode(v, mode, held))
         /\ SetMode(v, mode, held).mode = mode
         /\ SetMode(v, mode, held).suppress = IF v.mode = mode THEN v.suppress ELSE held
         /\ SetMode(v, mode, held).screenOff = v.screenOff
         /\ SetMode(v, mode, held).dimmed = v.dimmed
BY DEF SetMode, ModeChanged, UiObject, Kept

LEMMA SetPageKeeps ==
  ASSUME NEW v \in UiObject, NEW page \in Page, NEW held \in BOOLEAN
  PROVE  /\ SetPage(v, page, held) \in UiObject
         /\ SetPage(v, page, held).page = page /\ SetPage(v, page, held).suppress = held
         /\ \A f \in {"mode", "screenOff", "dimmed", "main", "home", "agent", "chosen", "focus", "pending"} :
              SetPage(v, page, held)[f] = v[f]
BY DEF SetPage, UiObject
-----------------------------------------------------------------------------
(* tick, up to the handlers.  A key that is held is waited for after a     *)
(* change of mode, and in Local mode after it woke the screen.             *)
Waits(v, w, held) == held => w.suppress \/ (w.mode = v.mode /\ w.suppress = v.suppress)

LEMMA BtnAKeeps ==
  ASSUME NEW v \in UiObject, NEW clicked \in BOOLEAN, NEW held \in BOOLEAN, Screen(v),
         NEW w, w = BtnA(v, clicked, held)
  PROVE  /\ w \in UiObject /\ Kept(v, w) /\ Waits(v, w, held)
         /\ w.screenOff => w = v
         /\ ~clicked => w = v
<1>1. CASE ~clicked
  BY <1>1 DEF BtnA, Kept, Waits
<1>2. CASE clicked /\ v.screenOff
  BY <1>2 DEF BtnA, Kept, Waits, UiObject
<1>3. CASE clicked /\ ~v.screenOff
  <2>1. ASSUME NEW mode \in {"Local", "Remote"}, mode # v.mode
        PROVE  /\ SetMode(v, mode, held) \in UiObject /\ Kept(v, SetMode(v, mode, held))
               /\ SetMode(v, mode, held).suppress = held
               /\ SetMode(v, mode, held).screenOff = v.screenOff
    <3>1. SetMode(v, mode, held) = [v EXCEPT !.mode = mode, !.suppress = held]
      BY <2>1 DEF SetMode, ModeChanged
    <3> QED BY <3>1 DEF UiObject, Kept
  <2>2. \/ w = SetMode(v, "Local", held) /\ "Local" # v.mode
        \/ w = SetMode(v, "Remote", held) /\ "Remote" # v.mode
    BY <1>3 DEF BtnA, ToggleMode, UiObject
  <2>3. w \in UiObject /\ Kept(v, w) /\ w.suppress = held /\ w.screenOff = v.screenOff
    BY <2>1, <2>2, Zenon
  <2> QED BY <1>3, <2>3 DEF Waits
<1> QED BY <1>1, <1>2, <1>3

LEMMA PoweredKeeps ==
  ASSUME u \in UiObject, Screen(u), NEW clicked \in BOOLEAN, NEW held \in BOOLEAN,
         NEW d, d = Powered(clicked, held)
  PROVE  /\ d \in UiObject /\ Kept(u, d) /\ Screen(d)
         /\ clicked \/ d.mode = u.mode
         /\ Waits(u, d, held)
         /\ held /\ ~clicked /\ u.screenOff /\ d.mode = "Local" => d.suppress
<1>1. PICK v : v = IF clicked THEN NoteActivity(u) ELSE u
  OBVIOUS
<1>2. /\ v \in UiObject /\ Kept(u, v) /\ Screen(v) /\ v.mode = u.mode /\ v.suppress = u.suppress
      /\ v.screenOff = u.screenOff
  BY <1>1, NoteActivityKeeps DEF Kept
<1>3. PICK a : a = BtnA(v, clicked, held)
  OBVIOUS
<1>4. /\ a \in UiObject /\ Kept(v, a) /\ Waits(v, a, held) /\ (a.screenOff => a = v)
      /\ (~clicked => a = v)
  BY <1>2, <1>3, BtnAKeeps
<1>5. PICK l : l = Lit(v, a)
  OBVIOUS
<1>6. /\ l \in UiObject /\ Kept(v, l) /\ Waits(v, l, held) /\ Screen(l)
      /\ (~clicked => l.screenOff = v.screenOff /\ l.mode = v.mode)
  <2>1. l \in UiObject /\ Kept(a, l) /\ l.mode = a.mode /\ l.suppress = a.suppress
        /\ l.screenOff = a.screenOff
    BY <1>2, <1>4, <1>5, LitKeeps
  <2>2. Screen(l)
    BY <1>2, <1>4, <2>1, <1>5 DEF Lit, Screen
  <2> QED BY <1>4, <2>1, <2>2 DEF Kept, Waits
<1>7. PICK b : b = Unsuppressed(l, held)
  OBVIOUS
<1>8. /\ b \in UiObject /\ Kept(l, b) /\ Screen(b) /\ b.mode = l.mode /\ b.screenOff = l.screenOff
      /\ b.suppress = (l.suppress /\ held)
  BY <1>6, <1>7 DEF Unsuppressed, UiObject, Kept, Screen
<1>9. PICK c : c = IF held THEN NoteActivity(b) ELSE b
  OBVIOUS
<1>10. /\ c \in UiObject /\ Kept(b, c) /\ Screen(c) /\ c.mode = b.mode /\ c.screenOff = b.screenOff
       /\ c.suppress = b.suppress
  BY <1>8, <1>9, NoteActivityKeeps DEF Kept
<1>11. PICK w : w = Woken(c, held)
  OBVIOUS
<1>12. w \in UiObject /\ Kept(c, w) /\ w.mode = c.mode
  BY <1>10, <1>11 DEF Woken, UiObject, Kept
<1>13. /\ ~(held /\ c.screenOff) => w = c
       /\ held /\ c.screenOff => ~w.screenOff /\ w.suppress = (c.suppress \/ c.mode = "Local")
  BY <1>10, <1>11 DEF Woken, UiObject
<1>14. PICK m : m = Lit(c, w)
  OBVIOUS
<1>15. /\ m \in UiObject /\ Kept(w, m) /\ m.mode = w.mode /\ m.suppress = w.suppress
       /\ m.screenOff = w.screenOff
  BY <1>10, <1>12, <1>14, LitKeeps
<1>16. Screen(m)
  BY <1>10, <1>12, <1>13, <1>15, <1>14 DEF Lit, Screen, UiObject
<1>17. d = UpdateScreenPower(m)
  BY <1>1, <1>3, <1>5, <1>7, <1>9, <1>11, <1>14 DEF Powered
<1>18. /\ d \in UiObject /\ Kept(m, d) /\ d.mode = m.mode /\ d.suppress = m.suppress /\ Screen(d)
  BY <1>15, <1>16, <1>17, UpdateScreenPowerKeeps
<1>19. Kept(u, d)
  BY <1>2, <1>4, <1>6, <1>8, <1>10, <1>12, <1>15, <1>18 DEF Kept
<1>20. /\ d.mode = l.mode
       /\ held => d.suppress = l.suppress \/ d.suppress
  <2>1. d.mode = l.mode /\ d.suppress = w.suppress
    BY <1>8, <1>10, <1>12, <1>15, <1>18
  <2>2. b.suppress \in BOOLEAN /\ c.suppress \in BOOLEAN /\ l.suppress \in BOOLEAN
    BY <1>6, <1>8, <1>10 DEF UiObject
  <2>3. held => b.suppress = l.suppress
    BY <1>8, <2>2
  <2>4. c.suppress = b.suppress /\ (w.suppress = c.suppress \/ w.suppress)
    BY <1>10, <1>13, <2>2
  <2> QED BY <2>1, <2>3, <2>4
<1>21. Waits(u, d, held)
  BY <1>2, <1>6, <1>20 DEF Waits
<1>22. clicked \/ d.mode = u.mode
  BY <1>2, <1>6, <1>20
<1>23. held /\ ~clicked /\ u.screenOff /\ d.mode = "Local" => d.suppress
  BY <1>2, <1>6, <1>8, <1>10, <1>12, <1>13, <1>15, <1>18
<1> QED BY <1>18, <1>19, <1>21, <1>22, <1>23
(* The funnel and the pairing leave the object alone, or turn to a page    *)
(* where keys that are held are waited for.                                *)
Turned(v, w, held) ==
  \/ Kept(v, w) /\ w.mode = v.mode /\ w.suppress = v.suppress
  \/ /\ w.page \in {"Wifi", "PairCode", "Computers"} /\ w.suppress = held
     /\ w.main = v.main /\ w.home = v.home

LEMMA PairingInterruptsTurns ==
  ASSUME NEW v \in UiObject, NEW held \in BOOLEAN, Screen(v),
         NEW w, w = PairingInterrupts(v, e.link = "awaiting", e.link = "connected", held)
  PROVE  /\ w \in UiObject /\ Screen(w) /\ Turned(v, w, held)
         /\ w.mode = v.mode \/ (w.mode = "Local" /\ e.link = "awaiting")
         /\ w.page # v.page => w.suppress = held
         /\ w.page = "Wifi" => w.page = v.page
<1>1. CASE e.link = "awaiting" /\ v.page # "PairCode"
  <2>1. PICK l : l = SetMode(v, "Local", held)
    OBVIOUS
  <2>2. l \in UiObject /\ Kept(v, l) /\ l.mode = "Local" /\ l.screenOff = v.screenOff /\ l.dimmed = v.dimmed
    BY <2>1, SetModeKeeps
  <2>3. w = SetPage(l, "PairCode", held)
    BY <1>1, <2>1 DEF PairingInterrupts
  <2>4. "PairCode" \in Page
    BY UiAssumption
  <2>5. /\ w \in UiObject /\ w.page = "PairCode" /\ w.suppress = held /\ w.mode = l.mode
        /\ w.screenOff = l.screenOff /\ w.dimmed = l.dimmed /\ w.main = l.main /\ w.home = l.home
    BY <2>2, <2>3, <2>4, SetPageKeeps
  <2> QED BY <1>1, <2>2, <2>5 DEF Turned, Kept, Screen
<1>2. CASE ~(e.link = "awaiting" /\ v.page # "PairCode") /\ v.page = "PairCode" /\ e.link = "connected"
  <2>1. w = SetPage(v, "Computers", held)
    BY <1>2 DEF PairingInterrupts
  <2>2. "Computers" \in Page
    BY UiAssumption
  <2>3. /\ w \in UiObject /\ w.page = "Computers" /\ w.suppress = held /\ w.mode = v.mode
        /\ w.screenOff = v.screenOff /\ w.dimmed = v.dimmed /\ w.main = v.main /\ w.home = v.home
    BY <2>1, <2>2, SetPageKeeps
  <2> QED BY <2>3 DEF Turned, Screen
<1>3. CASE ~(e.link = "awaiting" /\ v.page # "PairCode") /\ ~(v.page = "PairCode" /\ e.link = "connected")
  <2>1. w = v
    BY <1>3 DEF PairingInterrupts
  <2> QED BY <2>1 DEF Turned, Kept
<1> QED BY <1>1, <1>2, <1>3

LEMMA InterruptedTurns ==
  ASSUME e \in Lists, NEW v \in UiObject, NEW held \in BOOLEAN, Screen(v),
         NEW w, w = Interrupted(v, held)
  PROVE  /\ w \in UiObject /\ Screen(w) /\ Turned(v, w, held)
         /\ w.mode = v.mode \/ (w.mode = "Local" /\ e.link = "awaiting")
         /\ w.page # v.page => w.suppress = held
         /\ Funnelled(v) => w.suppress = held
<1>1. PICK f : f = IF Funnelled(v) THEN SetPage(v, "Wifi", held) ELSE v
  OBVIOUS
<1>2. "Wifi" \in Page
  BY UiAssumption
<1>3. /\ f \in UiObject /\ Screen(f) /\ f.mode = v.mode /\ f.main = v.main /\ f.home = v.home
      /\ Funnelled(v) => f.page = "Wifi" /\ f.suppress = held
      /\ ~Funnelled(v) => f = v
  BY <1>1, <1>2, SetPageKeeps DEF Screen
<1>4. PICK x : x = PairingInterrupts(f, e.link = "awaiting", e.link = "connected", held)
  OBVIOUS
<1>5. /\ x \in UiObject /\ Screen(x) /\ Turned(f, x, held)
      /\ x.mode = f.mode \/ (x.mode = "Local" /\ e.link = "awaiting")
      /\ x.page # f.page => x.suppress = held
      /\ x.page = "Wifi" => x.page = f.page
  BY <1>3, <1>4, PairingInterruptsTurns
<1>6. w = IF x.page = "PairCode" /\ f.page # "PairCode" THEN [x EXCEPT !.text = 0] ELSE x
  BY <1>1, <1>4 DEF Interrupted
<1>7. w \in UiObject /\ Kept(x, w) /\ w.mode = x.mode /\ w.suppress = x.suppress /\ Screen(w)
  <2>1. 0 \in 0 .. CodeLength
    BY UiAssumption
  <2> QED BY <1>5, <1>6, <2>1 DEF UiObject, Kept, Screen
<1>8. Turned(v, w, held)
  BY <1>3, <1>5, <1>7 DEF Turned, Kept
<1>9. w.mode = v.mode \/ (w.mode = "Local" /\ e.link = "awaiting")
  BY <1>3, <1>5, <1>7
<1>10. Funnelled(v) => w.suppress = held
  BY <1>3, <1>5, <1>7 DEF Turned
<1>11. w.page # v.page => w.suppress = held
  BY <1>3, <1>5, <1>7, <1>10 DEF Kept
<1> QED BY <1>7, <1>8, <1>9, <1>10, <1>11

-----------------------------------------------------------------------------
(* The session.                                                            *)

(* The session that was chosen is listed, and where agent points.          *)
Follows(v) ==
  /\ v.focus = e.focus
  /\ v.chosen # None => /\ v.chosen \in Range(e.agents)
                        /\ HasIndex(e.agents, v.agent) /\ At(e.agents, v.agent) = v.chosen

(* All but the session is as it was.                                       *)
Beside(v, w) ==
  /\ w.page = v.page /\ w.selection = v.selection /\ w.main = v.main /\ w.home = v.home
  /\ w.pending = v.pending /\ w.mode = v.mode /\ w.suppress = v.suppress
  /\ w.screenOff = v.screenOff /\ w.dimmed = v.dimmed

LEMMA Listed ==
  ASSUME NEW list, list \in Seq(Session), NEW x \in Range(list)
  PROVE  /\ IndexOf(list, x) \in 0 .. Len(list) - 1
         /\ HasIndex(list, IndexOf(list, x)) /\ At(list, IndexOf(list, x)) = x
<1>1. PICK j \in DOMAIN list : list[j] = x
  BY DEF Range
<1>2. DOMAIN list = 1 .. Len(list) /\ Len(list) \in Nat
  OBVIOUS
<1>3. j - 1 \in 0 .. Len(list) - 1 /\ At(list, j - 1) = x
  BY <1>1, <1>2 DEF At
<1>4. IndexOf(list, x) \in 0 .. Len(list) - 1 /\ At(list, IndexOf(list, x)) = x
  BY <1>3 DEF IndexOf
<1> QED BY <1>2, <1>4 DEF HasIndex

LEMMA AtIsListed ==
  ASSUME NEW S, NEW list \in Seq(S), NEW i \in Nat, i < Len(list)
  PROVE  HasIndex(list, i) /\ At(list, i) \in S /\ At(list, i) \in Range(list)
BY DEF HasIndex, At, Range

LEMMA ChooseFollows ==
  ASSUME e \in Lists, NEW v \in UiObject, v.focus = e.focus, NEW i \in Nat, i < Len(e.agents),
         NEW w, w = Choose(v, e.agents, i)
  PROVE  w \in UiObject /\ Follows(w) /\ Beside(v, w) /\ w.chosen \in Session
<1>1. e.agents \in Seq(Session)
  BY DEF Lists
<1>2. /\ HasIndex(e.agents, i) /\ At(e.agents, i) \in Session /\ At(e.agents, i) \in Range(e.agents)
  BY <1>1, AtIsListed
<1>3. w = [v EXCEPT !.agent = i, !.chosen = At(e.agents, i)]
  BY DEF Choose
<1>4. w \in UiObject /\ Beside(v, w)
  BY <1>2, <1>3 DEF UiObject, Beside
<1>5. w.agent = i /\ w.chosen = At(e.agents, i) /\ w.focus = v.focus
  BY <1>3 DEF UiObject
<1> QED BY <1>2, <1>4, <1>5 DEF Follows
LEMMA KeepSessionFollows ==
  ASSUME e \in Lists, NEW v \in UiObject, v.focus = e.focus, NEW w, w = KeepSession(v, e.agents)
  PROVE  /\ w \in UiObject /\ Follows(w) /\ Beside(v, w)
         /\ v.chosen = None => w = v
         /\ v.chosen \in Range(e.agents) => w.chosen = v.chosen
<1>1. e.agents \in Seq(Session) /\ Len(e.agents) \in Nat
  BY DEF Lists
<1>2. CASE v.chosen = None
  <2>1. w = v
    BY <1>2 DEF KeepSession
  <2> QED BY <1>2, <2>1 DEF Follows, Beside
<1>3. CASE v.chosen # None /\ v.chosen \in Range(e.agents)
  <2>1. PICK i : i = IndexOf(e.agents, v.chosen)
    OBVIOUS
  <2>2. i \in Nat /\ HasIndex(e.agents, i) /\ At(e.agents, i) = v.chosen
    BY <1>1, <1>3, <2>1, Listed
  <2>3. w = [v EXCEPT !.agent = i]
    BY <1>3, <2>1 DEF KeepSession
  <2>4. w \in UiObject /\ Beside(v, w)
    BY <2>2, <2>3 DEF UiObject, Beside
  <2>5. w.agent = i /\ w.chosen = v.chosen /\ w.focus = v.focus
    BY <2>3 DEF UiObject
  <2> QED BY <1>3, <2>2, <2>4, <2>5 DEF Follows
<1>4. CASE v.chosen # None /\ v.chosen \notin Range(e.agents) /\ e.agents = <<>>
  <2>1. w = [v EXCEPT !.agent = 0, !.chosen = None]
    BY <1>4 DEF KeepSession
  <2>2. w \in UiObject /\ Beside(v, w)
    <3>1. 0 \in Nat /\ None \in Session \cup {None}
      OBVIOUS
    <3> QED BY <2>1, <3>1 DEF UiObject, Beside
  <2>3. w.chosen = None /\ w.focus = v.focus
    BY <2>1 DEF UiObject
  <2> QED BY <1>4, <2>2, <2>3 DEF Follows
<1>5. CASE v.chosen # None /\ v.chosen \notin Range(e.agents) /\ e.agents # <<>>
  <2>1. PICK i : i = IF v.agent < Len(e.agents) THEN v.agent ELSE Len(e.agents) - 1
    OBVIOUS
  <2>2. v.agent \in Nat
    BY DEF UiObject
  <2>3. Len(e.agents) > 0
    BY <1>1, <1>5
  <2>4. i \in Nat /\ i < Len(e.agents)
    BY ONLY <1>1, <2>1, <2>2, <2>3
  <2>5. w = Choose(v, e.agents, i)
    BY <1>5, <2>1 DEF KeepSession
  <2>6. w \in UiObject /\ Follows(w) /\ Beside(v, w)
    BY <2>4, <2>5, ChooseFollows
  <2> QED BY <1>5, <2>6
<1> QED BY <1>2, <1>3, <1>4, <1>5

LEMMA FollowAgentsFollows ==
  ASSUME e \in Lists, NEW v \in UiObject, NEW w, w = FollowAgents(v)
  PROVE  /\ w \in UiObject /\ Beside(v, w)
         /\ ShowingCodex(v) => Follows(w)
         /\ ~ShowingCodex(v) => w = v
         /\ v.focus = e.focus /\ v.chosen = None => w = v
         /\ v.focus = e.focus /\ v.chosen # None /\ v.chosen \in Range(e.agents) => w.chosen = v.chosen
<1>1. CASE ~ShowingCodex(v)
  <2>1. w = v
    BY <1>1 DEF FollowAgents
  <2> QED BY <1>1, <2>1 DEF Beside
<1>2. CASE ShowingCodex(v)
  <2>1. PICK f : f = FollowFocus(v, e.focus)
    OBVIOUS
  <2>2. e.focus \in Focus /\ e.focus.id \in Session \cup {None}
    BY DEF Lists, Focus
  <2>3. f \in UiObject /\ Beside(v, f) /\ f.focus = e.focus
    BY <2>1, <2>2 DEF FollowFocus, UiObject, Beside
  <2>4. v.focus = e.focus => f = v
    BY <2>1 DEF FollowFocus
  <2>5. w = KeepSession(f, e.agents)
    BY <1>2, <2>1 DEF FollowAgents
  <2>6. /\ w \in UiObject /\ Follows(w) /\ Beside(f, w)
        /\ f.chosen = None => w = f
        /\ f.chosen \in Range(e.agents) => w.chosen = f.chosen
    BY <2>3, <2>5, KeepSessionFollows
  <2>7. Beside(v, w)
    BY <2>3, <2>6 DEF Beside
  <2> QED BY <1>2, <2>4, <2>6, <2>7
<1> QED BY <1>1, <1>2
-----------------------------------------------------------------------------
(* The handlers.  r is what a handler starts from, s what it makes of it.  *)
Thing == Ssid \cup Mac \cup Session
Hand == [ui : UiObject, env : Lists, item : Thing \cup {None}]

Knows(v) == v.page = "WifiPassword" => v.pending # None

(* Outside Main and Codex a handler leaves the session alone; a page it    *)
(* turns to waits for the key.                                             *)
Moves(v, w) ==
  /\ w.mode = v.mode /\ (Screen(v) => Screen(w)) /\ (Knows(v) => Knows(w))
  /\ w.main = v.main /\ w.home = v.home
  /\ w.agent = v.agent /\ w.chosen = v.chosen /\ w.focus = v.focus
  /\ w.suppress \/ w.page = v.page

SameSessions(f, g) == g.agents = f.agents /\ g.focus = f.focus

(* A command is about what is highlighted, if anything is.                 *)
Aimed(r, s) == s.item = None \/ Highlighted(r.ui, r.env) \in {None, s.item}

LEMMA GotoMoves ==
  ASSUME NEW r \in Hand, NEW page \in Page, page = "WifiPassword" => r.ui.pending # None,
         NEW s, s = Goto(r, page)
  PROVE  s \in Hand /\ Moves(r.ui, s.ui) /\ s.env = r.env /\ s.item = r.item
         /\ s.ui.page = page /\ s.ui.suppress = TRUE
<1>1. PICK w : w = SetPage(r.ui, page, TRUE)
  OBVIOUS
<1>2. r.ui \in UiObject
  BY DEF Hand
<1>3. /\ w \in UiObject /\ w.page = page /\ w.suppress = TRUE
      /\ w.mode = r.ui.mode /\ w.screenOff = r.ui.screenOff /\ w.dimmed = r.ui.dimmed
      /\ w.main = r.ui.main /\ w.home = r.ui.home /\ w.agent = r.ui.agent
      /\ w.chosen = r.ui.chosen /\ w.focus = r.ui.focus /\ w.pending = r.ui.pending
  BY <1>1, <1>2, SetPageKeeps
<1>4. s = [r EXCEPT !.ui = w]
  BY <1>1 DEF Goto
<1>5. s \in Hand /\ s.ui = w /\ s.env = r.env /\ s.item = r.item
  BY <1>3, <1>4 DEF Hand
<1> QED BY <1>3, <1>5 DEF Moves, Screen, Knows

LEMMA MovesOn ==
  ASSUME NEW v, NEW w, NEW x, Moves(v, w), Moves(w, x), x.suppress
  PROVE  Moves(v, x)
BY DEF Moves

(* The selection turns around in a list.                                   *)
LEMMA AroundFits ==
  ASSUME NEW i \in Int, NEW n \in Nat \ {0}, NEW d \in Int
  PROVE  Around(i, n, d) \in 0 .. n - 1
BY DEF Around

LEMMA ScrollMoves ==
  ASSUME NEW r \in Hand, NEW n \in Nat \ {0}, NEW k, NEW s, s = Scroll(r, n, k)
  PROVE  s \in Hand /\ Moves(r.ui, s.ui) /\ s.env = r.env /\ s.item = r.item
<1>1. r.ui \in UiObject /\ r.ui.selection \in Int
  BY DEF Hand, UiObject
<1>2. Steps(k) \in Int
  BY DEF Steps
<1>3. PICK j : j = Around(r.ui.selection, n, Steps(k))
  OBVIOUS
<1>4. j \in Nat
  <2>1. PICK i, d : i = r.ui.selection /\ d = Steps(k)
    OBVIOUS
  <2>2. i \in Int /\ d \in Int /\ j = Around(i, n, d)
    BY <1>1, <1>2, <1>3, <2>1
  <2>3. j \in 0 .. n - 1
    BY <2>2, AroundFits
  <2> QED BY <2>3
<1>5. s = [r EXCEPT !.ui = [r.ui EXCEPT !.selection = j]]
  BY <1>3, <1>1 DEF Scroll, Hand
<1>6. PICK w : w = [r.ui EXCEPT !.selection = j]
  OBVIOUS
<1>7. w \in UiObject /\ Moves(r.ui, w)
  BY <1>1, <1>4, <1>6 DEF UiObject, Moves, Screen, Knows
<1>8. s \in Hand /\ s.ui = w /\ s.env = r.env /\ s.item = r.item
  BY <1>5, <1>6, <1>7 DEF Hand
<1> QED BY <1>7, <1>8

LEMMA TypedMoves ==
  ASSUME NEW r \in Hand, NEW k, NEW s, s = Typed(r, k)
  PROVE  s \in Hand /\ Moves(r.ui, s.ui) /\ s.env = r.env /\ s.item = r.item
<1>1. r.ui \in UiObject /\ r.ui.text \in 0 .. CodeLength
  BY DEF Hand, UiObject
<1>2. PICK t : t = IF k = "del" /\ r.ui.text > 0 THEN r.ui.text - 1
                   ELSE IF k = "char" /\ r.ui.text < CodeLength THEN r.ui.text + 1 ELSE r.ui.text
  OBVIOUS
<1>3. t \in 0 .. CodeLength
  BY <1>1, <1>2, UiAssumption
<1>4. PICK w : w = [r.ui EXCEPT !.text = t]
  OBVIOUS
<1>5. w \in UiObject /\ Moves(r.ui, w)
  BY <1>1, <1>3, <1>4 DEF UiObject, Moves, Screen, Knows
<1>6. s = r \/ s = [r EXCEPT !.ui = w]
  BY <1>2, <1>4 DEF Typed, Hand
<1>7. s = r => Moves(r.ui, s.ui)
  BY DEF Moves
<1> QED BY <1>5, <1>6, <1>7 DEF Hand
LEMMA ScansMoves ==
  ASSUME NEW r \in Hand, NEW s, s = Scans(r)
  PROVE  s \in Hand /\ s.ui = r.ui /\ s.item = r.item /\ SameSessions(r.env, s.env)
<1>1. PICK f : f = [r.env EXCEPT !.wifi = <<>>]
  OBVIOUS
<1>2. f \in Lists /\ SameSessions(r.env, f)
  <2>1. r.env \in Lists
    BY DEF Hand
  <2>2. <<>> \in Seq(Ssid)
    OBVIOUS
  <2> QED BY <1>1, <2>1, <2>2 DEF Lists, SameSessions
<1>3. s = [r EXCEPT !.env = f]
  BY <1>1 DEF Scans, Hand
<1> QED BY <1>2, <1>3 DEF Hand

LEMMA JoinsMoves ==
  ASSUME NEW r \in Hand, NEW x \in Ssid, NEW s, s = Joins(r, x)
  PROVE  s \in Hand /\ s.ui = r.ui /\ s.item = r.item /\ SameSessions(r.env, s.env)
<1>1. PICK f : f = [r.env EXCEPT !.saved = r.env.saved \cup {x}, !.setup = FALSE]
  OBVIOUS
<1>2. f \in Lists /\ SameSessions(r.env, f)
  <2>1. r.env \in Lists /\ r.env.saved \subseteq Ssid
    BY DEF Hand, Lists
  <2>2. r.env.saved \cup {x} \in SUBSET Ssid
    BY <2>1
  <2> QED BY <1>1, <2>1, <2>2 DEF Lists, SameSessions
<1>3. s = [r EXCEPT !.env = f]
  BY <1>1 DEF Joins, Hand
<1> QED BY <1>2, <1>3 DEF Hand

LEMMA UnlinkedMoves ==
  ASSUME NEW r \in Hand, NEW s, s = Unlinked(r)
  PROVE  s \in Hand /\ s.ui = r.ui /\ s.item = r.item /\ SameSessions(r.env, s.env)
<1>1. PICK f : f = [r.env EXCEPT !.link = "offline", !.current = None]
  OBVIOUS
<1>2. f \in Lists /\ SameSessions(r.env, f)
  BY <1>1 DEF Hand, Lists, SameSessions
<1>3. s = [r EXCEPT !.env = f]
  BY <1>1 DEF Unlinked, Hand
<1> QED BY <1>2, <1>3 DEF Hand

(* A network is forgotten.                                                 *)
LEMMA ForgottenMoves ==
  ASSUME NEW r \in Hand, NEW x \in Ssid, NEW s, s = Forgotten(r, x)
  PROVE  s \in Hand /\ s.ui = r.ui /\ s.item = x /\ SameSessions(r.env, s.env)
<1>1. PICK f : f = [r.env EXCEPT !.saved = r.env.saved \ {x}]
  OBVIOUS
<1>2. f \in Lists /\ SameSessions(r.env, f)
  <2>1. r.env \in Lists /\ r.env.saved \subseteq Ssid
    BY DEF Hand, Lists
  <2>2. r.env.saved \ {x} \in SUBSET Ssid
    BY <2>1
  <2> QED BY <1>1, <2>1, <2>2 DEF Lists, SameSessions
<1>3. PICK t : t = [r EXCEPT !.env = f, !.item = x]
  OBVIOUS
<1>4. t \in Hand /\ t.ui = r.ui /\ t.env = f /\ t.item = x
  BY <1>2, <1>3 DEF Hand, Thing
<1>5. t = [r EXCEPT !.env.saved = @ \ {x}, !.item = x]
  BY <1>1, <1>3 DEF Hand
<1>6. PICK g : g = [f EXCEPT !.setup = TRUE]
  OBVIOUS
<1>7. g \in Lists /\ SameSessions(f, g)
  BY <1>2, <1>6 DEF Lists, SameSessions
<1>8. PICK y : y = [t EXCEPT !.env.setup = TRUE]
  OBVIOUS
<1>9. y = [t EXCEPT !.env = g]
  BY <1>4, <1>6, <1>8 DEF Hand
<1>10. y \in Hand /\ y.ui = t.ui /\ y.env = g /\ y.item = t.item
  BY <1>4, <1>7, <1>9 DEF Hand
<1>11. s = t \/ s = Scans(y)
  BY <1>5, <1>8 DEF Forgotten
<1>12. CASE s = t
  BY <1>2, <1>4, <1>12
<1>13. CASE s = Scans(y)
  <2>1. s \in Hand /\ s.ui = y.ui /\ s.item = y.item /\ SameSessions(y.env, s.env)
    BY <1>10, <1>13, ScansMoves
  <2> QED BY <1>2, <1>4, <1>7, <1>10, <2>1 DEF SameSessions
<1> QED BY <1>11, <1>12, <1>13

-----------------------------------------------------------------------------
(* The pages without a list.                                               *)
Handled(r, s) ==
  s \in Hand /\ Moves(r.ui, s.ui) /\ SameSessions(r.env, s.env) /\ Aimed(r, s)

LEMMA GotoHandled ==
  ASSUME NEW r \in Hand, NEW t \in Hand, Moves(r.ui, t.ui), SameSessions(r.env, t.env), Aimed(r, t),
         NEW page \in Page \ {"WifiPassword"}, NEW s, s = Goto(t, page)
  PROVE  Handled(r, s)
<1>0. page \in Page /\ (page = "WifiPassword" => t.ui.pending # None)
  OBVIOUS
<1>1. s \in Hand /\ Moves(t.ui, s.ui) /\ s.env = t.env /\ s.item = t.item /\ s.ui.suppress = TRUE
  <2>1. s \in Hand
    BY <1>0, GotoMoves
  <2>2. Moves(t.ui, s.ui)
    BY <1>0, GotoMoves
  <2>3. s.env = t.env /\ s.item = t.item
    BY DEF Goto, Hand
  <2>4. s.ui.suppress = TRUE
    BY <1>0, GotoMoves
  <2> QED BY <2>1, <2>2, <2>3, <2>4
<1>2. Moves(r.ui, s.ui)
  BY <1>1, MovesOn
<1> QED BY <1>1, <1>2 DEF Handled, Aimed

LEMMA HandleIdle ==
  ASSUME NEW r \in Hand, r.item = None
  PROVE  Handled(r, r) /\ Moves(r.ui, r.ui) /\ SameSessions(r.env, r.env) /\ Aimed(r, r)
BY DEF Handled, Moves, SameSessions, Aimed

LEMMA PageNames ==
  {"Main", "Codex", "Wifi", "Computers", "AddComputer", "PairCode", "Brightness", "ScreenOff"}
    = Page \ {"WifiPassword"}
BY UiAssumption

LEMMA HandlePairCodeHandled ==
  ASSUME NEW r \in Hand, r.item = None, NEW k, NEW s, s = HandlePairCode(r, k)
  PROVE  Handled(r, s)
<1>1. CASE k = "esc"
  <2>1. PICK t : t = Unlinked(r)
    OBVIOUS
  <2>2. t \in Hand /\ t.ui = r.ui /\ t.item = r.item /\ SameSessions(r.env, t.env)
    BY <2>1, UnlinkedMoves
  <2>3. Moves(r.ui, t.ui) /\ Aimed(r, t)
    BY <2>2, HandleIdle DEF Aimed
  <2>4. s = Goto(t, "Computers") /\ "Computers" \in Page \ {"WifiPassword"}
    BY <1>1, <2>1, PageNames DEF HandlePairCode
  <2> QED BY <2>2, <2>3, <2>4, GotoHandled
<1>2. CASE k # "esc" /\ k = "enter" /\ r.ui.text = CodeLength
  BY <1>2, HandleIdle DEF HandlePairCode
<1>3. CASE k # "esc" /\ ~(k = "enter" /\ r.ui.text = CodeLength)
  <2>1. s = Typed(r, k)
    BY <1>3 DEF HandlePairCode
  <2>2. s \in Hand /\ Moves(r.ui, s.ui) /\ s.env = r.env /\ s.item = r.item
    BY <2>1, TypedMoves
  <2> QED BY <2>2 DEF Handled, SameSessions, Aimed
<1> QED BY <1>1, <1>2, <1>3
LEMMA HandleBrightnessHandled ==
  ASSUME NEW r \in Hand, r.item = None, NEW k, NEW s, s = HandleBrightness(r, k)
  PROVE  Handled(r, s)
<1>1. CASE k \in {"esc", "del"}
  <2>1. s = Goto(r, "Main") /\ "Main" \in Page \ {"WifiPassword"}
    BY <1>1, PageNames DEF HandleBrightness
  <2> QED BY <2>1, HandleIdle, GotoHandled
<1>2. CASE k \notin {"esc", "del"} /\ Turn(k) = 0
  BY <1>2, HandleIdle DEF HandleBrightness
<1>3. CASE k \notin {"esc", "del"} /\ Turn(k) # 0
  <2>1. PICK n : n = Around(r.ui.brightness - 1, Levels, Turn(k)) + 1
    OBVIOUS
  <2>2. n \in 1 .. Levels
    <3>1. PICK i, d : i = r.ui.brightness - 1 /\ d = Turn(k)
      OBVIOUS
    <3>2. i \in Int
      BY <3>1 DEF Hand, UiObject
    <3>3. d \in Int
      BY <3>1 DEF Turn
    <3>4. Around(i, Levels, d) \in 0 .. Levels - 1
      BY <3>2, <3>3, UiAssumption, AroundFits
    <3>5. n = Around(i, Levels, d) + 1
      BY <2>1, <3>1
    <3> QED BY ONLY <3>4, <3>5, UiAssumption
  <2>3. PICK w : w = [r.ui EXCEPT !.brightness = n, !.display = n, !.dimmed = FALSE]
    OBVIOUS
  <2>4. r.ui \in UiObject
    BY DEF Hand
  <2>5. w \in UiObject /\ Moves(r.ui, w)
    BY <2>2, <2>3, <2>4, LevelsFit DEF UiObject, Moves, Screen, Knows
  <2>6. s = [r EXCEPT !.ui = w]
    BY <1>3, <2>1, <2>3 DEF HandleBrightness, Hand
  <2>7. s \in Hand /\ s.ui = w /\ s.env = r.env /\ s.item = r.item
    BY <2>5, <2>6 DEF Hand
  <2> QED BY <2>5, <2>7 DEF Handled, SameSessions, Aimed
<1> QED BY <1>1, <1>2, <1>3

LEMMA HandleScreenOffHandled ==
  ASSUME NEW r \in Hand, r.item = None, NEW k, NEW s, s = HandleScreenOff(r, k)
  PROVE  Handled(r, s)
<1>1. CASE k \in {"esc", "del"}
  <2>1. s = Goto(r, "Main") /\ "Main" \in Page \ {"WifiPassword"}
    BY <1>1, PageNames DEF HandleScreenOff
  <2> QED BY <2>1, HandleIdle, GotoHandled
<1>2. CASE k \notin {"esc", "del"} /\ Turn(k) = 0
  BY <1>2, HandleIdle DEF HandleScreenOff
<1>3. CASE k \notin {"esc", "del"} /\ Turn(k) # 0
  <2>1. PICK n : n = Around(r.ui.timeout - 1, Len(ScreenTimeouts), Turn(k)) + 1
    OBVIOUS
  <2>2. n \in DOMAIN ScreenTimeouts
    <3>1. PICK i, m, d : i = r.ui.timeout - 1 /\ m = Len(ScreenTimeouts) /\ d = Turn(k)
      OBVIOUS
    <3>2. m \in Nat \ {0} /\ DOMAIN ScreenTimeouts = 1 .. m
      BY <3>1, UiAssumption
    <3>3. r.ui.timeout \in DOMAIN ScreenTimeouts
      BY DEF Hand, UiObject
    <3>4. i \in Int
      BY <3>1, <3>2, <3>3
    <3>5. d \in Int
      BY <3>1 DEF Turn
    <3>6. Around(i, m, d) \in 0 .. m - 1
      BY <3>2, <3>4, <3>5, AroundFits
    <3>7. n = Around(i, m, d) + 1
      BY <2>1, <3>1
    <3> QED BY ONLY <3>2, <3>6, <3>7
  <2>3. PICK v : v = [r.ui EXCEPT !.timeout = n]
    OBVIOUS
  <2>4. r.ui \in UiObject
    BY DEF Hand
  <2>5. v \in UiObject /\ Moves(r.ui, v) /\ v.suppress = r.ui.suppress /\ v.page = r.ui.page
    BY <2>2, <2>3, <2>4 DEF UiObject, Moves, Screen, Knows
  <2>6. PICK w : w = NoteActivity(v)
    OBVIOUS
  <2>7. w \in UiObject /\ Kept(v, w) /\ w.mode = v.mode /\ (Screen(v) => Screen(w))
    BY <2>5, <2>6, NoteActivityKeeps
  <2>8. Moves(r.ui, w)
    BY <2>5, <2>7 DEF Moves, Kept, Knows
  <2>9. s = [r EXCEPT !.ui = w]
    BY <1>3, <2>1, <2>3, <2>6 DEF HandleScreenOff
  <2>10. s \in Hand /\ s.ui = w /\ s.env = r.env /\ s.item = r.item
    BY <2>7, <2>9 DEF Hand
  <2> QED BY <2>8, <2>10 DEF Handled, SameSessions, Aimed
<1> QED BY <1>1, <1>2, <1>3

-----------------------------------------------------------------------------
(* The pages with a list.                                                  *)
LEMMA HandleAddComputerHandled ==
  ASSUME NEW r \in Hand, r.ui.page = "AddComputer", r.item = None,
         NEW k, NEW s, s = HandleAddComputer(r, k)
  PROVE  Handled(r, s)
<1> r.ui \in UiObject /\ r.env \in Lists
  BY DEF Hand
<1>1. PICK n, i : n = Len(r.env.discovered) /\ i = r.ui.selection
  OBVIOUS
<1>2. n \in Nat /\ i \in Nat /\ r.env.discovered \in Seq(Mac)
  BY <1>1 DEF Lists, UiObject
<1>3. CASE k \in {"esc", "del"}
  <2>1. s = Goto(r, "Computers") /\ "Computers" \in Page \ {"WifiPassword"}
    BY <1>3, PageNames DEF HandleAddComputer
  <2> QED BY <2>1, HandleIdle, GotoHandled
<1>4. CASE k \notin {"esc", "del"} /\ n > 0 /\ k \in {"up", "down"}
  <2>1. s = Scroll(r, n, k) /\ n \in Nat \ {0}
    BY <1>1, <1>2, <1>4 DEF HandleAddComputer
  <2>2. s \in Hand /\ Moves(r.ui, s.ui) /\ s.env = r.env /\ s.item = r.item
    BY <2>1, ScrollMoves
  <2> QED BY <2>2 DEF Handled, SameSessions, Aimed
<1>5. CASE k = "enter" /\ i < n
  <2>1. HasIndex(r.env.discovered, i) /\ At(r.env.discovered, i) \in Mac
    BY <1>1, <1>2, <1>5, AtIsListed
  <2>2. PICK x, t : x = At(r.env.discovered, i) /\ t = [r EXCEPT !.item = x]
    OBVIOUS
  <2>3. t \in Hand /\ t.ui = r.ui /\ t.env = r.env /\ t.item = x
    BY <2>1, <2>2 DEF Hand, Thing
  <2>4. s = Unlinked(t)
    BY <1>1, <1>5, <2>2 DEF HandleAddComputer
  <2>5. s \in Hand /\ s.ui = t.ui /\ s.item = t.item /\ SameSessions(t.env, s.env)
    BY <2>3, <2>4, UnlinkedMoves
  <2>6. Highlighted(r.ui, r.env) = x
    BY <1>1, <2>1, <2>2 DEF Highlighted, ShowingCodex
  <2> QED BY <2>3, <2>5, <2>6, HandleIdle DEF Handled, Aimed
<1>6. CASE k \notin {"esc", "del"} /\ ~(n > 0 /\ k \in {"up", "down"}) /\ ~(k = "enter" /\ i < n)
  <2>1. s = r
    BY <1>1, <1>6 DEF HandleAddComputer
  <2> QED BY <2>1, HandleIdle
<1> QED BY <1>3, <1>4, <1>5, <1>6
LEMMA HandlePasswordHandled ==
  ASSUME NEW r \in Hand, r.ui.page = "WifiPassword", Knows(r.ui), r.item = None,
         NEW k, NEW s, s = HandlePassword(r, k)
  PROVE  Handled(r, s)
<1> r.ui \in UiObject /\ r.env \in Lists
  BY DEF Hand
<1>1. CASE k = "esc"
  <2>1. s = Goto(r, "Wifi") /\ "Wifi" \in Page \ {"WifiPassword"}
    BY <1>1, PageNames DEF HandlePassword
  <2> QED BY <2>1, HandleIdle, GotoHandled
<1>2. CASE k = "enter"
  <2>1. PICK w, t, x : w = [r.ui EXCEPT !.text = 0] /\ t = [r EXCEPT !.ui = w] /\ x = r.ui.pending
    OBVIOUS
  <2>2. 0 \in 0 .. CodeLength
    BY UiAssumption
  <2>3. w \in UiObject /\ Moves(r.ui, w)
    BY <2>1, <2>2 DEF UiObject, Moves, Screen, Knows
  <2>4. t \in Hand /\ t.ui = w /\ t.env = r.env /\ t.item = r.item
    BY <2>1, <2>3 DEF Hand
  <2>5. x \in Ssid
    BY <2>1 DEF Knows, UiObject
  <2>6. PICK j : j = Joins(t, x)
    OBVIOUS
  <2>7. j \in Hand /\ j.ui = t.ui /\ j.item = t.item /\ SameSessions(t.env, j.env)
    BY <2>4, <2>5, <2>6, JoinsMoves
  <2>8. Moves(r.ui, j.ui) /\ SameSessions(r.env, j.env) /\ Aimed(r, j)
    BY <2>3, <2>4, <2>7 DEF Aimed
  <2>9. t = [r EXCEPT !.ui.text = 0]
    BY <2>1 DEF Hand
  <2>10. s = Goto(j, "Main") /\ "Main" \in Page \ {"WifiPassword"}
    BY <1>2, <2>1, <2>6, <2>9, PageNames DEF HandlePassword
  <2> QED BY <2>7, <2>8, <2>10, GotoHandled
<1>3. CASE k \notin {"esc", "enter"}
  <2>1. s = Typed(r, k)
    BY <1>3 DEF HandlePassword
  <2>2. s \in Hand /\ Moves(r.ui, s.ui) /\ s.env = r.env /\ s.item = r.item
    BY <2>1, TypedMoves
  <2> QED BY <2>2 DEF Handled, SameSessions, Aimed
<1> QED BY <1>1, <1>2, <1>3

LEMMA RemovedIsList ==
  ASSUME NEW S, NEW list \in Seq(S), NEW i \in 1 .. Len(list)
  PROVE  RemoveAt(list, i) \in Seq(S)
BY DEF RemoveAt

LEMMA HandleComputersHandled ==
  ASSUME NEW r \in Hand, r.ui.page = "Computers", r.item = None,
         NEW k, NEW s, s = HandleComputers(r, k)
  PROVE  Handled(r, s)
<1> r.ui \in UiObject /\ r.env \in Lists
  BY DEF Hand
<1>1. PICK n, i, x : n = Len(r.env.paired) /\ i = r.ui.selection /\ x = At(r.env.paired, i)
  OBVIOUS
<1>2. n \in Nat /\ i \in Nat /\ r.env.paired \in Seq(Mac)
  BY <1>1 DEF Lists, UiObject
<1>3. i < n => /\ HasIndex(r.env.paired, i) /\ x \in Mac
               /\ Highlighted(r.ui, r.env) = x
  <2>1. i < n => HasIndex(r.env.paired, i) /\ x \in Mac
    BY <1>1, <1>2, AtIsListed
  <2> QED BY <1>1, <2>1 DEF Highlighted, ShowingCodex
<1>4. CASE k = "del" /\ i < n
  <2>1. PICK left, j : left = RemoveAt(r.env.paired, i + 1) /\ j = IF i >= n - 1 /\ i > 0 THEN i - 1 ELSE i
    OBVIOUS
  <2>2. left \in Seq(Mac)
    <3>1. PICK m : m = i + 1
      OBVIOUS
    <3>2. m \in 1 .. Len(r.env.paired)
      BY <1>1, <1>2, <1>4, <3>1
    <3> QED BY <1>2, <2>1, <3>1, <3>2, RemovedIsList
  <2>3. j \in Nat
    BY <1>2, <2>1
  <2>4. PICK w, f : w = [r.ui EXCEPT !.selection = j] /\ f = [r.env EXCEPT !.paired = left]
    OBVIOUS
  <2>5. w \in UiObject /\ Moves(r.ui, w)
    BY <2>3, <2>4 DEF UiObject, Moves, Screen, Knows
  <2>6. f \in Lists /\ SameSessions(r.env, f)
    BY <2>2, <2>4 DEF Lists, SameSessions
  <2>7. PICK gone : gone = [r EXCEPT !.env = f, !.item = x, !.ui = w]
    OBVIOUS
  <2>8. gone \in Hand /\ gone.ui = w /\ gone.env = f /\ gone.item = x
    BY <1>3, <1>4, <2>5, <2>6, <2>7 DEF Hand, Thing
  <2>9. gone = [r EXCEPT !.env.paired = left, !.item = x, !.ui.selection = j]
    BY <2>4, <2>7 DEF Hand
  <2>10. s = gone \/ s = Unlinked(gone)
    BY <1>1, <1>4, <2>1, <2>9 DEF HandleComputers
  <2>11. s \in Hand /\ s.ui = w /\ s.item = x /\ SameSessions(f, s.env)
    <3>1. SameSessions(f, f)
      BY DEF SameSessions
    <3>2. CASE s = gone
      BY <2>8, <3>1, <3>2
    <3>3. CASE s = Unlinked(gone)
      BY <2>8, <3>3, UnlinkedMoves
    <3> QED BY <2>10, <3>2, <3>3
  <2> QED BY <1>3, <1>4, <2>5, <2>6, <2>11 DEF Handled, SameSessions, Aimed
<1>5. CASE ~(k = "del" /\ i < n) /\ k = "esc"
  <2>1. s = Goto(r, "Main") /\ "Main" \in Page \ {"WifiPassword"}
    BY <1>5, PageNames DEF HandleComputers
  <2> QED BY <2>1, HandleIdle, GotoHandled
<1>6. CASE k \in {"up", "down"}
  <2>1. PICK m : m = n + 2
    OBVIOUS
  <2>2. s = Scroll(r, m, k)
    BY <1>1, <1>6, <2>1 DEF HandleComputers
  <2>3. m \in Nat \ {0}
    BY <1>2, <2>1
  <2>4. s \in Hand /\ Moves(r.ui, s.ui) /\ s.env = r.env /\ s.item = r.item
    BY <2>2, <2>3, ScrollMoves
  <2> QED BY <2>4 DEF Handled, SameSessions, Aimed
<1>7. CASE k = "enter" /\ i < n
  <2>1. PICK t : t = [r EXCEPT !.item = x]
    OBVIOUS
  <2>2. t \in Hand /\ t.ui = r.ui /\ t.env = r.env /\ t.item = x
    BY <1>3, <1>7, <2>1 DEF Hand, Thing
  <2>3. s = Unlinked(t) \/ s = r
    BY <1>1, <1>7, <2>1 DEF HandleComputers
  <2>4. CASE s = Unlinked(t)
    <3>1. s \in Hand /\ s.ui = t.ui /\ s.item = t.item /\ SameSessions(t.env, s.env)
      BY <2>2, <2>4, UnlinkedMoves
    <3> QED BY <1>3, <1>7, <2>2, <3>1, HandleIdle DEF Handled, Aimed
  <2> QED BY <2>3, <2>4, HandleIdle
<1>8. CASE k = "enter" /\ ~(i < n)
  <2>1. PICK page : page = IF i = n THEN "AddComputer" ELSE "Main"
    OBVIOUS
  <2>2. s = Goto(r, page) /\ page \in Page \ {"WifiPassword"}
    BY <1>1, <1>8, <2>1, PageNames DEF HandleComputers
  <2> QED BY <2>2, HandleIdle, GotoHandled
<1>9. CASE ~(k = "del" /\ i < n) /\ k \notin {"esc", "up", "down", "enter"}
  <2>1. s = r
    BY <1>1, <1>9 DEF HandleComputers
  <2> QED BY <2>1, HandleIdle
<1> QED BY <1>4, <1>5, <1>6, <1>7, <1>8, <1>9
LEMMA HandleWifiHandled ==
  ASSUME NEW r \in Hand, r.ui.page = "Wifi", r.item = None, NEW k, NEW s, s = HandleWifi(r, k)
  PROVE  Handled(r, s)
<1> r.ui \in UiObject /\ r.env \in Lists
  BY DEF Hand
<1>1. PICK n, i : n = Len(r.env.wifi) /\ i = IF n > 0 /\ r.ui.selection >= n THEN n - 1 ELSE r.ui.selection
  OBVIOUS
<1>2. n \in Nat /\ r.env.wifi \in Seq(Ssid) /\ r.ui.selection \in Nat
  BY <1>1 DEF Lists, UiObject
<1>3. i \in Nat /\ (n > 0 => i < n)
  BY ONLY <1>1, <1>2
<1>4. PICK x, w : x = At(r.env.wifi, i) /\ w = [r.ui EXCEPT !.selection = i]
  OBVIOUS
<1>5. n > 0 => x \in Ssid /\ Highlighted(r.ui, r.env) \in {None, x}
  <2>1. n > 0 => x \in Ssid /\ HasIndex(r.env.wifi, i)
    BY <1>1, <1>2, <1>3, <1>4, AtIsListed
  <2>2. HasIndex(r.env.wifi, r.ui.selection) => i = r.ui.selection
    BY <1>1, <1>2 DEF HasIndex
  <2> QED BY <1>4, <2>1, <2>2 DEF Highlighted, ShowingCodex
<1>6. w \in UiObject /\ Moves(r.ui, w) /\ w.selection = i
  BY <1>3, <1>4 DEF UiObject, Moves, Screen, Knows
<1>7. PICK t : t = IF n > 0 /\ r.ui.selection >= n THEN [r EXCEPT !.ui.selection = n - 1] ELSE r
  OBVIOUS
<1>8. t \in Hand /\ t.ui = w /\ t.env = r.env /\ t.item = None
  <2>1. CASE n > 0 /\ r.ui.selection >= n
    <3>1. t = [r EXCEPT !.ui = w]
      BY <1>1, <1>4, <1>7, <2>1 DEF Hand
    <3> QED BY <1>6, <3>1 DEF Hand
  <2>2. CASE ~(n > 0 /\ r.ui.selection >= n)
    <3>1. w = r.ui
      BY <1>1, <1>4, <2>2 DEF UiObject
    <3> QED BY <1>7, <2>2, <3>1
  <2> QED BY <2>1, <2>2
<1>9. SameSessions(r.env, t.env) /\ Aimed(r, t) /\ Moves(r.ui, t.ui)
  BY <1>6, <1>8 DEF SameSessions, Aimed
<1>10. t.ui.selection = i
  BY <1>6, <1>8
<1>11. CASE k = "tab"
  <2>1. s = Scans(t)
    BY <1>1, <1>7, <1>11 DEF HandleWifi
  <2>2. s \in Hand /\ s.ui = t.ui /\ s.item = t.item /\ SameSessions(t.env, s.env)
    BY <1>8, <2>1, ScansMoves
  <2> QED BY <1>8, <1>9, <2>2 DEF Handled, Aimed
<1>12. CASE k = "del" /\ n > 0 /\ x \in t.env.saved
  <2>1. s = Forgotten(t, x)
    BY <1>1, <1>4, <1>7, <1>8, <1>10, <1>12 DEF HandleWifi
  <2>2. s \in Hand /\ s.ui = t.ui /\ s.item = x /\ SameSessions(t.env, s.env)
    BY <1>5, <1>8, <1>12, <2>1, ForgottenMoves
  <2> QED BY <1>5, <1>8, <1>9, <1>12, <2>2 DEF Handled, Aimed
<1>13. CASE k = "esc"
  <2>1. s = Goto(t, "Main") /\ "Main" \in Page \ {"WifiPassword"}
    BY <1>1, <1>7, <1>13, PageNames DEF HandleWifi
  <2> QED BY <1>8, <1>9, <2>1, GotoHandled
<1>14. CASE k \notin {"tab", "esc"} /\ ~(k = "del" /\ n > 0 /\ x \in t.env.saved) /\ n = 0
  <2>1. s = t
    BY <1>1, <1>4, <1>7, <1>8, <1>10, <1>14 DEF HandleWifi
  <2> QED BY <1>8, <1>9, <2>1 DEF Handled
<1>15. CASE n > 0 /\ k \in {"up", "down"}
  <2>1. s = Scroll(t, n, k)
    BY <1>1, <1>7, <1>15 DEF HandleWifi
  <2>2. n \in Nat \ {0}
    BY <1>2, <1>15
  <2>3. s \in Hand /\ Moves(t.ui, s.ui) /\ s.env = t.env /\ s.item = t.item
    BY <1>8, <2>1, <2>2, ScrollMoves
  <2>4. t.ui.page = r.ui.page
    BY <1>4, <1>8 DEF UiObject
  <2>5. Moves(r.ui, s.ui)
    BY <1>9, <2>3, <2>4 DEF Moves
  <2> QED BY <1>8, <1>9, <2>3, <2>5 DEF Handled, Aimed
<1>16. CASE n > 0 /\ k = "enter"
  <2>1. PICK y : y = [t EXCEPT !.item = x]
    OBVIOUS
  <2>2. x \in Ssid
    BY <1>5, <1>16
  <2>3. y \in Hand /\ y.ui = t.ui /\ y.env = t.env /\ y.item = x
    BY <1>8, <2>1, <2>2 DEF Hand, Thing
  <2>4. Aimed(r, y)
    BY <1>5, <1>16, <2>3 DEF Aimed
  <2>5. PICK j : j = Joins(y, x)
    OBVIOUS
  <2>6. j \in Hand /\ j.ui = y.ui /\ j.item = y.item /\ SameSessions(y.env, j.env)
    BY <2>2, <2>3, <2>5, JoinsMoves
  <2>7. Aimed(r, j) /\ SameSessions(r.env, j.env) /\ Moves(r.ui, j.ui)
    BY <1>8, <1>9, <2>3, <2>4, <2>6 DEF Aimed
  <2>8. CASE x \in t.env.saved \/ x \notin Encrypted
    <3>1. s = Goto(j, "Main") /\ "Main" \in Page \ {"WifiPassword"}
      BY <1>1, <1>4, <1>7, <1>8, <1>10, <1>16, <2>1, <2>5, <2>8, PageNames DEF HandleWifi
    <3> QED BY <2>6, <2>7, <3>1, GotoHandled
  <2>9. CASE x \notin t.env.saved /\ x \in Encrypted
    <3>1. PICK z, p : p = [t.ui EXCEPT !.pending = x, !.text = 0] /\ z = [t EXCEPT !.item = x, !.ui = p]
      OBVIOUS
    <3>2. 0 \in 0 .. CodeLength /\ t.ui \in UiObject
      BY <1>6, <1>8, UiAssumption
    <3>3. p.pending = x /\ p.page = "Wifi" /\ p \in UiObject
      <4>1. t.ui.page = "Wifi"
        BY <1>4, <1>8 DEF UiObject
      <4> QED BY <2>2, <3>1, <3>2, <4>1 DEF UiObject
    <3>4. Moves(t.ui, p)
      BY <2>2, <3>1, <3>2, <3>3 DEF UiObject, Moves, Screen, Knows
    <3>5. z \in Hand /\ z.ui = p /\ z.env = t.env /\ z.item = x
      BY <1>8, <2>2, <3>1, <3>3 DEF Hand, Thing
    <3>6. z = [t EXCEPT !.item = x, !.ui.pending = x, !.ui.text = 0]
      BY <1>8, <3>1, <3>2 DEF Hand, UiObject
    <3>7. s = Goto(z, "WifiPassword")
      BY <1>1, <1>4, <1>7, <1>8, <1>10, <1>16, <2>9, <3>6 DEF HandleWifi
    <3>8. x # None /\ "WifiPassword" \in Page
      BY <2>2, UiAssumption
    <3>9. s \in Hand /\ Moves(z.ui, s.ui) /\ s.ui.suppress = TRUE
      BY <3>3, <3>5, <3>7, <3>8, GotoMoves
    <3>10. s.env = z.env /\ s.item = z.item
      BY <3>5, <3>7 DEF Goto, Hand
    <3>11. Moves(r.ui, s.ui)
      <4>1. Moves(t.ui, s.ui)
        BY <3>4, <3>5, <3>9, MovesOn
      <4> QED BY <1>9, <3>9, <4>1, MovesOn
    <3> QED BY <1>5, <1>8, <1>9, <1>16, <3>5, <3>9, <3>10, <3>11 DEF Handled, Aimed
  <2> QED BY <2>8, <2>9
<1>17. CASE /\ k \notin {"tab", "esc", "up", "down", "enter"} /\ n > 0
            /\ ~(k = "del" /\ x \in t.env.saved)
  <2>1. s = t
    BY <1>1, <1>2, <1>4, <1>7, <1>8, <1>10, <1>17 DEF HandleWifi
  <2> QED BY <1>8, <1>9, <2>1 DEF Handled
<1> QED BY <1>2, <1>11, <1>12, <1>13, <1>14, <1>15, <1>16, <1>17
-----------------------------------------------------------------------------
(* The pages with the session: one that is listed and chosen stays, unless *)
(* left or right moves it or Enter opens the page of the sessions.         *)
Homed(v) == v.main > 0 => v.home = v.main - 1

SameSession(v, w) == w.agent = v.agent /\ w.chosen = v.chosen /\ w.focus = v.focus

Led(r, s, k) ==
  /\ s \in Hand /\ SameSessions(r.env, s.env) /\ Aimed(r, s)
  /\ s.ui.mode = r.ui.mode /\ (Screen(r.ui) => Screen(s.ui)) /\ (Knows(r.ui) => Knows(s.ui))
  /\ Homed(r.ui) => Homed(s.ui)
  /\ s.ui.suppress \/ s.ui.page = r.ui.page
  /\ ShowingCodex(r.ui) /\ Follows(r.ui) => s.ui.suppress \/ Follows(s.ui)
  /\ k \notin {"left", "right"} /\ r.ui.chosen # None /\ ShowingCodex(r.ui) /\ Follows(r.ui)
       => SameSession(r.ui, s.ui) \/ OpensCodex(r.ui, s.ui)

LEMMA HandledLed ==
  ASSUME NEW r \in Hand, NEW k, NEW s, Handled(r, s), r.env = e
  PROVE  Led(r, s, k)
BY DEF Handled, Led, Moves, Homed, SameSession, Follows

LEMMA HandleCodexLed ==
  ASSUME NEW r \in Hand, r.ui.page = "Codex", r.item = None, r.env = e, Follows(r.ui), e \in Lists,
         NEW k, NEW s, s = HandleCodex(r, k)
  PROVE  Led(r, s, k)
<1> r.ui \in UiObject
  BY DEF Hand
<1>1. PICK n : n = Len(e.agents)
  OBVIOUS
<1>2. n \in Nat /\ e.agents \in Seq(Session) /\ r.ui.agent \in Nat /\ DOMAIN e.agents = 1 .. n
  BY <1>1 DEF Lists, UiObject
<1>3. PICK v : v = IF n > 0 /\ r.ui.agent >= n THEN Choose(r.ui, e.agents, n - 1) ELSE r.ui
  OBVIOUS
<1>4. v \in UiObject /\ Beside(r.ui, v) /\ Follows(v) /\ (n > 0 => v.agent < n) /\ v.agent \in Nat
      /\ (n > 0 /\ HasIndex(e.agents, r.ui.agent) => v = r.ui)
  <2>1. CASE n > 0 /\ r.ui.agent >= n
    <3>1. PICK m : m = n - 1
      OBVIOUS
    <3>2. m \in Nat /\ m < Len(e.agents)
      BY <1>1, <1>2, <2>1, <3>1
    <3>3. v = Choose(r.ui, e.agents, m) /\ r.ui.focus = e.focus
      BY <1>3, <2>1, <3>1 DEF Follows
    <3>4. v \in UiObject /\ Follows(v) /\ Beside(r.ui, v)
      BY <3>2, <3>3, ChooseFollows
    <3>5. v.agent = m
      BY <3>3 DEF Choose, UiObject
    <3>6. ~HasIndex(e.agents, r.ui.agent)
      BY <1>2, <2>1 DEF HasIndex
    <3> QED BY <1>1, <3>2, <3>4, <3>5, <3>6
  <2>2. CASE ~(n > 0 /\ r.ui.agent >= n)
    <3>1. v = r.ui
      BY <1>3, <2>2
    <3> QED BY <1>2, <2>2, <3>1 DEF Beside
  <2> QED BY <2>1, <2>2
<1>5. r.ui.chosen # None => v = r.ui /\ n > 0
  <2>1. r.ui.chosen # None => HasIndex(e.agents, r.ui.agent)
    BY DEF Follows
  <2>2. HasIndex(e.agents, r.ui.agent) => n > 0
    BY <1>2 DEF HasIndex
  <2> QED BY <1>4, <2>1, <2>2
<1>6. PICK t : t = [r EXCEPT !.ui = v]
  OBVIOUS
<1>7. t \in Hand /\ t.ui = v /\ t.env = e /\ t.item = None
  BY <1>4, <1>6 DEF Hand
<1>8. Led(r, t, k)
  BY <1>4, <1>5, <1>7 DEF Led, SameSessions, Aimed, Beside, Screen, Knows, Homed, SameSession
<1>9. CASE k \in {"esc", "del"}
  <2>1. s = Goto(t, "Main") /\ "Main" \in Page /\ "Main" # "WifiPassword"
    BY <1>1, <1>3, <1>6, <1>9, UiAssumption DEF HandleCodex
  <2>2. s \in Hand /\ Moves(t.ui, s.ui) /\ s.ui.suppress = TRUE
    BY <1>7, <2>1, GotoMoves
  <2>3. s.env = t.env /\ s.item = t.item
    BY <1>7, <2>1 DEF Goto, Hand
  <2>4. SameSession(t.ui, s.ui) /\ s.ui.mode = t.ui.mode
    BY <2>2 DEF Moves, SameSession
  <2>5. /\ s \in Hand /\ SameSessions(r.env, s.env) /\ Aimed(r, s) /\ s.ui.mode = r.ui.mode
        /\ (Screen(r.ui) => Screen(s.ui)) /\ (Knows(r.ui) => Knows(s.ui))
        /\ Homed(r.ui) => Homed(s.ui)
    BY <1>7, <1>8, <2>2, <2>3, <2>4 DEF Led, Moves, Aimed, Homed
  <2>6. r.ui.chosen # None => SameSession(r.ui, s.ui)
    BY <1>5, <1>7, <2>4
  <2> QED BY <2>2, <2>5, <2>6 DEF Led
<1>10. CASE k \notin {"esc", "del"} /\ n = 0
  <2>1. s = t
    BY <1>1, <1>3, <1>6, <1>10 DEF HandleCodex
  <2> QED BY <1>8, <2>1
<1>11. CASE n > 0 /\ k \in {"left", "right"}
  <2>1. PICK i, d : i = v.agent /\ d = Steps(k)
    OBVIOUS
  <2>2. i \in Int /\ d \in Int /\ n \in Nat \ {0}
    BY <1>2, <1>4, <1>11, <2>1 DEF Steps
  <2>3. PICK j : j = Around(i, n, d)
    OBVIOUS
  <2>4. j \in 0 .. n - 1
    BY <2>2, <2>3, AroundFits
  <2>5. j \in Nat /\ j < Len(e.agents)
    BY <1>1, <1>2, <2>4
  <2>6. PICK w : w = Choose(v, e.agents, j)
    OBVIOUS
  <2>7. v.focus = e.focus
    BY <1>4 DEF Follows
  <2>8. w \in UiObject /\ Follows(w) /\ Beside(v, w)
    BY <1>4, <2>5, <2>6, <2>7, ChooseFollows
  <2>9. s = [t EXCEPT !.ui = w]
    BY <1>1, <1>3, <1>6, <1>11, <2>1, <2>3, <2>6 DEF HandleCodex
  <2>10. s \in Hand /\ s.ui = w /\ s.env = e /\ s.item = None
    BY <1>7, <2>8, <2>9 DEF Hand
  <2> QED BY <1>4, <1>11, <2>8, <2>10
       DEF Led, SameSessions, Aimed, Beside, Screen, Knows, Homed
<1>12. CASE n > 0 /\ k = "enter"
  <2>1. PICK x : x = At(e.agents, v.agent)
    OBVIOUS
  <2>2. x \in Session /\ HasIndex(e.agents, v.agent)
    BY <1>1, <1>2, <1>4, <1>12, <2>1, AtIsListed
  <2>3. s = [t EXCEPT !.item = x]
    BY <1>1, <1>3, <1>6, <1>12, <2>1 DEF HandleCodex
  <2>4. s \in Hand /\ s.ui = t.ui /\ s.env = t.env /\ s.item = x
    BY <1>7, <2>2, <2>3 DEF Hand, Thing
  <2>5. Highlighted(r.ui, r.env) \in {None, x}
    BY <1>4, <1>12, <2>1 DEF Highlighted, ShowingCodex
  <2> QED BY <1>8, <2>4, <2>5 DEF Led, Aimed
<1>13. CASE n > 0 /\ k \notin {"esc", "del", "left", "right", "enter"}
  <2>1. s = t
    BY <1>1, <1>3, <1>6, <1>13 DEF HandleCodex
  <2> QED BY <1>8, <2>1
<1> QED BY <1>2, <1>9, <1>10, <1>11, <1>12, <1>13
LEMMA MainMoveFits ==
  ASSUME NEW k \in DOMAIN MainMove, NEW m \in 1 .. 4
  PROVE  MainMove[k][m] \in 0 .. 4
<1>1. k \in {"left", "right", "up", "down"}
  BY DEF MainMove
<1>2. m \in {1, 2, 3, 4}
  OBVIOUS
<1> QED BY <1>1, <1>2 DEF MainMove

LEMMA MainMovedStays ==
  ASSUME NEW v \in UiObject, NEW k, NEW w,
         w = Remembered(IF k \in DOMAIN MainMove THEN MainMoved(v, k) ELSE v)
  PROVE  /\ w \in UiObject /\ Homed(w) /\ SameSession(v, w) /\ w.page = v.page /\ w.mode = v.mode
         /\ w.screenOff = v.screenOff /\ w.dimmed = v.dimmed /\ w.pending = v.pending
<1>1. PICK m : m = IF k \notin DOMAIN MainMove THEN v.main
                   ELSE IF v.main # 0 THEN MainMove[k][v.main]
                   ELSE IF k = "right" THEN v.home + 1 ELSE v.main
  OBVIOUS
<1>2. v.main \in 0 .. 4 /\ v.home \in 0 .. 3
  BY DEF UiObject
<1>3. m \in 0 .. 4
  <2>1. CASE k \in DOMAIN MainMove /\ v.main # 0
    <3>1. v.main \in 1 .. 4
      BY <1>2, <2>1
    <3> QED BY <1>1, <2>1, <3>1, MainMoveFits
  <2>2. CASE ~(k \in DOMAIN MainMove /\ v.main # 0)
    BY <1>1, <1>2, <2>2
  <2> QED BY <2>1, <2>2
<1>4. PICK x : x = IF k \in DOMAIN MainMove THEN MainMoved(v, k) ELSE v
  OBVIOUS
<1>5. x = [v EXCEPT !.main = m]
  BY <1>1, <1>4 DEF MainMoved, UiObject
<1>6. x \in UiObject /\ x.main = m /\ SameSession(v, x) /\ x.page = v.page /\ x.mode = v.mode
      /\ x.screenOff = v.screenOff /\ x.dimmed = v.dimmed /\ x.pending = v.pending
  BY <1>3, <1>5 DEF UiObject, SameSession
<1>7. w = Remembered(x)
  BY <1>4
<1>8. CASE m > 0
  <2>1. PICK h : h = m - 1
    OBVIOUS
  <2>2. h \in 0 .. 3
    BY <1>3, <1>8, <2>1
  <2>3. w = [x EXCEPT !.home = h]
    BY <1>6, <1>7, <1>8, <2>1 DEF Remembered
  <2> QED BY <1>6, <2>1, <2>2, <2>3 DEF UiObject, Homed, SameSession
<1>9. CASE ~(m > 0)
  BY <1>6, <1>7, <1>9 DEF Remembered, Homed
<1> QED BY <1>8, <1>9

LEMMA HandleMainLed ==
  ASSUME NEW r \in Hand, r.ui.page = "Main", r.item = None, r.env = e,
         NEW k, NEW s, s = HandleMain(r, k)
  PROVE  Led(r, s, k)
<1> r.ui \in UiObject
  BY DEF Hand
<1>1. PICK v, t : /\ v = Remembered(IF k \in DOMAIN MainMove THEN MainMoved(r.ui, k) ELSE r.ui)
                  /\ t = [r EXCEPT !.ui = v]
  OBVIOUS
<1>2. /\ v \in UiObject /\ Homed(v) /\ SameSession(r.ui, v) /\ v.page = "Main" /\ v.mode = r.ui.mode
      /\ v.screenOff = r.ui.screenOff /\ v.dimmed = r.ui.dimmed /\ v.pending = r.ui.pending
  BY <1>1, MainMovedStays
<1>3. t \in Hand /\ t.ui = v /\ t.env = e /\ t.item = None
  BY <1>1, <1>2 DEF Hand
<1>4. Led(r, t, k)
  BY <1>2, <1>3 DEF Led, SameSessions, Aimed, Screen, Knows, SameSession, Follows
<1>5. CASE k # "enter"
  <2>1. s = t
    BY <1>1, <1>5 DEF HandleMain
  <2> QED BY <1>4, <2>1
<1>6. ASSUME NEW y \in Hand, y.ui = v, y.item = None, SameSessions(e, y.env),
             NEW page \in Page \ {"WifiPassword"}, s = Goto(y, page)
      PROVE  Led(r, s, k)
  <2>1. page \in Page /\ (page = "WifiPassword" => y.ui.pending # None)
    OBVIOUS
  <2>2. s \in Hand /\ Moves(y.ui, s.ui) /\ s.ui.suppress = TRUE
    <3>1. s \in Hand
      BY <1>6, <2>1, GotoMoves
    <3>2. Moves(y.ui, s.ui)
      BY <1>6, <2>1, GotoMoves
    <3>3. s.ui.suppress = TRUE
      BY <1>6, <2>1, GotoMoves
    <3> QED BY <3>1, <3>2, <3>3
  <2>3. s.env = y.env /\ s.item = None
    BY <1>6 DEF Goto, Hand
  <2> QED BY <1>2, <1>4, <1>3, <1>6, <2>2, <2>3 DEF Led, Moves, SameSessions, Aimed, Screen, Knows, SameSession, Homed
<1>7. CASE k = "enter" /\ v.main = 0
  <2>1. PICK x, w : x = [v EXCEPT !.focus = NoFocus, !.chosen = None] /\ w = SetPage(x, "Codex", TRUE)
    OBVIOUS
  <2>2. NoFocus \in Focus /\ None \in Session \cup {None} /\ "Codex" \in Page
    BY UiAssumption DEF NoFocus, Focus
  <2>3. x \in UiObject /\ x.mode = v.mode /\ x.screenOff = v.screenOff /\ x.dimmed = v.dimmed
        /\ x.main = v.main /\ x.home = v.home /\ x.chosen = None /\ x.focus = NoFocus
    BY <1>2, <2>1, <2>2 DEF UiObject
  <2>4. w \in UiObject /\ w.page = "Codex" /\ w.suppress = TRUE /\ w.mode = x.mode
        /\ w.screenOff = x.screenOff /\ w.dimmed = x.dimmed /\ w.main = x.main /\ w.home = x.home
        /\ w.chosen = x.chosen /\ w.focus = x.focus
    <3>1. w \in UiObject /\ w.page = "Codex" /\ w.suppress = TRUE
      BY <2>1, <2>2, <2>3, SetPageKeeps
    <3>2. w.mode = x.mode /\ w.screenOff = x.screenOff /\ w.dimmed = x.dimmed
          /\ w.main = x.main /\ w.home = x.home /\ w.chosen = x.chosen /\ w.focus = x.focus
      <4>1. w = SetPage(x, "Codex", TRUE) /\ x \in UiObject
        BY <2>1, <2>3
      <4> QED BY <4>1 DEF SetPage, UiObject
    <3> QED BY <3>1, <3>2
  <2>5. s = [t EXCEPT !.ui = w]
    BY <1>1, <1>7, <2>1 DEF HandleMain, ShowCodex
  <2>6. s \in Hand /\ s.ui = w /\ s.env = e /\ s.item = None
    BY <1>3, <2>4, <2>5 DEF Hand
  <2>7. OpensCodex(r.ui, s.ui)
    BY <2>3, <2>4, <2>6 DEF OpensCodex, Main
  <2> QED BY <1>2, <2>3, <2>4, <2>6, <2>7 DEF Led, SameSessions, Aimed, Screen, Knows, Homed
<1>8. CASE k = "enter" /\ v.main = 1
  <2>1. PICK y : y = Scans(t)
    OBVIOUS
  <2>2. y \in Hand /\ y.ui = t.ui /\ y.item = t.item /\ SameSessions(t.env, y.env)
    BY <1>3, <2>1, ScansMoves
  <2>3. s = Goto(y, "Wifi") /\ "Wifi" \in Page \ {"WifiPassword"}
    BY <1>1, <1>8, <2>1, PageNames DEF HandleMain
  <2> QED BY <1>3, <1>6, <2>2, <2>3
<1>9. CASE k = "enter" /\ v.main \in {2, 3, 4}
  <2>1. PICK page : page = IF v.main = 2 THEN "Computers" ELSE IF v.main = 3 THEN "Brightness" ELSE "ScreenOff"
    OBVIOUS
  <2>2. page \in Page \ {"WifiPassword"}
    BY <2>1, PageNames
  <2>3. s = Goto(t, page)
    BY <1>1, <1>9, <2>1 DEF HandleMain
  <2>4. SameSessions(e, t.env)
    BY <1>3 DEF SameSessions
  <2> QED BY <1>3, <1>6, <2>2, <2>3, <2>4
<1>10. v.main \in {0, 1, 2, 3, 4}
  BY <1>2 DEF UiObject
<1> QED BY <1>5, <1>7, <1>8, <1>9, <1>10

(* What a handler does, on every page.                                     *)
LEMMA HandleInputLed ==
  ASSUME NEW r \in Hand, r.item = None, r.env = e, e \in Lists, Knows(r.ui),
         r.ui.page = "Codex" => Follows(r.ui), NEW k, NEW s, s = HandleInput(r, k)
  PROVE  Led(r, s, k)
<1>1. r.ui.page \in Page
  BY DEF Hand, UiObject
<1>2. CASE r.ui.page = "Main"
  <2>1. s = HandleMain(r, k)
    BY <1>2 DEF HandleInput
  <2> QED BY <1>2, <2>1, HandleMainLed
<1>3. CASE r.ui.page = "Codex"
  <2>1. s = HandleCodex(r, k)
    BY <1>3 DEF HandleInput
  <2> QED BY <1>3, <2>1, HandleCodexLed
<1>4. CASE r.ui.page \notin {"Main", "Codex"}
  <2>1. CASE r.ui.page = "Wifi"
    <3>1. s = HandleWifi(r, k)
      BY <2>1 DEF HandleInput
    <3> QED BY <2>1, <3>1, HandleWifiHandled, HandledLed
  <2>2. CASE r.ui.page = "WifiPassword"
    <3>1. s = HandlePassword(r, k)
      BY <2>2 DEF HandleInput
    <3> QED BY <2>2, <3>1, HandlePasswordHandled, HandledLed
  <2>3. CASE r.ui.page = "Computers"
    <3>1. s = HandleComputers(r, k)
      BY <2>3 DEF HandleInput
    <3> QED BY <2>3, <3>1, HandleComputersHandled, HandledLed
  <2>4. CASE r.ui.page = "AddComputer"
    <3>1. s = HandleAddComputer(r, k)
      BY <2>4 DEF HandleInput
    <3> QED BY <2>4, <3>1, HandleAddComputerHandled, HandledLed
  <2>5. CASE r.ui.page = "PairCode"
    <3>1. s = HandlePairCode(r, k)
      BY <2>5 DEF HandleInput
    <3> QED BY <3>1, HandlePairCodeHandled, HandledLed
  <2>6. CASE r.ui.page = "Brightness"
    <3>1. s = HandleBrightness(r, k)
      BY <2>6 DEF HandleInput
    <3> QED BY <3>1, HandleBrightnessHandled, HandledLed
  <2>7. CASE r.ui.page = "ScreenOff"
    <3>1. s = HandleScreenOff(r, k)
      BY <2>7 DEF HandleInput
    <3> QED BY <3>1, HandleScreenOffHandled, HandledLed
  <2> QED BY <1>1, <1>4, <2>1, <2>2, <2>3, <2>4, <2>5, <2>6, <2>7, UiAssumption
<1> QED BY <1>2, <1>3, <1>4
-----------------------------------------------------------------------------
(* What v is to the state before the tick.                                 *)
Ready(v, clicked, held) ==
  /\ v \in UiObject /\ Screen(v) /\ Homed(v) /\ Knows(v)
  /\ clicked \/ v.mode = u.mode \/ (v.mode = "Local" /\ e.link = "awaiting")
  /\ held => \/ v.suppress
             \/ v.mode = u.mode /\ v.page = u.page /\ v.selection = u.selection /\ ~u.suppress
  /\ held /\ ~clicked /\ u.screenOff /\ v.mode = "Local" => v.suppress
  /\ ShowingCodex(v) => Follows(v) /\ v.page = u.page
  /\ ShowingCodex(v) /\ u.focus = e.focus /\ u.chosen = None => SameSession(u, v)
  /\ ShowingCodex(v) /\ u.focus = e.focus /\ u.chosen # None /\ u.chosen \in Range(e.agents)
       => v.chosen = u.chosen

(* A tick, up to the handlers: what is known of the object v that is then  *)
(* to handle a key.                                                        *)
LEMMA PreparedReady ==
  ASSUME u \in UiObject, e \in Lists, Screen(u), Homed(u), Knows(u),
         NEW clicked \in BOOLEAN, NEW held \in BOOLEAN,
         NEW d, d = Powered(clicked, held), NEW v, v = Prepared(d, held)
  PROVE  Ready(v, clicked, held) /\ (held => v.suppress \/ ~Funnelled(d))
<1>1. /\ d \in UiObject /\ Kept(u, d) /\ Screen(d)
      /\ clicked \/ d.mode = u.mode
      /\ Waits(u, d, held)
      /\ held /\ ~clicked /\ u.screenOff /\ d.mode = "Local" => d.suppress
  BY PoweredKeeps
<1>2. PICK x : x = Interrupted(d, held)
  OBVIOUS
<1>3. /\ x \in UiObject /\ Screen(x) /\ Turned(d, x, held)
      /\ x.mode = d.mode \/ (x.mode = "Local" /\ e.link = "awaiting")
      /\ x.page # d.page => x.suppress = held
      /\ Funnelled(d) => x.suppress = held
  BY <1>1, <1>2, InterruptedTurns
<1>4. v = FollowAgents(x)
  BY <1>2 DEF Prepared
<1>5. /\ v \in UiObject /\ Beside(x, v)
      /\ ShowingCodex(x) => Follows(v)
      /\ ~ShowingCodex(x) => v = x
      /\ x.focus = e.focus /\ x.chosen = None => v = x
      /\ x.focus = e.focus /\ x.chosen # None /\ x.chosen \in Range(e.agents) => v.chosen = x.chosen
  BY <1>3, <1>4, FollowAgentsFollows
<1>6. Screen(v) /\ Homed(v)
  BY <1>1, <1>3, <1>5 DEF Screen, Homed, Beside, Turned, Kept
<1>7. Knows(v)
  BY <1>1, <1>3, <1>5 DEF Knows, Beside, Turned, Kept
<1>8. clicked \/ v.mode = u.mode \/ (v.mode = "Local" /\ e.link = "awaiting")
  BY <1>1, <1>3, <1>5 DEF Beside
<1>9. ASSUME held
      PROVE  \/ v.suppress
             \/ /\ v.mode = u.mode /\ v.page = u.page /\ v.selection = u.selection
                /\ ~u.suppress /\ ~Funnelled(d)
  <2>1. CASE x.suppress
    BY <1>5, <2>1 DEF Beside
  <2>2. CASE ~x.suppress
    <3>1. Kept(d, x) /\ x.mode = d.mode /\ x.suppress = d.suppress /\ ~Funnelled(d)
      BY <1>3, <1>9, <2>2 DEF Turned
    <3>2. d.mode = u.mode /\ ~u.suppress
      BY <1>1, <1>9, <2>2, <3>1 DEF Waits
    <3> QED BY <1>1, <1>5, <3>1, <3>2 DEF Kept, Beside
  <2> QED BY <2>1, <2>2
<1>10. held /\ ~clicked /\ u.screenOff /\ v.mode = "Local" => v.suppress
  BY <1>1, <1>3, <1>5 DEF Turned, Beside
<1>11. ASSUME ShowingCodex(v)
       PROVE  Kept(u, x) /\ ShowingCodex(x)
  <2>1. ShowingCodex(x)
    BY <1>5, <1>11 DEF ShowingCodex, Beside
  <2>2. Kept(d, x)
    BY <1>3, <2>1 DEF Turned, ShowingCodex
  <2> QED BY <1>1, <2>1, <2>2 DEF Kept
<1>12. ShowingCodex(v) => Follows(v) /\ v.page = u.page
  BY <1>5, <1>11 DEF Kept, Beside
<1>13. ShowingCodex(v) /\ u.focus = e.focus /\ u.chosen = None => SameSession(u, v)
  BY <1>5, <1>11 DEF Kept, SameSession
<1>14. ShowingCodex(v) /\ u.focus = e.focus /\ u.chosen # None /\ u.chosen \in Range(e.agents)
         => v.chosen = u.chosen
  BY <1>5, <1>11 DEF Kept
<1> QED BY <1>5, <1>6, <1>7, <1>8, <1>9, <1>10, <1>12, <1>13, <1>14 DEF Ready

(* What r is to v: a key was handled with the lists as they were, or none. *)
Done(v, r, down, k) ==
  /\ r \in Hand
  /\ Acts(v, down) => Led([ui |-> v, env |-> e, item |-> None], r, k)
  /\ ~Acts(v, down) => r.ui = v /\ SameSessions(e, r.env) /\ r.item = None

LEMMA TickTaken ==
  ASSUME u \in UiObject, e \in Lists, Screen(u), Homed(u), Knows(u),
         NEW clicked \in BOOLEAN, NEW down \in 0 .. 2, NEW kept \in 0 .. 2, NEW k, NEW due \in BOOLEAN,
         Tick(clicked, down, kept, k, due)
  PROVE  \E v, r : /\ Ready(v, clicked, down > 0) /\ Done(v, r, down, k)
                   /\ Ticked(v, r, clicked, down, kept, k, due)
<1>1. (down > 0) \in BOOLEAN
  OBVIOUS
<1>2. PICK d : /\ d = Powered(clicked, down > 0)
               /\ \E v \in {Prepared(d, down > 0)} : \E r \in {Routed(d, v, down, k)} :
                    Ticked(v, r, clicked, down, kept, k, due)
  BY DEF Tick
<1>3. PICK v : /\ v = Prepared(d, down > 0)
               /\ \E r \in {Routed(d, v, down, k)} : Ticked(v, r, clicked, down, kept, k, due)
  BY <1>2
<1>4. PICK r : r = Routed(d, v, down, k) /\ Ticked(v, r, clicked, down, kept, k, due)
  BY <1>3
<1>5. /\ Ready(v, clicked, down > 0)
      /\ down > 0 => v.suppress \/ ~Funnelled(d)
  BY <1>1, <1>2, <1>3, PreparedReady
<1>6. PICK env : env = IF Funnelled(d) THEN [e EXCEPT !.setup = FALSE, !.wifi = <<>>] ELSE e
  OBVIOUS
<1>7. env \in Lists /\ SameSessions(e, env)
  <2>1. <<>> \in Seq(Ssid)
    OBVIOUS
  <2> QED BY <1>6, <2>1 DEF Lists, SameSessions
<1>8. PICK b : b = [ui |-> v, env |-> env, item |-> None]
  OBVIOUS
<1>9. b \in Hand /\ b.ui = v /\ b.env = env /\ b.item = None
  BY <1>5, <1>7, <1>8 DEF Hand, Ready
<1>10. CASE Acts(v, down)
  <2>1. env = e
    BY <1>5, <1>6, <1>10 DEF Acts
  <2>2. r = HandleInput(b, k)
    BY <1>4, <1>6, <1>8, <1>10 DEF Routed
  <2>3. v.page = "Codex" => Follows(v)
    BY <1>5 DEF Ready, ShowingCodex
  <2>4. Led(b, r, k)
    BY <1>5, <1>9, <2>1, <2>2, <2>3, HandleInputLed DEF Ready
  <2>5. Done(v, r, down, k)
    BY <1>8, <1>10, <2>1, <2>4 DEF Done, Led
  <2> QED BY <1>4, <1>5, <2>5
<1>11. CASE ~Acts(v, down)
  <2>1. r = b
    BY <1>4, <1>6, <1>8, <1>11 DEF Routed
  <2>2. Done(v, r, down, k)
    BY <1>7, <1>9, <1>11, <2>1 DEF Done
  <2> QED BY <1>4, <1>5, <2>2
<1> QED BY <1>10, <1>11
-----------------------------------------------------------------------------
(* The invariant, a tick first.                                            *)
LEMMA HighlightedFits ==
  ASSUME NEW v \in UiObject, NEW f \in Lists
  PROVE  Highlighted(v, f) \in Thing \cup {None}
<1>1. /\ f.agents \in Seq(Session) /\ f.wifi \in Seq(Ssid)
      /\ f.paired \in Seq(Mac) /\ f.discovered \in Seq(Mac)
  BY DEF Lists
<1>2. /\ HasIndex(f.agents, v.agent) => At(f.agents, v.agent) \in Thing
      /\ HasIndex(f.wifi, v.selection) => At(f.wifi, v.selection) \in Thing
      /\ HasIndex(f.paired, v.selection) => At(f.paired, v.selection) \in Thing
      /\ HasIndex(f.discovered, v.selection) => At(f.discovered, v.selection) \in Thing
  BY <1>1 DEF HasIndex, At, Thing
<1> QED BY <1>2 DEF Highlighted, ShowingCodex

LEMMA FollowedIsHighlighted ==
  ASSUME NEW v, ShowingCodex(v), Follows(v), v.chosen # None, NEW f, SameSessions(e, f)
  PROVE  Highlighted(v, f) = v.chosen
<1>1. f.agents = e.agents /\ HasIndex(e.agents, v.agent) /\ At(e.agents, v.agent) = v.chosen
  BY DEF Follows, SameSessions
<1>2. Highlighted(v, f) = IF HasIndex(f.agents, v.agent) THEN At(f.agents, v.agent) ELSE None
  BY DEF Highlighted, ShowingCodex
<1> QED BY <1>1, <1>2

LEMMA TickKeeps ==
  ASSUME UiInv, NEW clicked \in BOOLEAN, NEW down \in 0 .. 2, NEW kept \in 0 .. 2, NEW k,
         NEW due \in BOOLEAN, due \/ shown = Unknown, Tick(clicked, down, kept, k, due)
  PROVE  /\ UiInv' /\ ~deed'.stray /\ ~deed'.astray
         /\ u'.mode # u.mode => deed'.touched \/ (u'.mode = "Local" /\ e.link = "awaiting")
         /\ /\ ShowingCodex(u) /\ ShowingCodex(u') /\ u.focus = e.focus
            /\ u.chosen # None /\ u.chosen \in Range(e.agents)
            => \/ u'.chosen = u.chosen /\ shown' \in {shown, u.chosen, None}
               \/ deed'.moved
               \/ deed'.touched /\ OpensCodex(u, u')
<1>1. /\ u \in UiObject /\ e \in Lists /\ Screen(u) /\ Homed(u) /\ Knows(u)
      /\ StrayWaits /\ ShownFollows /\ keys \in [down : 0 .. 2, stray : BOOLEAN]
      /\ shown \in Thing \cup {None, Unknown}
  BY DEF UiInv, UiTypeOK, Screen, Homed, Knows, Thing
<1>2. PICK v, r : /\ Ready(v, clicked, down > 0) /\ Done(v, r, down, k)
                  /\ Ticked(v, r, clicked, down, kept, k, due)
  BY <1>1, TickTaken
<1>3. u' = r.ui /\ e' = r.env /\ r.ui \in UiObject /\ r.env \in Lists
  BY <1>2 DEF Ticked, Done, Hand
<1>4. PICK b : b = [ui |-> v, env |-> e, item |-> None]
  OBVIOUS
<1>5. b.ui = v /\ b.env = e /\ (Acts(v, down) => Led(b, r, k))
  BY <1>2, <1>4 DEF Done
<1>6. ~Acts(v, down) => r.ui = v /\ r.item = None
  BY <1>2 DEF Done
<1>7. SameSessions(e, r.env)
  BY <1>2, <1>5 DEF Done, Led
<1>8. Acts(v, down) => v.mode = u.mode /\ v.page = u.page /\ v.selection = u.selection /\ ~u.suppress
  BY <1>2 DEF Acts, Ready
<1>9. Acts(v, down) => ~Stray(clicked, down, kept) /\ Same(u, v)
  BY <1>1, <1>2, <1>8 DEF Acts, Ready, Stray, Same, StrayWaits
<1>10. /\ Screen(r.ui) /\ Homed(r.ui) /\ Knows(r.ui) /\ r.ui.mode = v.mode
  BY <1>2, <1>5, <1>6 DEF Ready, Led
<1>11. /\ keys'.stray <=> down > 0 /\ (Stray(clicked, down, kept) \/ ~Same(u, r.ui))
       /\ deed'.stray <=> Acts(v, down) /\ (Stray(clicked, down, kept) \/ ~Same(u, v))
       /\ deed'.astray <=> r.item # None /\ shown \notin {r.item, Unknown, None}
       /\ deed'.moved <=> Acts(v, down) /\ k \in {"left", "right"}
       /\ deed'.touched <=> down > 0 \/ clicked
  BY <1>2 DEF Ticked
<1>12. /\ keys' \in [down : 0 .. 2, stray : BOOLEAN]
       /\ deed' \in [stray : BOOLEAN, astray : BOOLEAN, moved : BOOLEAN, touched : BOOLEAN]
  BY <1>2 DEF Ticked
<1>13. shown' = IF r.ui.screenOff THEN None
               ELSE IF due \/ Acts(v, down) \/ Redraws(u, r.ui) THEN Highlighted(r.ui, r.env)
               ELSE shown
  BY <1>2 DEF Ticked
<1>14. UiTypeOK'
  <2>1. Highlighted(r.ui, r.env) \in Thing \cup {None}
    BY <1>3, HighlightedFits
  <2>2. shown' \in Thing \cup {None, Unknown}
    BY <1>1, <1>13, <2>1
  <2>3. budget' = budget /\ budget \in 0 .. Disturbances
    BY <1>2 DEF Ticked, UiInv, UiTypeOK
  <2> QED BY <1>3, <1>10, <1>12, <2>2, <2>3 DEF UiTypeOK, Screen, Homed, Knows, Thing
<1>15. ~deed'.stray
  BY <1>9, <1>11
<1>16. StrayWaits'
  <2>1. CASE Acts(v, down)
    <3>1. r.ui.suppress \/ Same(u, r.ui)
      BY <1>5, <1>8, <2>1 DEF Led, Same
    <3> QED BY <1>3, <1>9, <1>11, <2>1, <3>1 DEF StrayWaits
  <2>2. CASE ~Acts(v, down)
    <3>1. SUFFICES ASSUME down > 0, Stray(clicked, down, kept) \/ ~Same(u, v), ~v.suppress
                   PROVE  v.mode = "Remote"
      BY <1>3, <1>6, <1>11, <2>2 DEF StrayWaits
    <3>2. v.mode = u.mode /\ v.page = u.page /\ ~u.suppress
      BY <1>2, <3>1 DEF Ready
    <3>3. Stray(clicked, down, kept)
      BY <3>1, <3>2 DEF Same
    <3>4. v.mode \in {"Local", "Remote"}
      BY <1>2 DEF Ready, UiObject
    <3> QED BY <1>1, <1>2, <3>1, <3>2, <3>3, <3>4 DEF Stray, StrayWaits, Ready
  <2> QED BY <2>1, <2>2
<1>17. ~deed'.astray
  <2>1. SUFFICES ASSUME r.item # None, shown \notin {Unknown, None}
                 PROVE  shown = r.item
    BY <1>11
  <2>2. Acts(v, down) /\ Highlighted(v, e) \in {None, r.item}
    BY <1>5, <1>6, <2>1 DEF Led, Aimed
  <2>3. CASE ShowingCodex(u) /\ u.chosen = None
    <3>1. u.focus = e.focus /\ shown = Highlighted(u, e)
      BY <1>1, <1>8, <2>1, <2>2, <2>3 DEF ShownFollows
    <3>2. ShowingCodex(v) /\ SameSession(u, v)
      BY <1>2, <1>8, <2>2, <2>3, <3>1 DEF ShowingCodex, Ready
    <3>3. Highlighted(v, e) = Highlighted(u, e)
      BY <2>3, <3>2 DEF Highlighted, SameSession
    <3> QED BY <2>1, <2>2, <3>1, <3>3
  <2>4. CASE ShowingCodex(u) /\ u.chosen # None
    <3>1. u.focus = e.focus /\ shown = u.chosen /\ u.chosen \in Range(e.agents)
      BY <1>1, <1>8, <2>1, <2>2, <2>4 DEF ShownFollows
    <3>2. ShowingCodex(v)
      BY <1>8, <2>2, <2>4 DEF ShowingCodex
    <3>3. Follows(v) /\ v.chosen = u.chosen
      BY <1>2, <2>4, <3>1, <3>2 DEF Ready
    <3>4. SameSessions(e, e)
      BY DEF SameSessions
    <3>5. Highlighted(v, e) = u.chosen
      BY <2>4, <3>2, <3>3, <3>4, FollowedIsHighlighted
    <3> QED BY <2>1, <2>2, <3>1, <3>5
  <2>5. CASE ~ShowingCodex(u)
    <3>1. shown = Highlighted(u, e)
      BY <1>1, <1>8, <2>1, <2>2, <2>5 DEF ShownFollows
    <3>2. Highlighted(v, e) = Highlighted(u, e)
      BY <1>8, <2>2, <2>5 DEF Highlighted, ShowingCodex
    <3> QED BY <2>1, <2>2, <3>1, <3>2
  <2> QED BY <2>3, <2>4, <2>5
<1>18. ShowingCodex(r.ui) => r.ui.suppress \/ Follows(r.ui)
  <2>1. CASE Acts(v, down)
    BY <1>2, <1>5, <2>1 DEF Led, Ready, ShowingCodex
  <2>2. CASE ~Acts(v, down)
    BY <1>2, <1>6, <2>2 DEF Ready
  <2> QED BY <2>1, <2>2
<1>19. ShownFollows'
  <2>1. CASE shown' \in {None, Unknown}
    BY <2>1 DEF ShownFollows
  <2>2. CASE shown' \notin {None, Unknown}
    <3>1. shown' = Highlighted(r.ui, r.env)
      BY <1>13, <2>2
    <3>2. CASE ~ShowingCodex(r.ui)
      BY <1>3, <3>1, <3>2 DEF ShownFollows, ShowingCodex, Highlighted
    <3>3. CASE ShowingCodex(r.ui) /\ r.ui.suppress
      BY <1>3, <3>3 DEF ShownFollows
    <3>4. CASE ShowingCodex(r.ui) /\ ~r.ui.suppress
      <4>1. Follows(r.ui) /\ r.ui.focus = r.env.focus
        BY <1>7, <1>18, <3>4 DEF Follows, SameSessions
      <4>2. CASE r.ui.chosen = None
        BY <1>3, <3>1, <3>4, <4>1, <4>2 DEF ShownFollows, ShowingCodex, Highlighted
      <4>3. CASE r.ui.chosen # None
        <5>1. Highlighted(r.ui, r.env) = r.ui.chosen
          BY <1>7, <3>4, <4>1, <4>3, FollowedIsHighlighted
        <5>2. r.ui.chosen \in Range(r.env.agents)
          BY <1>7, <4>1, <4>3 DEF Follows, SameSessions
        <5> QED BY <1>3, <3>1, <3>4, <4>1, <4>3, <5>1, <5>2 DEF ShownFollows, ShowingCodex
      <4> QED BY <4>2, <4>3
    <3> QED BY <3>2, <3>3, <3>4
  <2> QED BY <2>1, <2>2
<1>20. u'.mode # u.mode => deed'.touched \/ (u'.mode = "Local" /\ e.link = "awaiting")
  BY <1>2, <1>3, <1>10, <1>11 DEF Ready
<1>21. ASSUME ShowingCodex(u), ShowingCodex(u'), u.focus = e.focus, u.chosen # None,
              u.chosen \in Range(e.agents), ~deed'.moved, ~(deed'.touched /\ OpensCodex(u, u'))
       PROVE  u'.chosen = u.chosen /\ shown' \in {shown, u.chosen, None}
  <2>1. ShowingCodex(v)
    BY <1>3, <1>6, <1>8, <1>21 DEF ShowingCodex
  <2>2. Follows(v) /\ v.chosen = u.chosen /\ v.page = u.page
    BY <1>2, <1>21, <2>1 DEF Ready
  <2>3. SameSession(v, r.ui)
    <3>1. CASE Acts(v, down)
      <4>1. k \notin {"left", "right"}
        BY <1>11, <1>21, <3>1
      <4>2. deed'.touched
        BY <1>2, <3>1 DEF Ticked, Acts
      <4>3. ~OpensCodex(v, r.ui)
        BY <1>3, <1>21, <2>2, <4>2 DEF OpensCodex
      <4> QED BY <1>3, <1>5, <1>21, <2>1, <2>2, <3>1, <4>1, <4>3 DEF Led
    <3>2. CASE ~Acts(v, down)
      BY <1>6, <3>2 DEF SameSession
    <3> QED BY <3>1, <3>2
  <2>4. Follows(r.ui) /\ r.ui.chosen = u.chosen /\ ShowingCodex(r.ui)
    BY <1>3, <1>21, <2>2, <2>3 DEF Follows, SameSession, ShowingCodex
  <2>5. Highlighted(r.ui, r.env) = u.chosen
    BY <1>7, <1>21, <2>4, FollowedIsHighlighted
  <2> QED BY <1>3, <1>13, <2>4, <2>5
<1> QED BY <1>14, <1>15, <1>16, <1>17, <1>19, <1>20, <1>21 DEF UiInv
-----------------------------------------------------------------------------
(* The other steps.                                                        *)
StickyStep ==
  /\ ShowingCodex(u) /\ ShowingCodex(u') /\ u.chosen # None /\ u.chosen \in Range(e.agents)
  /\ u.focus = e.focus /\ budget' = budget
  => \/ u'.chosen = u.chosen /\ shown' \in {shown, u.chosen, None}
     \/ deed'.moved
     \/ deed'.touched /\ OpensCodex(u, u')

ModeStep ==
  u'.mode # u.mode =>
    deed'.touched \/ budget' < budget \/ (u'.mode = "Local" /\ e.link = "awaiting")

Harmless == ~deed.stray /\ ~deed.astray

LEMMA TicksKeep ==
  ASSUME UiInv, Ticks
  PROVE  UiInv' /\ Harmless' /\ ModeStep /\ StickyStep
<1>1. PICK clicked \in BOOLEAN, due \in IF shown = Unknown THEN BOOLEAN ELSE {TRUE}, p \in Presses :
        \E k \in IF p[1] > 0 /\ p[1] # keys.down THEN Pressable ELSE {"up"} :
          Tick(clicked, p[1], p[2], k, due)
  BY DEF Ticks
<1>2. PICK k : Tick(clicked, p[1], p[2], k, due)
  BY <1>1
<1>3. keys.down \in 0 .. 2
  BY DEF UiInv, UiTypeOK
<1>4. p[1] \in 0 .. 2 /\ p[2] \in 0 .. 2
  <2>1. p = <<1, 0>> \/ \E d \in 0 .. 2 : p = <<d, IF d < keys.down THEN d ELSE keys.down>>
    BY DEF Presses
  <2>2. CASE p = <<1, 0>>
    BY <2>2
  <2>3. ASSUME NEW d \in 0 .. 2, p = <<d, IF d < keys.down THEN d ELSE keys.down>>
        PROVE  p[1] \in 0 .. 2 /\ p[2] \in 0 .. 2
    BY <1>3, <2>3
  <2> QED BY <2>1, <2>2, <2>3
<1>5. PICK down \in 0 .. 2, kept \in 0 .. 2 : Tick(clicked, down, kept, k, due)
  BY <1>2, <1>4
<1>6. due \in BOOLEAN /\ (due \/ shown = Unknown)
  BY <1>1
<1>7. /\ UiInv' /\ ~deed'.stray /\ ~deed'.astray
      /\ u'.mode # u.mode => deed'.touched \/ (u'.mode = "Local" /\ e.link = "awaiting")
      /\ /\ ShowingCodex(u) /\ ShowingCodex(u') /\ u.focus = e.focus
         /\ u.chosen # None /\ u.chosen \in Range(e.agents)
         => \/ u'.chosen = u.chosen /\ shown' \in {shown, u.chosen, None}
            \/ deed'.moved
            \/ deed'.touched /\ OpensCodex(u, u')
  BY <1>5, <1>6, TickKeeps
<1> QED BY <1>7 DEF Harmless, ModeStep, StickyStep

(* Nothing but the lists changes, or what is shown is out of date.         *)
LEMMA ReadsKeeps ==
  ASSUME UiInv, u' = u, keys' = keys, NEW f \in Lists, Reads(f), deed' = NoDeed,
         budget' \in 0 .. Disturbances
  PROVE  UiInv' /\ Harmless' /\ ModeStep
<1>1. UiTypeOK /\ StrayWaits /\ ShownFollows
  BY DEF UiInv
<1>2. e' = f /\ shown' = IF StillShown(f) THEN shown ELSE Unknown
  BY DEF Reads
<1>3. UiTypeOK'
  BY <1>1, <1>2 DEF UiTypeOK, NoDeed
<1>4. StrayWaits'
  BY <1>1 DEF StrayWaits
<1>5. ShownFollows'
  <2>1. CASE StillShown(f) /\ ShowingCodex(u)
    <3>1. f.focus = e.focus /\ u.chosen # None /\ u.chosen \in Range(f.agents)
      BY <2>1 DEF StillShown
    <3> QED BY <1>1, <1>2, <2>1, <3>1 DEF ShownFollows, ShowingCodex
  <2>2. CASE StillShown(f) /\ ~ShowingCodex(u)
    <3>1. Highlighted(u, f) = shown
      BY <2>2 DEF StillShown
    <3> QED BY <1>2, <2>2, <3>1 DEF ShownFollows, ShowingCodex, Highlighted
  <2>3. CASE ~StillShown(f)
    BY <1>2, <2>3 DEF ShownFollows
  <2> QED BY <2>1, <2>2, <2>3
<1> QED BY <1>3, <1>4, <1>5 DEF UiInv, Harmless, NoDeed, ModeStep

LEMMA TimePassesKeeps ==
  ASSUME UiInv, TimePasses
  PROVE  UiInv' /\ Harmless' /\ ModeStep /\ StickyStep
<1>1. /\ u' = [u EXCEPT !.idle = u.idle + 1] /\ deed' = NoDeed
      /\ e' = e /\ keys' = keys /\ shown' = shown /\ budget' = budget
  BY DEF TimePasses
<1>2. UiTypeOK /\ StrayWaits /\ ShownFollows /\ u \in UiObject
  BY DEF UiInv, UiTypeOK
<1>3. /\ u' \in UiObject /\ u'.page = u.page /\ u'.mode = u.mode /\ u'.suppress = u.suppress
      /\ u'.main = u.main /\ u'.home = u.home /\ u'.screenOff = u.screenOff /\ u'.dimmed = u.dimmed
      /\ u'.pending = u.pending /\ u'.chosen = u.chosen /\ u'.focus = u.focus
      /\ u'.agent = u.agent /\ u'.selection = u.selection
  <2>1. PICK i \in Nat : i = u.idle + 1
    BY <1>2 DEF UiObject
  <2> QED BY <1>1, <1>2, <2>1 DEF UiObject
<1>4. UiTypeOK'
  BY <1>1, <1>2, <1>3 DEF UiTypeOK, NoDeed
<1>5. StrayWaits'
  BY <1>1, <1>2, <1>3 DEF StrayWaits
<1>6. Highlighted(u', e') = Highlighted(u, e) /\ (ShowingCodex(u') <=> ShowingCodex(u))
  BY <1>1, <1>3 DEF Highlighted, ShowingCodex
<1>7. ShownFollows'
  BY <1>1, <1>2, <1>3, <1>6 DEF ShownFollows, ShowingCodex, Highlighted
<1> QED BY <1>1, <1>3, <1>4, <1>5, <1>7 DEF UiInv, Harmless, NoDeed, ModeStep, StickyStep
LEMMA SpendSpends ==
  ASSUME UiInv, Spend
  PROVE  budget' \in 0 .. Disturbances /\ budget' < budget /\ deed' = NoDeed
BY UiAssumption DEF Spend, UiInv, UiTypeOK

LEMMA ElsewhereKeeps ==
  ASSUME UiInv, Elsewhere
  PROVE  UiInv' /\ Harmless' /\ ModeStep /\ StickyStep
<1>1. u' = u /\ keys' = keys /\ Spend
  BY DEF Elsewhere
<1>2. budget' \in 0 .. Disturbances /\ budget' < budget /\ deed' = NoDeed
  BY <1>1, SpendSpends
<1>3. e \in Lists /\ budget \in 0 .. Disturbances
  BY DEF UiInv, UiTypeOK
<1>4. \E f \in Lists : Reads(f)
  <2>1. ASSUME NEW list \in WifiList, Reads([e EXCEPT !.wifi = list])
        PROVE  \E f \in Lists : Reads(f)
    <3>1. list \in Seq(Ssid)
      BY UiAssumption
    <3>2. [e EXCEPT !.wifi = list] \in Lists
      BY <1>3, <3>1 DEF Lists
    <3> QED BY <2>1, <3>2
  <2>2. ASSUME Reads([e EXCEPT !.setup = TRUE])
        PROVE  \E f \in Lists : Reads(f)
    <3>1. [e EXCEPT !.setup = TRUE] \in Lists
      BY <1>3 DEF Lists
    <3> QED BY <2>2, <3>1
  <2>3. ASSUME NEW list \in MacList, Reads([e EXCEPT !.discovered = list])
        PROVE  \E f \in Lists : Reads(f)
    <3>1. list \in Seq(Mac)
      BY UiAssumption
    <3>2. [e EXCEPT !.discovered = list] \in Lists
      BY <1>3, <3>1 DEF Lists
    <3> QED BY <2>3, <3>2
  <2>4. ASSUME NEW list \in SessionList, Reads([e EXCEPT !.agents = list])
        PROVE  \E f \in Lists : Reads(f)
    <3>1. list \in Seq(Session)
      BY UiAssumption
    <3>2. [e EXCEPT !.agents = list] \in Lists
      BY <1>3, <3>1 DEF Lists
    <3> QED BY <2>4, <3>2
  <2>5. ASSUME NEW x \in Session, Reads([e EXCEPT !.focus = [id |-> x, seq |-> 1 - e.focus.seq]])
        PROVE  \E f \in Lists : Reads(f)
    <3>1. e.focus.seq \in 0 .. 1
      BY <1>3 DEF Lists, Focus
    <3>2. PICK n : n = 1 - e.focus.seq
      OBVIOUS
    <3>3. n \in 0 .. 1
      BY <3>1, <3>2
    <3>4. PICK g : g = [id |-> x, seq |-> n]
      OBVIOUS
    <3>5. g \in Focus
      BY <3>3, <3>4 DEF Focus
    <3>6. [e EXCEPT !.focus = g] \in Lists
      BY <1>3, <3>5 DEF Lists
    <3> QED BY <2>5, <3>2, <3>4, <3>6
  <2>6. ASSUME NEW link \in {"offline", "awaiting"}, Reads([e EXCEPT !.link = link, !.current = None])
        PROVE  \E f \in Lists : Reads(f)
    <3>1. [e EXCEPT !.link = link, !.current = None] \in Lists
      BY <1>3 DEF Lists
    <3> QED BY <2>6, <3>1
  <2>7. \/ \E list \in WifiList : Reads([e EXCEPT !.wifi = list])
        \/ Reads([e EXCEPT !.setup = TRUE])
        \/ \E list \in MacList : Reads([e EXCEPT !.discovered = list])
        \/ \E list \in SessionList : Reads([e EXCEPT !.agents = list])
        \/ \E x \in Session : Reads([e EXCEPT !.focus = [id |-> x, seq |-> 1 - e.focus.seq]])
        \/ \E link \in {"offline", "awaiting"} : Reads([e EXCEPT !.link = link, !.current = None])
    BY DEF Elsewhere
  <2> QED BY <2>1, <2>2, <2>3, <2>4, <2>5, <2>6, <2>7
<1>5. UiInv' /\ Harmless' /\ ModeStep
  BY <1>1, <1>2, <1>4, ReadsKeeps
<1>6. StickyStep
  BY <1>2, <1>3 DEF StickyStep
<1> QED BY <1>5, <1>6

LEMMA ConnectsKeeps ==
  ASSUME UiInv, Connects
  PROVE  UiInv' /\ Harmless' /\ ModeStep /\ StickyStep
<1>1. u' = u /\ keys' = keys /\ budget' = budget /\ deed' = NoDeed
  BY DEF Connects
<1>2. e \in Lists /\ budget \in 0 .. Disturbances
  BY DEF UiInv, UiTypeOK
<1> PICK mac \in Mac :
       Reads([e EXCEPT !.link = "connected", !.current = mac,
                       !.paired = IF mac \in Range(e.paired) THEN e.paired ELSE Append(e.paired, mac)])
  BY DEF Connects
<1>3. PICK list :
        /\ list = IF mac \in Range(e.paired) THEN e.paired ELSE Append(e.paired, mac)
        /\ Reads([e EXCEPT !.link = "connected", !.current = mac, !.paired = list])
  OBVIOUS
<1>4. list \in Seq(Mac)
  <2>1. e.paired \in Seq(Mac)
    BY <1>2 DEF Lists
  <2> QED BY <1>3, <2>1
<1>5. PICK f : f = [e EXCEPT !.link = "connected", !.current = mac, !.paired = list]
  OBVIOUS
<1>6. f \in Lists /\ SameSessions(e, f) /\ Reads(f)
  BY <1>2, <1>3, <1>4, <1>5 DEF Lists, SameSessions
<1>7. UiInv' /\ Harmless' /\ ModeStep
  BY <1>1, <1>2, <1>6, ReadsKeeps
<1>8. StickyStep
  BY <1>1, <1>6 DEF StickyStep, Reads, StillShown, SameSessions
<1> QED BY <1>7, <1>8

LEMMA ConsoleKeeps ==
  ASSUME UiInv, Console
  PROVE  UiInv' /\ Harmless' /\ ModeStep /\ StickyStep
<1>1. /\ e' = e /\ shown' = Unknown /\ Spend
      /\ u' \in {ToggleMode(u, keys.down > 0), ShowCodex(u, keys.down > 0)}
      /\ keys' = [keys EXCEPT !.stray = keys.down > 0]
  BY DEF Console
<1>2. budget' \in 0 .. Disturbances /\ budget' < budget /\ deed' = NoDeed
  BY <1>1, SpendSpends
<1>3. UiTypeOK /\ u \in UiObject /\ keys \in [down : 0 .. 2, stray : BOOLEAN] /\ budget \in 0 .. Disturbances
      /\ Screen(u) /\ Homed(u) /\ Knows(u)
  BY DEF UiInv, UiTypeOK, Screen, Homed, Knows
<1>4. (keys.down > 0) \in BOOLEAN
  OBVIOUS
<1>5. /\ u' \in UiObject /\ Screen(u') /\ Homed(u') /\ Knows(u')
      /\ keys.down > 0 => u'.suppress
  <2>1. CASE u' = ToggleMode(u, keys.down > 0)
    <3>1. PICK mode : mode = IF u.mode = "Remote" THEN "Local" ELSE "Remote"
      OBVIOUS
    <3>2. mode \in {"Local", "Remote"} /\ u.mode # mode /\ u' = SetMode(u, mode, keys.down > 0)
      BY <1>3, <2>1, <3>1 DEF ToggleMode, UiObject
    <3>3. /\ u' \in UiObject /\ Kept(u, u') /\ u'.suppress = (keys.down > 0)
          /\ u'.screenOff = u.screenOff /\ u'.dimmed = u.dimmed
      BY <1>3, <1>4, <3>2 DEF SetMode, ModeChanged, UiObject, Kept
    <3> QED BY <1>3, <3>3 DEF Kept, Screen, Homed, Knows
  <2>2. CASE u' = ShowCodex(u, keys.down > 0)
    <3>1. PICK x : x = [u EXCEPT !.focus = NoFocus, !.chosen = None]
      OBVIOUS
    <3>2. NoFocus \in Focus /\ None \in Session \cup {None} /\ "Codex" \in Page
      BY UiAssumption DEF NoFocus, Focus
    <3>3. x \in UiObject /\ x.screenOff = u.screenOff /\ x.dimmed = u.dimmed
          /\ x.main = u.main /\ x.home = u.home
      BY <1>3, <3>1, <3>2 DEF UiObject
    <3>4. u' = SetPage(x, "Codex", keys.down > 0)
      BY <2>2, <3>1 DEF ShowCodex
    <3>5. /\ u' \in UiObject /\ u'.page = "Codex" /\ u'.suppress = (keys.down > 0)
          /\ u'.screenOff = x.screenOff /\ u'.dimmed = x.dimmed /\ u'.main = x.main /\ u'.home = x.home
      BY <1>4, <3>2, <3>3, <3>4 DEF SetPage, UiObject
    <3> QED BY <1>3, <3>3, <3>5 DEF Screen, Homed, Knows
  <2> QED BY <1>1, <2>1, <2>2
<1>6. keys' \in [down : 0 .. 2, stray : BOOLEAN] /\ (keys'.stray => keys.down > 0)
  BY <1>1, <1>3, <1>4
<1>7. UiTypeOK'
  BY <1>1, <1>2, <1>3, <1>5, <1>6 DEF UiTypeOK, Screen, Homed, Knows, NoDeed
<1>8. StrayWaits' /\ ShownFollows'
  BY <1>1, <1>5, <1>6 DEF StrayWaits, ShownFollows
<1> QED BY <1>2, <1>3, <1>7, <1>8 DEF UiInv, Harmless, NoDeed, ModeStep, StickyStep

LEMMA UiInit ==
  ASSUME Init
  PROVE  UiInv /\ Harmless
<1>1. /\ u = Begin /\ keys = [down |-> 0, stray |-> FALSE] /\ deed = NoDeed /\ budget = Disturbances
      /\ shown = Highlighted(u, e)
  BY DEF Init
<1>2. PICK things \in Varies, known \in SUBSET Ssid, list \in Seq(Session) :
        e = [varies |-> things, wifi |-> <<>>, saved |-> known, paired |-> <<>>, discovered |-> <<>>,
             current |-> None, agents |-> list, focus |-> NoFocus, link |-> "offline",
             setup |-> known = {}]
  <2>1. ASSUME NEW things
        PROVE  /\ (IF "networks" \in things THEN {{}, Ssid \ Encrypted} ELSE {Ssid}) \subseteq SUBSET Ssid
               /\ (IF "sessions" \in things THEN SessionList ELSE {<<>>}) \subseteq Seq(Session)
    <3>1. SessionList \subseteq Seq(Session) /\ {<<>>} \subseteq Seq(Session)
      BY UiAssumption
    <3>2. {{}, Ssid \ Encrypted} \subseteq SUBSET Ssid /\ {Ssid} \subseteq SUBSET Ssid
      OBVIOUS
    <3> QED BY <3>1, <3>2
  <2>2. PICK things \in Varies :
          \E known \in IF "networks" \in things THEN {{}, Ssid \ Encrypted} ELSE {Ssid},
             list \in IF "sessions" \in things THEN SessionList ELSE {<<>>} :
            e = [varies |-> things, wifi |-> <<>>, saved |-> known, paired |-> <<>>, discovered |-> <<>>,
                 current |-> None, agents |-> list, focus |-> NoFocus, link |-> "offline",
                 setup |-> known = {}]
    BY DEF Init
  <2>3. PICK known \in IF "networks" \in things THEN {{}, Ssid \ Encrypted} ELSE {Ssid},
             list \in IF "sessions" \in things THEN SessionList ELSE {<<>>} :
          e = [varies |-> things, wifi |-> <<>>, saved |-> known, paired |-> <<>>, discovered |-> <<>>,
               current |-> None, agents |-> list, focus |-> NoFocus, link |-> "offline",
               setup |-> known = {}]
    BY <2>2
  <2>4. known \in SUBSET Ssid
    BY <2>1, <2>3
  <2>5. list \in Seq(Session)
    BY <2>1, <2>3
  <2> QED BY <2>3, <2>4, <2>5
<1>3. NoFocus \in Focus
  BY DEF NoFocus, Focus
<1>4. e \in Lists /\ e.focus = NoFocus
  <2>1. <<>> \in Seq(Ssid) /\ <<>> \in Seq(Mac) /\ (known = {}) \in BOOLEAN
    OBVIOUS
  <2> QED BY <1>2, <1>3, <2>1 DEF Lists
<1>5. u \in UiObject
  <2>1. Levels \in 1 .. Levels /\ Levels \in 0 .. Levels /\ 0 \in 0 .. CodeLength
        /\ 1 \in DOMAIN ScreenTimeouts /\ Main \in Page
    BY UiAssumption DEF Main
  <2>2. 0 \in Nat /\ 0 \in 0 .. 4 /\ 0 \in 0 .. 3
    OBVIOUS
  <2> QED BY <1>1, <1>3, <2>1, <2>2 DEF Begin, UiObject
<1>6. u.main = 0 /\ ~u.screenOff /\ u.page = "Main" /\ u.chosen = None /\ u.focus = NoFocus
  BY <1>1 DEF Begin, Main
<1>7. shown \in Thing \cup {None}
  BY <1>1, <1>4, <1>5, HighlightedFits
<1>8. UiTypeOK
  BY <1>1, <1>4, <1>5, <1>6, <1>7, UiAssumption DEF UiTypeOK, NoDeed, Thing
<1>9. StrayWaits
  BY <1>1 DEF StrayWaits
<1>10. ShownFollows
  BY <1>1, <1>4, <1>6 DEF ShownFollows, ShowingCodex
<1> QED BY <1>1, <1>8, <1>9, <1>10 DEF UiInv, Harmless, NoDeed
-----------------------------------------------------------------------------
LEMMA UiNext ==
  ASSUME UiInv, Next
  PROVE  UiInv' /\ Harmless' /\ ModeStep /\ StickyStep
BY TicksKeep, TimePassesKeeps, ElsewhereKeeps, ConnectsKeeps, ConsoleKeeps DEF Next

LEMMA UiIdle ==
  ASSUME UiInv, Harmless, UNCHANGED vars
  PROVE  UiInv' /\ Harmless'
<1>1. /\ u' = u /\ e' = e /\ keys' = keys /\ shown' = shown /\ deed' = deed /\ budget' = budget
  BY DEF vars
<1>2. UiTypeOK /\ StrayWaits /\ ShownFollows
  BY DEF UiInv
<1>3. UiTypeOK'
  BY <1>1, <1>2 DEF UiTypeOK
<1>4. StrayWaits'
  BY <1>1, <1>2 DEF StrayWaits
<1>5. ShownFollows'
  BY <1>1, <1>2 DEF ShownFollows, ShowingCodex, Highlighted
<1> QED BY <1>1, <1>3, <1>4, <1>5 DEF UiInv, Harmless

LEMMA UiInvariant == Spec => [](UiInv /\ Harmless)
<1>1. Init => UiInv /\ Harmless
  BY UiInit
<1>2. UiInv /\ Harmless /\ [Next]_vars => (UiInv /\ Harmless)'
  BY UiNext, UiIdle
<1> QED BY <1>1, <1>2, PTL DEF Spec

(* The object of the pages and what it reads keep their types; the home    *)
(* page knows the last setting, a dark screen is not dimmed as well, and a *)
(* password is for a network.                                              *)
THEOREM UiTypeCorrect == Spec => []UiTypeOK
<1>1. UiInv /\ Harmless => UiTypeOK
  BY DEF UiInv
<1> QED BY <1>1, UiInvariant, PTL

(* "In Local mode the waking keypress must not also act on the UI", nor    *)
(* does a key that was held across a change of page or mode, whoever made  *)
(* the change: the tick waits for the release of all keys.                 *)
THEOREM NoStrayKey == Spec => []KeysActWhereTheyWentDown
<1>1. UiInv /\ Harmless => KeysActWhereTheyWentDown
  BY DEF Harmless, KeysActWhereTheyWentDown
<1> QED BY <1>1, UiInvariant, PTL

(* A command is about what the screen highlights, for lists of any length  *)
(* that change between any two ticks.                                      *)
THEOREM CommandsAim == Spec => []ActsOnHighlighted
<1>1. UiInv /\ Harmless => ActsOnHighlighted
  BY DEF Harmless, ActsOnHighlighted
<1> QED BY <1>1, UiInvariant, PTL

(* "The mode is the user's decision alone": only the user, the console and *)
(* a code that is to be typed change it.                                   *)
THEOREM ModeBelongsToUser == Spec => ModeIsTheUsers
<1>1. UiInv /\ Harmless /\ [Next]_vars =>
        [u'.mode # u.mode =>
           deed'.touched \/ budget' < budget \/ (u'.mode = "Local" /\ e.link = "awaiting")]_vars
  BY UiNext DEF ModeStep
<1> QED BY <1>1, UiInvariant, PTL DEF Spec, ModeIsTheUsers

(* A session that was chosen stays chosen and highlighted from tick to     *)
(* tick while it is listed and no prompt moves the focus, wherever it goes *)
(* in the list, unless the user moves it or opens the Codex page from the  *)
(* home page, which drops it.                                              *)
THEOREM SelectionStays == Spec => SelectionSticky
<1>1. UiInv /\ Harmless /\ [Next]_vars => [StickyStep]_vars
  BY UiNext
<1>2. [][StickyStep]_vars => SelectionSticky
  BY PTL DEF SelectionSticky, StickyStep
<1> QED BY <1>1, <1>2, UiInvariant, PTL DEF Spec
=============================================================================
