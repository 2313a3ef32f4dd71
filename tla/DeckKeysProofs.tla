--------------------------- MODULE DeckKeysProofs ---------------------------
(* Theorems of DeckKeys, for any matrix, any map of keys and any list      *)
(* sizes: the keyboard has one master at a time, a switch keeps its name,  *)
(* the Mac follows the transmitter, and the Agent's bookkeeping implements *)
(* the shared keyboard.                                                    *)
EXTENDS DeckKeys, KeyOwnershipProofs, WellFoundedInduction, SequenceTheorems

(* Numbers have a least one: induction without an operator parameter.      *)
LEMMA Least ==
  ASSUME NEW T \in SUBSET Nat, T # {}
  PROVE  \E n \in T : \A m \in T : n <= m
<1>1. \E n \in T : \A m \in T : ~(<<m, n>> \in OpToRel(<, Nat))
  BY NatLessThanWellFounded, WFMin
<1>2. ASSUME NEW n \in Nat, NEW m \in Nat, ~(<<m, n>> \in OpToRel(<, Nat)) PROVE n <= m
  BY <1>2 DEF OpToRel
<1> QED BY <1>1, <1>2

(* The function by which Only is defined, up to position n.                *)
Selects(f, list, S, n) ==
  f = [i \in 0 .. n |->
         IF i = 0 THEN <<>>
         ELSE IF list[i] \in S THEN Append(f[i - 1], list[i]) ELSE f[i - 1]]

(* What it says at each position.                                           *)
LEMMA SelectsAt ==
  ASSUME NEW f, NEW list, NEW S, NEW n, Selects(f, list, S, n), NEW i \in 0 .. n
  PROVE  f[i] = IF i = 0 THEN <<>>
                ELSE IF list[i] \in S THEN Append(f[i - 1], list[i]) ELSE f[i - 1]
<1> DEFINE Body(j) == IF j = 0 THEN <<>>
                      ELSE IF list[j] \in S THEN Append(f[j - 1], list[j]) ELSE f[j - 1]
           h == [j \in 0 .. n |-> Body(j)]
<1>1. f = h
  BY DEF Selects
<1>2. h[i] = Body(i)
  <2> HIDE DEF Body
  <2> QED OBVIOUS
<1> HIDE DEF h
<1>3. f[i] = Body(i)
  BY <1>1, <1>2
<1> QED BY <1>3

(* There is such a function, up to every position of the list.             *)
LEMMA SelectionExists ==
  ASSUME NEW X, NEW list \in Seq(X), NEW S
  PROVE  \E f : Selects(f, list, S, Len(list))
<1> DEFINE Bad == {n \in 0 .. Len(list) : ~\E f : Selects(f, list, S, n)}
<1>1. SUFFICES ASSUME Bad # {} PROVE FALSE
  <2>1. Len(list) \in 0 .. Len(list)
    OBVIOUS
  <2> QED BY <2>1
<1>2. PICK n \in Bad : \A m \in Bad : n <= m
  <2>1. Bad \in SUBSET Nat
    OBVIOUS
  <2> QED BY <1>1, <2>1, Least
<1>3. n # 0
  <2> DEFINE f == [i \in 0 .. 0 |-> <<>>]
  <2>1. Selects(f, list, S, 0)
    BY DEF Selects
  <2> QED BY <2>1
<1>4. n \in Nat /\ n - 1 \in 0 .. Len(list) /\ n - 1 \notin Bad
  BY <1>2, <1>3
<1>5. PICK f : Selects(f, list, S, n - 1)
  BY <1>4
<1> DEFINE g == [i \in 0 .. n |->
                   IF i < n THEN f[i]
                   ELSE IF list[n] \in S THEN Append(f[n - 1], list[n]) ELSE f[n - 1]]
<1>6. ASSUME NEW i \in 0 .. n
      PROVE  g[i] = IF i = 0 THEN <<>>
                    ELSE IF list[i] \in S THEN Append(g[i - 1], list[i]) ELSE g[i - 1]
  <2>1. CASE i = n
    BY <1>3, <1>4, <2>1
  <2>2. CASE i < n
    <3>1. f[i] = IF i = 0 THEN <<>>
                 ELSE IF list[i] \in S THEN Append(f[i - 1], list[i]) ELSE f[i - 1]
        <4>1. i \in 0 .. n - 1
        BY <1>4, <2>2
      <4> QED BY <1>5, <4>1, SelectsAt
    <3>2. g[i] = f[i] /\ (i # 0 => g[i - 1] = f[i - 1])
      BY <1>4, <2>2
    <3> QED BY <3>1, <3>2
  <2> QED BY <1>4, <2>1, <2>2
<1>7. Selects(g, list, S, n)
  <2>1. g = [i \in 0 .. n |-> g[i]]
    OBVIOUS
  <2> HIDE DEF g
  <2> QED BY <1>6, <2>1 DEF Selects
<1> HIDE DEF g
<1> QED BY <1>2, <1>7

(* So the recursive definition of Only is one.                             *)
LEMMA OnlySelects ==
  ASSUME NEW X, NEW list \in Seq(X), NEW S
  PROVE  \E f : Selects(f, list, S, Len(list)) /\ Only(list, S) = f[Len(list)]
<1> DEFINE kept == CHOOSE f : Selects(f, list, S, Len(list))
<1>1. Only(list, S) = kept[Len(list)]
  BY DEF Only, Selects
<1>2. Selects(kept, list, S, Len(list))
  BY SelectionExists
<1> QED BY <1>1, <1>2

(* A selection has the elements of the list that are selected, each as     *)
(* often as the list.                                                      *)
LEMMA OnlyElements ==
  ASSUME NEW X, NEW list \in Seq(X), NEW S
  PROVE  /\ Only(list, S) \in Seq(X)
         /\ Range(Only(list, S)) = Range(list) \cap S
         /\ IsInjective(list) => IsInjective(Only(list, S))
<1>1. PICK f : Selects(f, list, S, Len(list)) /\ Only(list, S) = f[Len(list)]
  BY OnlySelects
<1> DEFINE Seen(n) == {list[i] : i \in 1 .. n}
           Right(n) == /\ f[n] \in Seq(X)
                       /\ Range(f[n]) = Seen(n) \cap S
                       /\ IsInjective(list) => IsInjective(f[n])
           Bad == {n \in 0 .. Len(list) : ~Right(n)}
<1>2. f[0] = <<>> /\ \A n \in 1 .. Len(list) :
         f[n] = IF list[n] \in S THEN Append(f[n - 1], list[n]) ELSE f[n - 1]
  <2>1. 0 \in 0 .. Len(list) /\ \A n \in 1 .. Len(list) : n \in 0 .. Len(list) /\ n # 0
    OBVIOUS
  <2>2. f[0] = <<>>
    BY <1>1, <2>1, SelectsAt
  <2> QED BY <1>1, <2>1, <2>2, SelectsAt
<1>3. Right(0)
  <2>1. <<>> \in Seq(X) /\ Range(<<>>) = {} /\ IsInjective(<<>>) /\ Seen(0) = {}
    BY DEF Range, IsInjective
  <2> QED BY <1>2, <2>1
<1>4. ASSUME NEW n \in 1 .. Len(list), Right(n - 1) PROVE Right(n)
  <2>1. Seen(n) = Seen(n - 1) \cup {list[n]} /\ list[n] \in X
    OBVIOUS
  <2>2. CASE list[n] \notin S
    BY <1>2, <1>4, <2>1, <2>2
  <2>3. CASE list[n] \in S
    <3> DEFINE r == f[n - 1]
               a == Append(r, list[n])
    <3>1. r \in Seq(X) /\ f[n] = a /\ Range(r) = Seen(n - 1) \cap S
      BY <1>2, <1>4, <2>3
    <3> HIDE DEF r
    <3>2. a \in Seq(X) /\ DOMAIN a = 1 .. Len(r) + 1 /\ DOMAIN r = 1 .. Len(r)
          /\ a[Len(r) + 1] = list[n] /\ \A i \in 1 .. Len(r) : a[i] = r[i]
      BY <3>1, <2>1
    <3> HIDE DEF a
    <3>3. Range(a) = Range(r) \cup {list[n]}
      BY <3>1, <3>2 DEF Range
    <3>4. ASSUME IsInjective(list) PROVE IsInjective(a)
      <4>1. list[n] \notin Range(r)
        BY <3>1, <3>4 DEF IsInjective
      <4>2. IsInjective(r)
        BY <1>4, <3>4 DEF r
      <4> QED BY <3>1, <3>2, <4>1, <4>2 DEF IsInjective, Range
    <3> QED BY <3>1, <3>2, <3>3, <3>4, <2>1, <2>3
  <2> QED BY <2>2, <2>3
<1> HIDE DEF Right
<1>5. Bad = {}
  <2>1. SUFFICES ASSUME Bad # {} PROVE FALSE
    OBVIOUS
  <2>2. PICK n \in Bad : \A m \in Bad : n <= m
    <3>1. Bad \in SUBSET Nat
      OBVIOUS
    <3> QED BY <2>1, <3>1, Least
  <2>3. n \in 1 .. Len(list) /\ n - 1 \in 0 .. Len(list) /\ n - 1 \notin Bad
    BY <1>3, <2>2
  <2> QED BY <1>4, <2>2, <2>3
<1>6. Right(Len(list))
  BY <1>5
<1>7. Seen(Len(list)) = Range(list)
  BY DEF Range
<1> QED BY <1>1, <1>6, <1>7 DEF Right

-----------------------------------------------------------------------------
(* Switches that were seen in Local mode are still down; unless the pages  *)
(* have the keyboard, it is suppressed for them.                           *)
LocalIsDown == pressed \in Seq(Physical) /\ local \subseteq Range(pressed)
Reserved == local # {} => ui.mode = "Local" \/ ui.suppress

UiObjects == [mode : {"Local", "Remote"}, page : Page \cup {Main, "PairCode", "Computers"},
              suppress : BOOLEAN, screenOff : BOOLEAN, selection : {0}]
UiType == ui \in UiObjects

Inv == LocalIsDown /\ UiType /\ Reserved /\ OneMaster

-----------------------------------------------------------------------------
LEMMA InitInv == Init => Inv
BY DEF Init, Inv, LocalIsDown, UiType, UiObjects, Reserved, OneMaster, UiBooted, Switches, Range

(* What tick makes of the object, as far as the masters are concerned: the *)
(* pages lose the keyboard to the Mac only when no key is down, or the key *)
(* that is down is suppressed.                                             *)
LEMMA TickKeepsMaster ==
  ASSUME UiType, NEW clicked \in BOOLEAN, NEW codeAsked \in BOOLEAN
  PROVE  /\ UiTick(clicked, codeAsked) \in UiObjects
         /\ pressed # <<>> /\ (ui.mode = "Local" \/ ui.suppress)
              => ConsumesKeyboard(UiTick(clicked, codeAsked))
<1> DEFINE held == pressed # <<>>
           b == BtnA(ui, clicked, held)
           n == Unsuppressed(b, held)
           k == Woken(n, held)
           Kept(u) == u \in UiObjects /\ (held /\ (ui.mode = "Local" \/ ui.suppress)
                                             => u.mode = "Local" \/ u.suppress)
<1> USE DEF UiObjects, Main
<1>1. Kept(b)
  BY DEF UiType, BtnA, ToggleMode, SetMode, ModeChanged
<1>2. Kept(n)
  <2>1. n = [b EXCEPT !.suppress = b.suppress /\ held] /\ held \in BOOLEAN
    BY DEF Unsuppressed
  <2> HIDE DEF b, n, held
  <2> QED BY <1>1, <2>1
<1>3. Kept(k)
  <2>1. k = IF ~(held /\ n.screenOff) THEN n
            ELSE [n EXCEPT !.screenOff = FALSE, !.suppress = n.suppress \/ n.mode = "Local"]
    BY DEF Woken
  <2> HIDE DEF n, k, held
  <2> QED BY <1>2, <2>1
<1>4. Kept(PairingInterrupts(k, codeAsked, connected, held))
  <2>1. held \in BOOLEAN
    OBVIOUS
  <2> HIDE DEF k, held
  <2> QED BY <1>3, <2>1 DEF PairingInterrupts, SetMode, ModeChanged, SetPage
<1> QED BY <1>4 DEF UiTick, ConsumesKeyboard

(* A sequence without one of its elements keeps the others.                *)
LEMMA JoinedElements ==
  ASSUME NEW S, NEW a \in Seq(S), NEW b \in Seq(S)
  PROVE  /\ a \o b \in Seq(S) /\ Len(a \o b) = Len(a) + Len(b)
         /\ \A i \in 1 .. Len(a) : (a \o b)[i] = a[i]
         /\ \A i \in 1 .. Len(b) : (a \o b)[Len(a) + i] = b[i]
OBVIOUS

LEMMA JoinedAt ==
  ASSUME NEW S, NEW a \in Seq(S), NEW b \in Seq(S)
  PROVE  /\ a \o b \in Seq(S) /\ DOMAIN (a \o b) = 1 .. Len(a) + Len(b)
         /\ \A i \in DOMAIN (a \o b) :
              /\ i <= Len(a) => (a \o b)[i] = a[i]
              /\ i > Len(a) => (a \o b)[i] = b[i - Len(a)]
OBVIOUS

LEMMA LiftKeeps ==
  ASSUME NEW S, NEW s \in Seq(S), NEW n \in DOMAIN s
  PROVE  /\ RemoveAt(s, n) \in Seq(S)
         /\ Range(s) \ {s[n]} \subseteq Range(RemoveAt(s, n))
         /\ IsInjective(s) => IsInjective(RemoveAt(s, n))
<1> DEFINE a == SubSeq(s, 1, n - 1)
           b == SubSeq(s, n + 1, Len(s))
           r == a \o b
<1>1. /\ Len(s) \in Nat /\ DOMAIN s = 1 .. Len(s) /\ n \in 1 .. Len(s)
      /\ a \in Seq(S) /\ b \in Seq(S) /\ Len(a) = n - 1 /\ Len(b) = Len(s) - n
      /\ \A i \in 1 .. n - 1 : a[i] = s[i]
      /\ \A i \in 1 .. Len(s) - n : b[i] = s[n + i]
  OBVIOUS
<1>2. RemoveAt(s, n) = r
  BY DEF RemoveAt
<1> HIDE DEF a, b
<1>3. /\ r \in Seq(S) /\ Len(r) = Len(s) - 1 /\ DOMAIN r = 1 .. Len(s) - 1
  <2>1. r \in Seq(S) /\ Len(r) = Len(a) + Len(b)
    BY <1>1, JoinedElements
  <2>2. Len(a) + Len(b) = Len(s) - 1
    BY <1>1
  <2> HIDE DEF r
  <2>3. DOMAIN r = 1 .. Len(r)
    BY <2>1
  <2> QED BY <2>1, <2>2, <2>3
<1>4. ASSUME NEW i \in 1 .. Len(a) PROVE r[i] = a[i]
  BY <1>1, JoinedElements
<1>5. ASSUME NEW i \in 1 .. Len(b) PROVE r[Len(a) + i] = b[i]
  BY <1>1, JoinedElements
<1> HIDE DEF r
<1>6. ASSUME NEW i \in DOMAIN s, s[i] # s[n] PROVE \E j \in DOMAIN r : r[j] = s[i]
  <2>0. i \in 1 .. Len(s) /\ i # n
    BY <1>1, <1>6
  <2>1. CASE i < n
    <3>1. i \in 1 .. Len(a) /\ i \in 1 .. n - 1 /\ i \in DOMAIN r
      BY <1>1, <1>3, <2>0, <2>1
    <3>2. r[i] = s[i]
      BY <1>1, <1>4, <3>1
    <3> QED BY <3>1, <3>2
  <2>2. CASE i > n
    <3> DEFINE j == i - n
    <3>0. i \in Int /\ n \in Int /\ Len(s) \in Int /\ i <= Len(s) /\ n >= 1
      BY <1>1, <2>0
    <3>1. j \in 1 .. Len(s) - n /\ Len(a) + j = i - 1 /\ n + j = i /\ i - 1 \in DOMAIN r
      <4>1. i - 1 \in 1 .. Len(s) - 1 /\ i - n \in 1 .. Len(s) - n
        BY ONLY <3>0, <2>2
      <4>2. Len(a) = n - 1
        BY <1>1
      <4>3. Len(a) + (i - n) = i - 1 /\ n + (i - n) = i
        BY ONLY <3>0, <4>2
      <4> QED BY <1>3, <4>1, <4>3
    <3> HIDE DEF j
    <3>2. r[Len(a) + j] = b[j] /\ b[j] = s[n + j]
      BY <1>1, <1>5, <3>1
    <3> QED BY <3>1, <3>2
  <2> QED BY <1>1, <2>0, <2>1, <2>2
<1>7. ASSUME NEW i \in DOMAIN r
      PROVE  (i < n => r[i] = s[i]) /\ (i >= n => r[i] = s[i + 1] /\ i + 1 \in DOMAIN s)
  <2>1. i \in 1 .. Len(s) - 1 /\ i + 1 \in DOMAIN s
    BY <1>1, <1>3
  <2>2. CASE i < n
    <3>1. i \in 1 .. n - 1 /\ i \in 1 .. Len(a)
      BY <1>1, <2>1, <2>2
    <3> QED BY <1>1, <1>4, <2>2, <3>1
  <2>3. CASE i >= n
    <3>1. i - (n - 1) \in 1 .. Len(s) - n /\ Len(a) + (i - (n - 1)) = i /\ n + (i - (n - 1)) = i + 1
      BY <1>1, <2>1, <2>3
    <3>2. r[i] = b[i - (n - 1)] /\ b[i - (n - 1)] = s[i + 1]
      BY <1>1, <1>5, <3>1
    <3> QED BY <2>1, <2>3, <3>2
  <2> QED BY <1>1, <2>1, <2>2, <2>3
<1>8. ASSUME IsInjective(s) PROVE IsInjective(r)
  <2> SUFFICES ASSUME NEW i \in DOMAIN r, NEW j \in DOMAIN r, r[i] = r[j] PROVE i = j
    BY DEF IsInjective
  <2> DEFINE At(k) == IF k < n THEN k ELSE k + 1
  <2>1. /\ At(i) \in DOMAIN s /\ r[i] = s[At(i)]
        /\ At(j) \in DOMAIN s /\ r[j] = s[At(j)]
    BY <1>1, <1>3, <1>7
  <2>2. At(i) = At(j)
    BY <1>8, <2>1 DEF IsInjective
  <2> QED BY <1>1, <1>3, <2>2
<1> QED BY <1>2, <1>3, <1>6, <1>8 DEF Range

LEMMA InvStep == Inv /\ [Next]_vars => Inv'
<1> SUFFICES ASSUME Inv, [Next]_vars PROVE Inv'
  OBVIOUS
<1> USE DEF Inv
<1>1. ASSUME NEW clicked \in BOOLEAN, NEW codeAsked \in BOOLEAN, NEW turns \in BOOLEAN,
             Loop(clicked, codeAsked, turns)
      PROVE  Inv'
  <2> DEFINE u == UiTick(clicked, codeAsked)
             held == pressed # <<>>
  <2>1. /\ u \in UiObjects
        /\ held /\ (ui.mode = "Local" \/ ui.suppress) => ConsumesKeyboard(u)
    BY TickKeepsMaster
  <2>2. /\ pressed' = pressed /\ previous' = Current(ConsumesKeyboard(u))
        /\ ui' = u \/ (ui' = SetPage(u, "Computers", held) /\ held /\ u.mode = "Local")
        /\ local' = IF ui.mode = "Local" THEN Range(pressed) ELSE local
    BY <1>1 DEF Loop
  <2>3. LocalIsDown'
    BY <2>2 DEF LocalIsDown
  <2>4. UiType'
    BY <2>1, <2>2 DEF UiType, UiObjects, SetPage
  <2>5. local' # {} => held /\ (ui.mode = "Local" \/ ui.suppress)
    BY <2>2 DEF LocalIsDown, Reserved, UiType, UiObjects, Range
  <2>6. Reserved'
    BY <2>1, <2>2, <2>5 DEF Reserved, ConsumesKeyboard, SetPage, UiObjects
  <2>7. local' # {} => previous' = <<>>
    BY <2>1, <2>2, <2>5 DEF Current
  <2>8. OneMaster'
    BY <2>7 DEF OneMaster, Switches
  <2> QED BY <2>3, <2>4, <2>6, <2>8
<1>2. ASSUME NEW p \in Physical, Press(p) PROVE Inv'
  <2>1. Append(pressed, p) \in Seq(Physical) /\ Range(pressed) \subseteq Range(Append(pressed, p))
    BY DEF LocalIsDown, Range
  <2> QED BY <1>2, <2>1 DEF Press, LocalIsDown, UiType, Reserved, OneMaster, Switches
<1>3. ASSUME NEW p \in Physical, Lift(p) PROVE Inv'
  <2>1. PICK n \in DOMAIN pressed : pressed[n] = p /\ pressed' = RemoveAt(pressed, n)
    BY <1>3 DEF Lift
  <2>2. pressed' \in Seq(Physical) /\ Range(pressed) \ {p} \subseteq Range(pressed')
    BY <2>1, LiftKeeps DEF LocalIsDown
  <2> QED BY <1>3, <2>2 DEF Lift, LocalIsDown, UiType, Reserved, OneMaster, Switches
<1>4. CASE UNCHANGED <<pressed, ui, previous, local>>
  BY <1>4 DEF LocalIsDown, UiType, Reserved, OneMaster, Switches, Range
<1>5. CASE Connects \/ Loses \/ AgentReads \/ (\E C \in {{}, Conn} : SessionEnds(C)) \/ Others
           \/ UNCHANGED vars
  BY <1>4, <1>5 DEF Connects, Loses, AgentReads, SessionEnds, Others, vars, deckVars
<1> QED BY <1>1, <1>2, <1>3, <1>5 DEF Next

(* A switch that went down while the keyboard worked for the pages is not  *)
(* among the keys typed on the Mac (DeviceUi::setMode, KeyTransmitter's    *)
(* tick), whatever is clicked, asked for and lost in between.              *)
THEOREM OneMasterAtATime == Spec => []OneMaster
<1>1. Inv => OneMaster
  BY DEF Inv
<1> QED BY InitInv, InvStep, <1>1, PTL DEF Spec

-----------------------------------------------------------------------------
(* What the transmitter holds and what it sends.                           *)
Held == [key : Key, physical : Physical, flags : SUBSET Key]
Message == [k : Key, a : {"up", "down"}, m : SUBSET Key]

(* A list has each switch once, and a modifier under its own name.         *)
OneEntryEach(list) == \A i, j \in DOMAIN list : list[i].physical = list[j].physical => i = j
ModifiersNamed(list) ==
  \A i \in DOMAIN list : IsModifier(list[i].physical) => list[i].key = ModName[list[i].physical]

ListsOK ==
  /\ pressed \in Seq(Physical) /\ IsInjective(pressed)
  /\ previous \in Seq(Held) /\ OneEntryEach(previous) /\ ModifiersNamed(previous)
  /\ wire \in Seq(Message)
  /\ connected \in BOOLEAN /\ session \in BOOLEAN

-----------------------------------------------------------------------------
(* buildCurrent.                                                           *)
LEMMA KeyNameType ==
  ASSUME ListsOK, NEW p \in Physical
  PROVE  KeyName(p) \in Key \cup {NoName}
<1>1. Latched(p) \subseteq Key
  <2>1. \A i \in DOMAIN previous : previous[i] \in Held
    BY DEF ListsOK
  <2> QED BY <2>1 DEF Latched, Held
<1>2. Latched(p) # {} => (CHOOSE k \in Latched(p) : TRUE) \in Key
  BY <1>1
<1> HIDE DEF Latched
<1> QED BY <1>2, DeckAssumption DEF KeyName

LEMMA BuildCurrentOK ==
  ASSUME ListsOK
  PROVE  /\ BuildCurrent \in Seq(Held) /\ OneEntryEach(BuildCurrent)
         /\ ModifiersNamed(BuildCurrent)
         /\ \A j \in DOMAIN BuildCurrent :
              /\ BuildCurrent[j].physical \in Named \cup ModSwitches
              /\ BuildCurrent[j].key = KeyName(BuildCurrent[j].physical)
<1> DEFINE mods == Only(pressed, ModSwitches)
           others == Only(pressed, Named \ ModSwitches)
           all == mods \o others
           Active(p) == [key |-> KeyName(p), physical |-> p, flags |-> Flags]
           n == Limit(Len(all))
           b == [i \in 1 .. n |-> Active(all[i])]
<1>1. /\ mods \in Seq(Physical) /\ IsInjective(mods) /\ Range(mods) \subseteq ModSwitches
      /\ others \in Seq(Physical) /\ IsInjective(others)
      /\ Range(others) \subseteq Named \ ModSwitches
  BY OnlyElements DEF ListsOK
<1> HIDE DEF mods, others
<1>2. /\ all \in Seq(Physical) /\ Len(all) = Len(mods) + Len(others)
      /\ \A i \in 1 .. Len(mods) : all[i] = mods[i]
      /\ \A i \in 1 .. Len(others) : all[Len(mods) + i] = others[i]
  BY <1>1, JoinedElements
<1> HIDE DEF all
<1>3. /\ Len(all) \in Nat /\ Len(mods) \in Nat /\ Len(others) \in Nat
      /\ DOMAIN mods = 1 .. Len(mods) /\ DOMAIN others = 1 .. Len(others)
  BY <1>1, <1>2
<1>4. ASSUME NEW i \in 1 .. Len(all)
      PROVE  /\ i <= Len(mods) => all[i] = mods[i] /\ i \in DOMAIN mods /\ all[i] \in ModSwitches
             /\ i > Len(mods) => /\ all[i] = others[i - Len(mods)] /\ i - Len(mods) \in DOMAIN others
                                 /\ all[i] \in Named \ ModSwitches
  <2>1. CASE i <= Len(mods)
    BY <1>1, <1>2, <1>3, <2>1 DEF Range
  <2>2. CASE i > Len(mods)
    <3>1. i - Len(mods) \in 1 .. Len(others) /\ Len(mods) + (i - Len(mods)) = i
      BY <1>2, <1>3, <2>2
    <3>2. all[i] = others[i - Len(mods)] /\ i - Len(mods) \in DOMAIN others
      BY <1>2, <1>3, <3>1
    <3>3. all[i] \in Range(others)
      BY <3>2 DEF Range
    <3> QED BY <1>1, <2>2, <3>2, <3>3
  <2> QED BY <1>3, <2>1, <2>2
<1>5. ASSUME NEW i \in 1 .. Len(all), NEW j \in 1 .. Len(all), all[i] = all[j] PROVE i = j
  <2>1. CASE i <= Len(mods) /\ j <= Len(mods)
    BY <1>1, <1>4, <1>5, <2>1 DEF IsInjective
  <2>2. CASE i > Len(mods) /\ j > Len(mods)
    <3>1. i - Len(mods) = j - Len(mods)
      BY <1>1, <1>4, <1>5, <2>2 DEF IsInjective
    <3> QED BY <1>3, <3>1
  <2> QED BY <1>3, <1>4, <1>5, <2>1, <2>2
<1>6. n \in Nat /\ n <= Len(all)
  BY <1>3, DeckAssumption DEF Limit
<1>7. BuildCurrent = b
  BY DEF BuildCurrent, all, mods, others
<1> HIDE DEF n
<1>8. ASSUME NEW i \in 1 .. n
      PROVE  /\ b[i] = Active(all[i]) /\ i \in 1 .. Len(all) /\ all[i] \in Physical
             /\ all[i] \in Named \cup ModSwitches
  BY <1>2, <1>3, <1>4, <1>6
<1>9. ASSUME NEW p \in Named \cup ModSwitches PROVE Active(p) \in Held /\ (IsModifier(p) => KeyName(p) = ModName[p])
  <2>1. p \in Physical
    BY DEF Named, ModSwitches
  <2>2. IsModifier(p) => KeyName(p) = ModName[p] /\ KeyName(p) # NoName
    BY DEF KeyName, IsModifier
  <2>3. KeyName(p) \in Key
    BY <2>1, <2>2, KeyNameType DEF Named, ModSwitches
  <2>4. Flags \subseteq Key
    BY DeckAssumption DEF Flags, ModSwitches, IsModifier
  <2> QED BY <2>1, <2>2, <2>3, <2>4 DEF Held
<1>10. b \in Seq(Held) /\ DOMAIN b = 1 .. n
  BY <1>6, <1>8, <1>9
<1>11. \A i \in 1 .. n : b[i].physical = all[i] /\ b[i].key = KeyName(all[i])
  BY <1>8
<1> HIDE DEF b
<1>12. OneEntryEach(b)
  BY <1>5, <1>8, <1>10, <1>11 DEF OneEntryEach
<1>13. ModifiersNamed(b)
  BY <1>8, <1>9, <1>10, <1>11 DEF ModifiersNamed
<1> QED BY <1>7, <1>8, <1>10, <1>11, <1>12, <1>13

(* What tick sends: key-ups of the names that are gone, then key-downs of  *)
(* the new ones.                                                           *)
LEMMA WithoutOK ==
  ASSUME NEW list \in Seq(Held), NEW names
  PROVE  Without(list, names) \in Seq(Held) /\ Names(Without(list, names)) = Names(list) \ names
<1> DEFINE w == Without(list, names)
           S == {a \in Range(list) : a.key \notin names}
<1>1. w \in Seq(Held) /\ Range(w) = S
  <2>1. Range(list) \cap S = S
    OBVIOUS
  <2> HIDE DEF S
  <2> QED BY <2>1, OnlyElements DEF Without, S
<1> HIDE DEF w
<1>2. \A s : Names(s) = {a.key : a \in Range(s)}
  BY DEF Names, Range
<1>3. {a.key : a \in S} = {a.key : a \in Range(list)} \ names
  OBVIOUS
<1> QED BY <1>1, <1>2, <1>3 DEF w

Ups(old, new) == Each(Up, Gone(old, new))
Downs(old, new) == Each(Down, Without(new, Names(old)))
Keys(messages) == {messages[i].k : i \in DOMAIN messages}

LEMMA ChangesOK ==
  ASSUME NEW old \in Seq(Held), NEW new \in Seq(Held)
  PROVE  /\ Ups(old, new) \in Seq(Message) /\ Downs(old, new) \in Seq(Message)
         /\ Changes(old, new) = Ups(old, new) \o Downs(old, new)
         /\ Changes(old, new) \in Seq(Message)
         /\ \A i \in DOMAIN Ups(old, new) : Ups(old, new)[i].a = "up"
         /\ \A i \in DOMAIN Downs(old, new) : Downs(old, new)[i].a = "down"
<1> DEFINE g == Gone(old, new)
           f == Without(new, Names(old))
           u == Each(Up, g)
           d == Each(Down, f)
<1>2. /\ g \in Seq(Held) /\ Names(g) = Names(old) \ Names(new)
      /\ f \in Seq(Held) /\ Names(f) = Names(new) \ Names(old)
  BY WithoutOK DEF Gone
<1>3. Changes(old, new) = u \o d
  BY DEF Changes
<1>0. u = Ups(old, new) /\ d = Downs(old, new)
  BY DEF Ups, Downs
<1> HIDE DEF g, f
<1>4. u = [i \in DOMAIN g |-> Up(g[i])] /\ d = [i \in DOMAIN f |-> Down(f[i])]
  BY DEF Each
<1> HIDE DEF u, d
<1>5. \A x \in Held : /\ Up(x) \in Message /\ Up(x).a = "up" /\ Up(x).k = x.key
                      /\ Down(x) \in Message /\ Down(x).a = "down" /\ Down(x).k = x.key
  BY DEF Up, Down, Message, Held
<1>6. /\ DOMAIN g = 1 .. Len(g) /\ Len(g) \in Nat /\ \A i \in DOMAIN g : g[i] \in Held
      /\ DOMAIN f = 1 .. Len(f) /\ Len(f) \in Nat /\ \A i \in DOMAIN f : f[i] \in Held
  BY <1>2
<1>7. /\ DOMAIN u = DOMAIN g /\ \A i \in DOMAIN g : u[i] \in Message /\ u[i].a = "up" /\ u[i].k = g[i].key
      /\ DOMAIN d = DOMAIN f /\ \A i \in DOMAIN f : d[i] \in Message /\ d[i].a = "down" /\ d[i].k = f[i].key
  BY <1>4, <1>5, <1>6
<1>8. u \in Seq(Message) /\ d \in Seq(Message)
  <2>1. \A S : \A n \in Nat : \A h \in [1 .. n -> S] : h \in Seq(S)
    OBVIOUS
  <2>2. u \in [1 .. Len(g) -> Message] /\ d \in [1 .. Len(f) -> Message]
    BY <1>4, <1>6, <1>7
  <2> QED BY <1>6, <2>1, <2>2
<1>10. u \o d \in Seq(Message)
  BY <1>8, JoinedElements
<1> QED BY <1>0, <1>2, <1>3, <1>7, <1>8, <1>10

LEMMA ChangesKeys ==
  ASSUME NEW old \in Seq(Held), NEW new \in Seq(Held), NEW k
  PROVE  /\ k \in Keys(Ups(old, new)) <=> k \in Names(old) /\ k \notin Names(new)
         /\ k \in Keys(Downs(old, new)) <=> k \in Names(new) /\ k \notin Names(old)
<1>1. /\ Names(Gone(old, new)) = Names(old) \ Names(new)
      /\ Names(Without(new, Names(old))) = Names(new) \ Names(old)
  BY WithoutOK DEF Gone
<1>2. \A list : Keys(Each(Up, list)) = Names(list) /\ Keys(Each(Down, list)) = Names(list)
  BY DEF Keys, Each, Up, Down, Names
<1>3. /\ Keys(Ups(old, new)) = Names(old) \ Names(new)
      /\ Keys(Downs(old, new)) = Names(new) \ Names(old)
  BY <1>1, <1>2 DEF Ups, Downs
<1> QED BY <1>3

-----------------------------------------------------------------------------
(* The lists are well formed at all times.                                 *)
LEMMA CurrentOK ==
  ASSUME ListsOK, NEW consumed \in BOOLEAN
  PROVE  /\ Current(consumed) \in Seq(Held)
         /\ OneEntryEach(Current(consumed)) /\ ModifiersNamed(Current(consumed))
<1>1. <<>> \in Seq(Held) /\ OneEntryEach(<<>>) /\ ModifiersNamed(<<>>)
  BY DEF OneEntryEach, ModifiersNamed
<1> QED BY <1>1, BuildCurrentOK DEF Current

LEMMA ListsInit == Init => ListsOK
<1>1. /\ \A S : <<>> \in Seq(S)
      /\ OneEntryEach(<<>>) /\ ModifiersNamed(<<>>) /\ IsInjective(<<>>)
  BY DEF OneEntryEach, ModifiersNamed, IsInjective
<1> QED BY <1>1 DEF Init, ListsOK

LEMMA ListsStep == ListsOK /\ [Next]_vars => ListsOK'
<1> SUFFICES ASSUME ListsOK, [Next]_vars PROVE ListsOK'
  OBVIOUS
<1>1. ASSUME NEW clicked \in BOOLEAN, NEW codeAsked \in BOOLEAN, NEW turns \in BOOLEAN,
             Loop(clicked, codeAsked, turns)
      PROVE  ListsOK'
  <2> DEFINE consumed == ConsumesKeyboard(UiTick(clicked, codeAsked))
  <2>1. /\ previous' = Current(consumed) /\ wire' = Sent(Changes(previous, previous'))
        /\ pressed' = pressed /\ connected' = connected /\ session' = session
    BY <1>1 DEF Loop
  <2>2. consumed \in BOOLEAN
    BY DEF ConsumesKeyboard
  <2> HIDE DEF consumed
  <2>3. previous' \in Seq(Held) /\ OneEntryEach(previous') /\ ModifiersNamed(previous')
    BY <2>1, <2>2, CurrentOK
  <2>5. wire' \in Seq(Message)
    <3> DEFINE sent == Changes(previous, previous')
    <3>1. sent \in Seq(Message)
      <4>1. previous \in Seq(Held)
        BY DEF ListsOK
      <4> QED BY <2>3, <4>1, ChangesOK
    <3> HIDE DEF sent
    <3>2. wire \o sent \in Seq(Message)
      BY <3>1, JoinedElements DEF ListsOK
    <3> QED BY <2>1, <3>2 DEF Sent, ListsOK, sent
  <2> QED BY <2>1, <2>3, <2>5 DEF ListsOK, OneEntryEach, ModifiersNamed, IsModifier
<1>2. ASSUME NEW p \in Physical, Press(p) PROVE ListsOK'
  <2>1. Append(pressed, p) \in Seq(Physical) /\ IsInjective(Append(pressed, p))
    <3> DEFINE a == Append(pressed, p)
    <3>1. /\ a \in Seq(Physical) /\ DOMAIN a = 1 .. Len(pressed) + 1 /\ Len(pressed) \in Nat
          /\ DOMAIN pressed = 1 .. Len(pressed)
          /\ a[Len(pressed) + 1] = p /\ \A i \in 1 .. Len(pressed) : a[i] = pressed[i]
      BY DEF ListsOK
    <3> HIDE DEF a
    <3>2. \A i \in 1 .. Len(pressed) : pressed[i] # p
      BY <1>2, <3>1 DEF Press, Range
    <3>3. IsInjective(a)
      BY <3>1, <3>2 DEF IsInjective, ListsOK
    <3> QED BY <3>1, <3>3 DEF a
  <2> QED BY <1>2, <2>1 DEF Press, ListsOK, OneEntryEach, ModifiersNamed, IsModifier
<1>3. ASSUME NEW p \in Physical, Lift(p) PROVE ListsOK'
  <2>1. PICK n \in DOMAIN pressed : pressed' = RemoveAt(pressed, n)
    BY <1>3 DEF Lift
  <2>2. pressed' \in Seq(Physical) /\ IsInjective(pressed')
    BY <2>1, LiftKeeps DEF ListsOK
  <2> QED BY <1>3, <2>2 DEF Lift, ListsOK, OneEntryEach, ModifiersNamed, IsModifier
<1>4. CASE AgentReads
  <2>1. Tail(wire) \in Seq(Message)
    BY <1>4 DEF AgentReads, ListsOK
  <2> QED BY <1>4, <2>1 DEF AgentReads, ListsOK, OneEntryEach, ModifiersNamed, IsModifier
<1>5. ASSUME NEW C, SessionEnds(C) PROVE ListsOK'
  <2>1. <<>> \in Seq(Message)
    OBVIOUS
  <2> QED BY <1>5, <2>1 DEF SessionEnds, ListsOK, OneEntryEach, ModifiersNamed, IsModifier
<1>6. CASE Connects \/ Loses \/ Others \/ UNCHANGED vars
  BY <1>6 DEF Connects, Loses, Others, vars, deckVars, ListsOK, OneEntryEach, ModifiersNamed, IsModifier
<1> QED BY <1>1, <1>2, <1>3, <1>4, <1>5, <1>6 DEF Next

LEMMA ListsAlways == Spec => []ListsOK
BY ListsInit, ListsStep, PTL DEF Spec

-----------------------------------------------------------------------------
(* A switch keeps the name of its press until it is lifted, or gets its Fn *)
(* meaning (buildCurrent and previousPhysical), whatever is chorded.       *)
THEOREM NamesKept == Spec => KeepsName
<1>1. ListsOK /\ [Next]_vars
        => [\A i \in DOMAIN previous, j \in DOMAIN previous' :
              previous[i].physical = previous'[j].physical
                => previous'[j].key \in {previous[i].key, FnName[previous[i].physical]}]_vars
  <2> SUFFICES ASSUME ListsOK, Next, NEW i \in DOMAIN previous, NEW j \in DOMAIN previous',
                      previous[i].physical = previous'[j].physical
               PROVE  previous'[j].key \in {previous[i].key, FnName[previous[i].physical]}
    OBVIOUS
  <2>1. CASE previous' = previous
    BY <2>1 DEF ListsOK, OneEntryEach
  <2>2. ASSUME NEW clicked \in BOOLEAN, NEW codeAsked \in BOOLEAN, NEW turns \in BOOLEAN,
               Loop(clicked, codeAsked, turns)
        PROVE  previous'[j].key \in {previous[i].key, FnName[previous[i].physical]}
    <3> DEFINE p == previous[i].physical
    <3>1. previous' = BuildCurrent
      <4>1. previous' = <<>> \/ previous' = BuildCurrent
        BY <2>2 DEF Loop, Current
      <4> QED BY <4>1
    <3>2. p \in Named \cup ModSwitches /\ previous'[j].key = KeyName(p)
      BY <3>1, BuildCurrentOK
    <3>3. Latched(p) = {previous[i].key}
      BY DEF Latched, ListsOK, OneEntryEach
    <3>4. CASE IsModifier(p)
      BY <3>2, <3>4 DEF KeyName, ListsOK, ModifiersNamed
    <3>5. CASE ~IsModifier(p)
      <4>1. KeyName(p) # NoName
        BY <3>2, <3>5 DEF Named, ModSwitches
      <4>2. KeyName(p) = FnName[p] \/ KeyName(p) = CHOOSE k \in Latched(p) : TRUE
        BY <3>3, <3>5, <4>1 DEF KeyName
      <4> QED BY <3>2, <3>3, <4>2
    <3> QED BY <3>4, <3>5
  <2>3. CASE UNCHANGED previous
    BY <2>1, <2>3
  <2>4. ASSUME ~\E clicked, codeAsked, turns \in BOOLEAN : Loop(clicked, codeAsked, turns)
        PROVE  UNCHANGED previous
    BY <2>4 DEF Next, Press, Lift, Connects, Loses, AgentReads, SessionEnds, Others, deckVars
  <2> QED BY <2>2, <2>3, <2>4
<1> QED BY <1>1, ListsAlways, PTL DEF Spec, KeepsName

-----------------------------------------------------------------------------
(* Every step of the whole is a step of the Agent's keyboard, or leaves it *)
(* alone.                                                                  *)
LEMMA AgentStep == ListsOK /\ [Next]_vars => [KeyNext]_keyVars
<1> SUFFICES ASSUME ListsOK, [Next]_vars PROVE KeyNext \/ UNCHANGED keyVars
  OBVIOUS
<1>1. CASE AgentReads
  <2>1. Head(wire) \in Message
    BY <1>1 DEF AgentReads, ListsOK
  <2>2. Head(wire).k \in Key /\ Head(wire).m \cap ModifierKeys \in Modifiers
    BY <2>1 DEF Message, Modifiers
  <2>3. Deck \in Conn /\ Handles(Deck, Head(wire))
    BY <1>1, DeckAssumption DEF AgentReads
  <2> QED BY <2>2, <2>3 DEF Handles, KeyNext
<1>2. ASSUME NEW C \in {{}, Conn}, SessionEnds(C) PROVE KeyNext
  <2>1. C \cup {Deck} \in SUBSET Conn
    BY DeckAssumption
  <2> QED BY <1>2, <2>1 DEF SessionEnds, KeyNext
<1>3. CASE Others
  <2>1. PICK c \in Conn \ {Deck} : \/ \E k \in OtherKeys : KeyDown(c, k, {}) \/ KeyUp(c, k)
                                   \/ ReleaseSessionKeys({c})
    BY <1>3 DEF Others
  <2>2. {c} \in SUBSET Conn /\ {} \in Modifiers /\ OtherKeys \subseteq Key
    BY DeckAssumption DEF Modifiers
  <2> QED BY <2>1, <2>2 DEF KeyNext
<1>4. CASE UNCHANGED keyVars
  BY <1>4
<1> QED BY <1>1, <1>2, <1>3, <1>4
       DEF Next, Loop, Press, Lift, Connects, Loses, vars

LEMMA AgentSpec == Spec => KeySpec
<1>1. Init => KeyInit
  BY DEF Init
<1> QED BY <1>1, AgentStep, ListsAlways, PTL DEF Spec, KeySpec

(* The up event carries the flags of the down event it ends, for whatever  *)
(* the transmitter sends, beside any other devices (_handle_key).          *)
THEOREM DeckKeyUpFlags == Spec => UpCarriesDownFlags
BY AgentSpec, KeyUpFlags

(* Fed by the transmitter over the wire, the Agent's keyboard implements   *)
(* the abstract shared keyboard: a key goes down with its first holder and *)
(* up with its last.                                                       *)
THEOREM DeckRefinement == Spec => ImplementsSharedKeyboard
BY AgentSpec, Refinement

-----------------------------------------------------------------------------
(* What is held at the Agent is known to the injector, and the Agent holds *)
(* nothing for a device it does not serve.                                 *)
HeldIsKnown == \A c \in Conn, k \in Key : Holds(c, k) => k \in KnownKeys
Unserved == ~session => wire = <<>> /\ \A k \in Key : ~Holds(Deck, k)

AgentInv == KeyInv /\ HeldIsKnown /\ Unserved /\ MacFollows

LEMMA AgentInit == Init => AgentInv
<1> SUFFICES ASSUME Init PROVE AgentInv
  OBVIOUS
<1>1. KeyInv
  BY KeyInitInv DEF Init
<1>2. \A c \in Conn, k \in Key : ~Holds(c, k)
  BY DEF Init, KeyInit, Holds
<1> QED BY <1>1, <1>2, DeckAssumption DEF AgentInv, HeldIsKnown, Unserved, MacFollows, Init

(* Who is held by whom after a call of the Agent's keyboard.               *)
LEMMA Released ==
  ASSUME NEW C \in SUBSET Conn, NEW K \in SUBSET Key, Release(C, K),
         NEW c \in Conn, NEW k \in Key
  PROVE  Holds(c, k)' <=> Holds(c, k) /\ ~(c \in C /\ k \in K)
BY DEF Release, Holds, LetsGo, Absent

LEMMA PressedDown ==
  ASSUME KeyInv, NEW d \in Conn, NEW j \in Key, NEW m, KeyDown(d, j, m),
         NEW c \in Conn, NEW k \in Key
  PROVE  Holds(c, k)' <=> Holds(c, k) \/ (c = d /\ k = j)
<1>1. held_keys' = [held_keys EXCEPT ![d][j] = {m}]
  BY DEF KeyDown
<1>2. held_keys \in [Conn -> [Key -> Entry]]
  BY DEF KeyInv, KeyTypeOK
<1>3. held_keys'[c][k] = IF c = d /\ k = j THEN {m} ELSE held_keys[c][k]
  BY <1>1, <1>2
<1> QED BY <1>3 DEF Holds, Absent

(* A key that goes down is known: the injector took it from its first      *)
(* holder.                                                                 *)
LEMMA KnownWhenDown ==
  ASSUME KeyInv, HeldIsKnown, NEW c \in Conn, NEW k \in Key, NEW m, KeyDown(c, k, m)
  PROVE  k \in KnownKeys
<1>1. CASE FirstHolder(k)
  BY <1>1 DEF KeyDown, InjectDown
<1>2. CASE ~FirstHolder(k)
  BY <1>2, OwnersAreHolders DEF FirstHolder, KeyInv, HeldIsKnown
<1> QED BY <1>1, <1>2

LEMMA KnownKept ==
  ASSUME KeyInv, HeldIsKnown, [KeyNext]_keyVars
  PROVE  HeldIsKnown'
<1>1. ASSUME NEW c \in Conn, NEW k \in Key, NEW m, KeyDown(c, k, m) PROVE HeldIsKnown'
  BY <1>1, KnownWhenDown, PressedDown DEF HeldIsKnown
<1>2. ASSUME NEW C \in SUBSET Conn, NEW K \in SUBSET Key, Release(C, K) PROVE HeldIsKnown'
  BY <1>2, Released DEF HeldIsKnown
<1>3. CASE UNCHANGED keyVars
  BY <1>3 DEF keyVars, HeldIsKnown, Holds
<1> QED BY <1>1, <1>2, <1>3 DEF KeyNext, KeyUp, ReleaseSessionKeys

(* What the Agent holds for the device after it has read a message.        *)
LEMMA ReadHolds ==
  ASSUME KeyInv, HeldIsKnown, NEW msg \in Message, Handles(Deck, msg), NEW k \in Key
  PROVE  Holds(Deck, k)' <=> IF k = msg.k THEN msg.a = "down" /\ k \in KnownKeys
                             ELSE Holds(Deck, k)
<1>1. Deck \in Conn /\ msg.k \in Key /\ msg.a \in {"up", "down"}
  BY DeckAssumption DEF Message
<1>2. CASE msg.a = "down" /\ KeyDown(Deck, msg.k, msg.m \cap ModifierKeys)
  BY <1>1, <1>2, KnownWhenDown, PressedDown
<1>3. CASE msg.a = "up" /\ KeyUp(Deck, msg.k)
  <2>1. Release({Deck}, {msg.k}) /\ {Deck} \in SUBSET Conn /\ {msg.k} \in SUBSET Key
    BY <1>1, <1>3 DEF KeyUp
  <2> QED BY <1>1, <1>3, <2>1, Released
<1>4. CASE Ignored(Deck, msg) /\ UNCHANGED keyVars
  <2>1. Holds(Deck, k)' <=> Holds(Deck, k)
    BY <1>4 DEF keyVars, Holds
  <2>2. CASE msg.a = "up"
    BY <1>4, <2>1, <2>2 DEF Ignored
  <2>3. CASE msg.a = "down"
    <3>1. Holds(Deck, msg.k) \/ msg.k \notin KnownKeys
      BY <1>4, <2>3 DEF Ignored
    <3>2. Holds(Deck, msg.k) <=> msg.k \in KnownKeys
      BY <1>1, <3>1 DEF HeldIsKnown
    <3> QED BY <2>1, <2>3, <3>2
  <2> QED BY <1>1, <2>2, <2>3
<1> QED BY <1>2, <1>3, <1>4 DEF Handles

-----------------------------------------------------------------------------
(* The last word about a key, in a sequence of messages to which key-ups   *)
(* and then key-downs are appended.                                        *)
LEMMA SentWords ==
  ASSUME NEW w \in Seq(Message), NEW u \in Seq(Message), NEW d \in Seq(Message),
         \A i \in DOMAIN u : u[i].a = "up", \A i \in DOMAIN d : d[i].a = "down",
         NEW k
  PROVE  LET v == w \o (u \o d) IN
           /\ UpAfter(v, k, 0) <=> UpAfter(w, k, 0) \/ k \in Keys(u)
           /\ EndsDown(v, k) <=> (EndsDown(w, k) /\ k \notin Keys(u)) \/ k \in Keys(d)
<1> DEFINE a == Len(w)
           b == Len(u)
           c == Len(d)
           ud == u \o d
           v == w \o ud
<1>1. /\ a \in Nat /\ b \in Nat /\ c \in Nat
      /\ DOMAIN w = 1 .. a /\ DOMAIN u = 1 .. b /\ DOMAIN d = 1 .. c
  OBVIOUS
<1>2. /\ ud \in Seq(Message) /\ DOMAIN ud = 1 .. b + c /\ Len(ud) = b + c
      /\ \A i \in DOMAIN ud : (i <= b => ud[i] = u[i]) /\ (i > b => ud[i] = d[i - b])
  <2>1. Len(ud) = b + c
    OBVIOUS
  <2> QED BY <2>1, JoinedAt
<1> HIDE DEF ud
<1>3. /\ DOMAIN v = 1 .. a + (b + c)
      /\ \A i \in DOMAIN v : (i <= a => v[i] = w[i]) /\ (i > a => v[i] = ud[i - a])
  <2>1. DOMAIN v = 1 .. a + Len(ud)
    <3>1. v \in Seq(Message) /\ Len(v) = a + Len(ud)
      <4>1. ud \in Seq(Message) /\ w \in Seq(Message)
        BY <1>2
      <4> QED BY ONLY <4>1, JoinedElements
    <3> HIDE DEF v, a
    <3> QED BY <3>1
  <2>2. ASSUME NEW i \in DOMAIN v PROVE (i <= a => v[i] = w[i]) /\ (i > a => v[i] = ud[i - a])
    BY <1>2
  <2> QED BY <1>2, <2>1, <2>2
<1> HIDE DEF v, a, b, c
<1>4. ASSUME NEW i \in DOMAIN v
      PROVE  /\ i \in Nat /\ i >= 1 /\ i <= a + (b + c)
             /\ i > a => i - a \in DOMAIN ud /\ (i - a > b => i - a - b \in DOMAIN d)
             /\ i > a /\ i <= a + b => i - a \in DOMAIN u
  BY <1>1, <1>2, <1>3
<1>5. ASSUME NEW i \in 1 .. b PROVE v[a + i] = u[i] /\ a + i \in DOMAIN v /\ a + i > a
  <2> DEFINE p == a + i
  <2>1. p \in DOMAIN v /\ p > a /\ p - a = i /\ i \in DOMAIN ud /\ i <= b
    BY <1>1, <1>2, <1>3
  <2> HIDE DEF p
  <2>2. v[p] = ud[i]
    BY <1>3, <2>1
  <2>3. ud[i] = u[i]
    BY <1>2, <2>1
  <2> QED BY <2>1, <2>2, <2>3 DEF p
<1>6. ASSUME NEW i \in 1 .. c PROVE v[a + (b + i)] = d[i] /\ a + (b + i) \in DOMAIN v
  <2> DEFINE q == b + i
             p == a + q
  <2>1. p \in DOMAIN v /\ p > a /\ p - a = q /\ q \in DOMAIN ud /\ q > b /\ q - b = i
    BY <1>1, <1>2, <1>3
  <2> HIDE DEF p, q
  <2>2. v[p] = ud[q]
    BY <1>3, <2>1
  <2>3. ud[q] = d[i]
    BY <1>2, <2>1
  <2> QED BY <2>1, <2>2, <2>3 DEF p, q
<1>7. ASSUME NEW i \in DOMAIN v
      PROVE  \/ i \in DOMAIN w /\ i <= a /\ v[i] = w[i]
             \/ i > a /\ i <= a + b /\ i - a \in DOMAIN u /\ v[i] = u[i - a]
             \/ i > a + b /\ i - a - b \in DOMAIN d /\ v[i] = d[i - a - b]
  <2>2. CASE i <= a
    BY <1>1, <1>3, <1>4, <2>2
  <2>3. CASE i > a /\ i <= a + b
    <3>1. i - a <= b /\ i - a \in DOMAIN ud /\ i - a \in DOMAIN u
      BY <1>1, <1>4, <2>3
    <3>2. v[i] = ud[i - a] /\ ud[i - a] = u[i - a]
      BY <1>2, <1>3, <2>3, <3>1
    <3> QED BY <2>3, <3>1, <3>2
  <2>4. CASE i > a + b
    <3>1. i > a /\ i - a > b /\ i - a \in DOMAIN ud /\ i - a - b \in DOMAIN d
      BY <1>1, <1>4, <2>4
    <3>2. v[i] = ud[i - a] /\ ud[i - a] = d[i - a - b]
      BY <1>2, <1>3, <3>1
    <3> QED BY <2>4, <3>1, <3>2
  <2> QED BY <1>1, <1>4, <2>2, <2>3, <2>4
<1>8. ASSUME NEW i \in DOMAIN w PROVE i \in DOMAIN v /\ v[i] = w[i] /\ i \in 0 .. a
  BY <1>1, <1>3
<1>9. ASSUME NEW n \in 0 .. a
      PROVE  UpAfter(v, k, n) <=> UpAfter(w, k, n) \/ k \in Keys(u)
  <2>1. ASSUME UpAfter(v, k, n) PROVE UpAfter(w, k, n) \/ k \in Keys(u)
    <3>1. PICK j \in DOMAIN v : j > n /\ v[j].k = k /\ v[j].a = "up"
      BY <2>1 DEF UpAfter
    <3> QED BY <1>7, <3>1 DEF UpAfter, Keys
  <2>2. ASSUME UpAfter(w, k, n) PROVE UpAfter(v, k, n)
    BY <1>8, <2>2 DEF UpAfter
  <2>3. ASSUME k \in Keys(u) PROVE UpAfter(v, k, n)
    <3>1. PICK i \in 1 .. b : u[i].k = k /\ u[i].a = "up"
      BY <1>1, <2>3 DEF Keys
    <3>2. a + i \in DOMAIN v /\ v[a + i] = u[i] /\ a + i > n
      BY <1>1, <1>5, <3>1
    <3> QED BY <3>1, <3>2 DEF UpAfter
  <2> QED BY <2>1, <2>2, <2>3
<1>10. ASSUME NEW i \in 1 .. c PROVE ~UpAfter(v, k, a + (b + i))
  <2> SUFFICES ASSUME NEW j \in DOMAIN v, j > a + (b + i), v[j].a = "up" PROVE FALSE
    BY DEF UpAfter
  <2>1. j \in Nat /\ j > a + b
    BY <1>1, <1>4
  <2> QED BY <1>1, <1>7, <2>1
<1>11. ASSUME EndsDown(v, k) PROVE (EndsDown(w, k) /\ k \notin Keys(u)) \/ k \in Keys(d)
  <2>1. PICK i \in DOMAIN v : v[i].k = k /\ v[i].a = "down" /\ ~UpAfter(v, k, i)
    BY <1>11 DEF EndsDown
  <2>2. CASE i \in DOMAIN w /\ v[i] = w[i]
    <3>1. ~UpAfter(w, k, i) /\ k \notin Keys(u)
      BY <1>8, <1>9, <2>1, <2>2
    <3> QED BY <2>1, <2>2, <3>1 DEF EndsDown
  <2> QED BY <1>7, <2>1, <2>2 DEF Keys
<1>12. ASSUME EndsDown(w, k), k \notin Keys(u) PROVE EndsDown(v, k)
  <2>1. PICK i \in DOMAIN w : w[i].k = k /\ w[i].a = "down" /\ ~UpAfter(w, k, i)
    BY <1>12 DEF EndsDown
  <2>2. i \in DOMAIN v /\ v[i] = w[i] /\ ~UpAfter(v, k, i)
    BY <1>8, <1>9, <1>12, <2>1
  <2> QED BY <2>1, <2>2 DEF EndsDown
<1>13. ASSUME k \in Keys(d) PROVE EndsDown(v, k)
  <2>1. PICK i \in 1 .. c : d[i].k = k /\ d[i].a = "down"
    BY <1>1, <1>13 DEF Keys
  <2>2. /\ a + (b + i) \in DOMAIN v /\ v[a + (b + i)] = d[i]
        /\ ~UpAfter(v, k, a + (b + i))
    BY <1>6, <1>10, <2>1
  <2> QED BY <2>1, <2>2 DEF EndsDown
<1>14. 0 \in 0 .. a
  BY <1>1
<1>15. UpAfter(v, k, 0) <=> UpAfter(w, k, 0) \/ k \in Keys(u)
  BY <1>9, <1>14
<1>16. EndsDown(v, k) <=> (EndsDown(w, k) /\ k \notin Keys(u)) \/ k \in Keys(d)
  BY <1>11, <1>12, <1>13
<1> QED BY <1>15, <1>16 DEF v, ud

(* The last word about a key, when the first message is read.              *)
LEMMA ReadWords ==
  ASSUME NEW w \in Seq(Message), w # <<>>, NEW k
  PROVE  /\ UpAfter(w, k, 0)
              <=> UpAfter(Tail(w), k, 0) \/ (Head(w).k = k /\ Head(w).a = "up")
         /\ EndsDown(w, k)
              <=> \/ EndsDown(Tail(w), k)
                  \/ Head(w).k = k /\ Head(w).a = "down" /\ ~UpAfter(Tail(w), k, 0)
<1> DEFINE v == Tail(w)
<1>1. Len(w) \in Nat \ {0} /\ DOMAIN w = 1 .. Len(w) /\ Head(w) = w[1] /\ 1 \in DOMAIN w
  OBVIOUS
<1>2. DOMAIN v = 1 .. Len(w) - 1 /\ \A i \in 1 .. Len(w) - 1 : v[i] = w[i + 1]
  OBVIOUS
<1> HIDE DEF v
<1>3. ASSUME NEW i \in DOMAIN v PROVE i \in Nat /\ i >= 1 /\ i + 1 \in DOMAIN w /\ w[i + 1] = v[i]
  BY <1>1, <1>2
<1>4. ASSUME NEW i \in DOMAIN w
      PROVE  i \in Nat /\ (i = 1 \/ (i > 1 /\ i - 1 \in DOMAIN v /\ w[i] = v[i - 1]))
  <2>1. i \in Nat /\ i >= 1 /\ i <= Len(w)
    BY <1>1
  <2>2. CASE i > 1
    <3> DEFINE p == i - 1
    <3>1. p \in 1 .. Len(w) - 1 /\ p + 1 = i
      BY <1>1, <2>1, <2>2
    <3> HIDE DEF p
    <3>2. p \in DOMAIN v /\ v[p] = w[i]
      BY <1>2, <3>1
    <3>3. i - 1 \in DOMAIN v /\ w[i] = v[i - 1]
      BY <3>2 DEF p
    <3> QED BY <2>1, <2>2, <3>3
  <2>3. i = 1 \/ i > 1
    BY <2>1
  <2> QED BY <2>1, <2>2, <2>3
<1>5. ASSUME NEW n \in Nat PROVE UpAfter(v, k, n) <=> UpAfter(w, k, n + 1)
  <2>1. ASSUME UpAfter(v, k, n) PROVE UpAfter(w, k, n + 1)
    <3>1. PICK j \in DOMAIN v : j > n /\ v[j].k = k /\ v[j].a = "up"
      BY <2>1 DEF UpAfter
    <3>2. j + 1 \in DOMAIN w /\ w[j + 1] = v[j] /\ j + 1 > n + 1
      BY <1>3, <3>1
    <3> QED BY <3>1, <3>2 DEF UpAfter
  <2>2. ASSUME UpAfter(w, k, n + 1) PROVE UpAfter(v, k, n)
    <3>1. PICK j \in DOMAIN w : j > n + 1 /\ w[j].k = k /\ w[j].a = "up"
      BY <2>2 DEF UpAfter
    <3>2. j - 1 \in DOMAIN v /\ w[j] = v[j - 1] /\ j - 1 > n
      BY <1>4, <3>1
    <3> QED BY <3>1, <3>2 DEF UpAfter
  <2> QED BY <2>1, <2>2
<1>6. UpAfter(w, k, 1) <=> UpAfter(v, k, 0)
  BY <1>5
<1>7. UpAfter(w, k, 0) <=> UpAfter(w, k, 1) \/ (w[1].k = k /\ w[1].a = "up")
  <2>1. \A j \in DOMAIN w : j > 0 /\ (j > 1 \/ j = 1) /\ (j > 1 => j # 1)
    BY <1>1
  <2> QED BY <1>1, <2>1 DEF UpAfter
<1>8. ASSUME EndsDown(v, k) PROVE EndsDown(w, k)
  <2>1. PICK i \in DOMAIN v : v[i].k = k /\ v[i].a = "down" /\ ~UpAfter(v, k, i)
    BY <1>8 DEF EndsDown
  <2>2. i + 1 \in DOMAIN w /\ w[i + 1] = v[i] /\ ~UpAfter(w, k, i + 1)
    BY <1>3, <1>5, <2>1
  <2> QED BY <2>1, <2>2 DEF EndsDown
<1>9. ASSUME w[1].k = k, w[1].a = "down", ~UpAfter(v, k, 0) PROVE EndsDown(w, k)
  BY <1>1, <1>6, <1>9 DEF EndsDown
<1>10. ASSUME EndsDown(w, k)
       PROVE  EndsDown(v, k) \/ (w[1].k = k /\ w[1].a = "down" /\ ~UpAfter(v, k, 0))
  <2>1. PICK i \in DOMAIN w : w[i].k = k /\ w[i].a = "down" /\ ~UpAfter(w, k, i)
    BY <1>10 DEF EndsDown
  <2>2. CASE i = 1
    BY <1>6, <2>1, <2>2
  <2>3. CASE i > 1
    <3>1. i - 1 \in Nat /\ (i - 1) + 1 = i /\ i - 1 \in DOMAIN v /\ w[i] = v[i - 1]
      BY <1>4, <2>3
    <3>2. ~UpAfter(v, k, i - 1)
      BY <1>5, <2>1, <3>1
    <3> QED BY <2>1, <3>1, <3>2 DEF EndsDown
  <2> QED BY <1>4, <2>2, <2>3
<1> HIDE DEF v
<1>11. UpAfter(w, k, 0) <=> UpAfter(v, k, 0) \/ (Head(w).k = k /\ Head(w).a = "up")
  BY <1>1, <1>6, <1>7
<1>12. EndsDown(w, k) <=> EndsDown(v, k) \/ (Head(w).k = k /\ Head(w).a = "down" /\ ~UpAfter(v, k, 0))
  BY <1>1, <1>8, <1>9, <1>10
<1> QED BY <1>11, <1>12 DEF v

-----------------------------------------------------------------------------
(* The steps that concern the device's keys at the Mac.                    *)
LEMMA WillHoldIs ==
  ASSUME NEW k \in Key
  PROVE  /\ k \in WillHold <=> \/ Holds(Deck, k) /\ ~UpAfter(wire, k, 0)
                               \/ k \in KnownKeys /\ EndsDown(wire, k)
         /\ k \in WillHold' <=> \/ Holds(Deck, k)' /\ ~UpAfter(wire', k, 0)
                                \/ k \in KnownKeys /\ EndsDown(wire', k)
<1> DEFINE Will(j) == \/ Holds(Deck, j) /\ ~UpAfter(wire, j, 0)
                      \/ j \in KnownKeys /\ EndsDown(wire, j)
           WillNext(j) == \/ Holds(Deck, j)' /\ ~UpAfter(wire', j, 0)
                          \/ j \in KnownKeys /\ EndsDown(wire', j)
<1>1. WillHold = {j \in Key : Will(j)} /\ WillHold' = {j \in Key : WillNext(j)}
  BY DEF WillHold
<1> HIDE DEF Will, WillNext
<1>2. (k \in WillHold <=> Will(k)) /\ (k \in WillHold' <=> WillNext(k))
  BY <1>1
<1> QED BY <1>2 DEF Will, WillNext

LEMMA LoopFollows ==
  ASSUME ListsOK, AgentInv, NEW clicked \in BOOLEAN, NEW codeAsked \in BOOLEAN,
         NEW turns \in BOOLEAN, Loop(clicked, codeAsked, turns)
  PROVE  MacFollows'
<1> DEFINE consumed == ConsumesKeyboard(UiTick(clicked, codeAsked))
<1>1. /\ previous' = Current(consumed) /\ wire' = Sent(Changes(previous, previous'))
      /\ connected' = connected /\ session' = session /\ UNCHANGED keyVars
  BY DEF Loop
<1>2. consumed \in BOOLEAN
  BY DEF ConsumesKeyboard
<1> HIDE DEF consumed
<1>3. previous \in Seq(Held) /\ previous' \in Seq(Held) /\ wire \in Seq(Message)
  BY <1>1, <1>2, CurrentOK DEF ListsOK
<1> SUFFICES ASSUME connected, session PROVE WillHold' = Names(previous)' \cap KnownKeys
  BY <1>1 DEF MacFollows
<1>0. PICK now \in Seq(Held) : now = previous'
  BY <1>3
<1> DEFINE u == Ups(previous, now)
           d == Downs(previous, now)
<1> HIDE DEF u, d
<1>4. /\ u \in Seq(Message) /\ d \in Seq(Message) /\ Changes(previous, now) = u \o d
      /\ \A i \in DOMAIN u : u[i].a = "up"
      /\ \A i \in DOMAIN d : d[i].a = "down"
      /\ \A k : /\ k \in Keys(u) <=> k \in Names(previous) /\ k \notin Names(now)
                /\ k \in Keys(d) <=> k \in Names(now) /\ k \notin Names(previous)
  <2>1. u = Ups(previous, now) /\ d = Downs(previous, now)
    BY DEF u, d
  <2>2. /\ Ups(previous, now) \in Seq(Message) /\ Downs(previous, now) \in Seq(Message)
        /\ Changes(previous, now) = Ups(previous, now) \o Downs(previous, now)
        /\ \A i \in DOMAIN Ups(previous, now) : Ups(previous, now)[i].a = "up"
        /\ \A i \in DOMAIN Downs(previous, now) : Downs(previous, now)[i].a = "down"
    <3>1. Ups(previous, now) \in Seq(Message) /\ Downs(previous, now) \in Seq(Message)
      BY <1>3, ChangesOK
    <3>2. Changes(previous, now) = Ups(previous, now) \o Downs(previous, now)
      BY <1>3, ChangesOK
    <3>3. \A i \in DOMAIN Ups(previous, now) : Ups(previous, now)[i].a = "up"
      BY <1>3, ChangesOK
    <3>4. \A i \in DOMAIN Downs(previous, now) : Downs(previous, now)[i].a = "down"
      BY <1>3, ChangesOK
    <3> QED BY <3>1, <3>2, <3>3, <3>4
  <2>3. ASSUME NEW k
        PROVE  /\ k \in Keys(Ups(previous, now)) <=> k \in Names(previous) /\ k \notin Names(now)
               /\ k \in Keys(Downs(previous, now)) <=> k \in Names(now) /\ k \notin Names(previous)
    BY <1>3, ChangesKeys
  <2> QED BY <2>1, <2>2, <2>3
<1>5. wire' = wire \o (u \o d)
  BY <1>0, <1>1, <1>4 DEF Sent
<1>6. WillHold = Names(previous) \cap KnownKeys
  BY DEF AgentInv, MacFollows
<1>7. ASSUME NEW k \in Key
      PROVE  k \in WillHold' <=> k \in Names(now) \cap KnownKeys
  <2>1. /\ UpAfter(wire', k, 0) <=> UpAfter(wire, k, 0) \/ k \in Keys(u)
        /\ EndsDown(wire', k) <=> (EndsDown(wire, k) /\ k \notin Keys(u)) \/ k \in Keys(d)
    BY <1>3, <1>4, <1>5, SentWords
  <2>2. Holds(Deck, k)' <=> Holds(Deck, k)
    BY <1>1 DEF keyVars, Holds
  <2>3. k \in WillHold' <=> \/ k \in WillHold /\ k \notin Keys(u)
                            \/ k \in KnownKeys /\ k \in Keys(d)
    <3>1. /\ k \in WillHold <=> \/ Holds(Deck, k) /\ ~UpAfter(wire, k, 0)
                                \/ k \in KnownKeys /\ EndsDown(wire, k)
          /\ k \in WillHold' <=> \/ Holds(Deck, k)' /\ ~UpAfter(wire', k, 0)
                                 \/ k \in KnownKeys /\ EndsDown(wire', k)
      BY WillHoldIs
    <3>2. CASE k \in Keys(u)
      BY <2>1, <2>2, <3>1, <3>2
    <3>3. CASE k \notin Keys(u)
      BY <2>1, <2>2, <3>1, <3>3
    <3> QED BY <3>2, <3>3
  <2>4. /\ k \in Keys(u) <=> k \in Names(previous) /\ k \notin Names(now)
        /\ k \in Keys(d) <=> k \in Names(now) /\ k \notin Names(previous)
    BY <1>4
  <2>5. k \in WillHold <=> k \in Names(previous) /\ k \in KnownKeys
    BY <1>6
  <2>6. k \in WillHold' <=> k \in Names(now) /\ k \in KnownKeys
    BY <2>3, <2>4, <2>5
  <2> QED BY <2>6
<1>8. WillHold' \subseteq Key /\ KnownKeys \subseteq Key
  BY KeyAssumption DEF WillHold
<1>9. Names(previous)' = Names(now)
  BY <1>0 DEF Names
<1> QED BY <1>7, <1>8, <1>9

LEMMA ReadFollows ==
  ASSUME ListsOK, AgentInv, AgentReads
  PROVE  MacFollows'
<1>1. ASSUME NEW k \in Key PROVE k \in WillHold' <=> k \in WillHold
  <2> DEFINE msg == Head(wire)
  <2>1. wire \in Seq(Message) /\ wire # <<>> /\ wire' = Tail(wire) /\ Handles(Deck, msg)
    BY DEF AgentReads, ListsOK
  <2>2. msg \in Message
    BY <2>1
  <2>3. Holds(Deck, k)' <=> IF k = msg.k THEN msg.a = "down" /\ k \in KnownKeys
                            ELSE Holds(Deck, k)
    BY <2>1, <2>2, ReadHolds DEF AgentInv
  <2>4. Holds(Deck, k) => k \in KnownKeys
    BY DeckAssumption DEF AgentInv, HeldIsKnown
  <2>5. msg.a \in {"up", "down"}
    BY <2>2 DEF Message
  <2> HIDE DEF msg
  <2>6. /\ UpAfter(wire, k, 0) <=> UpAfter(wire', k, 0) \/ (msg.k = k /\ msg.a = "up")
        /\ EndsDown(wire, k)
             <=> \/ EndsDown(wire', k)
                 \/ msg.k = k /\ msg.a = "down" /\ ~UpAfter(wire', k, 0)
    BY <2>1, ReadWords DEF msg
  <2>7. CASE k = msg.k /\ msg.a = "up"
    <3>1. ~Holds(Deck, k)' /\ UpAfter(wire, k, 0) /\ (EndsDown(wire, k) <=> EndsDown(wire', k))
      BY <2>3, <2>6, <2>7
    <3> QED BY <3>1, WillHoldIs, Zenon
  <2>8. CASE k = msg.k /\ msg.a = "down"
    <3>1. /\ Holds(Deck, k)' <=> k \in KnownKeys
          /\ UpAfter(wire, k, 0) <=> UpAfter(wire', k, 0)
          /\ EndsDown(wire, k) <=> EndsDown(wire', k) \/ ~UpAfter(wire', k, 0)
      BY <2>3, <2>6, <2>8
    <3> QED BY <2>4, <3>1, WillHoldIs, Zenon
  <2>9. CASE k # msg.k
    <3>1. /\ Holds(Deck, k)' <=> Holds(Deck, k)
          /\ UpAfter(wire, k, 0) <=> UpAfter(wire', k, 0)
          /\ EndsDown(wire, k) <=> EndsDown(wire', k)
      BY <2>3, <2>6, <2>9
    <3> QED BY <3>1, WillHoldIs, Zenon
  <2> QED BY <2>5, <2>7, <2>8, <2>9
<1>2. WillHold' = WillHold
  BY <1>1 DEF WillHold
<1>3. UNCHANGED <<previous, connected, session>>
  BY DEF AgentReads
<1> QED BY <1>2, <1>3 DEF AgentInv, MacFollows, Names

LEMMA AgentInvStep == ListsOK /\ AgentInv /\ [Next]_vars => AgentInv'
<1> SUFFICES ASSUME ListsOK, AgentInv, [Next]_vars PROVE AgentInv'
  OBVIOUS
<1>1. [KeyNext]_keyVars
  BY AgentStep
<1>2. KeyInv' /\ HeldIsKnown'
  BY <1>1, KeyNextInv, KnownKept DEF AgentInv
<1>3. ASSUME NEW clicked \in BOOLEAN, NEW codeAsked \in BOOLEAN, NEW turns \in BOOLEAN,
             Loop(clicked, codeAsked, turns)
      PROVE  Unserved' /\ MacFollows'
  <2>1. Unserved'
    BY <1>3 DEF Loop, Sent, AgentInv, Unserved, keyVars, Holds
  <2> QED BY <1>3, <2>1, LoopFollows
<1>4. ASSUME AgentReads PROVE Unserved' /\ MacFollows'
  <2>1. Unserved'
    BY <1>4 DEF AgentReads, Unserved
  <2> QED BY <1>4, <2>1, ReadFollows
<1>5. ASSUME NEW C \in {{}, Conn}, SessionEnds(C) PROVE Unserved' /\ MacFollows'
  <2>1. C \cup {Deck} \in SUBSET Conn /\ Key \in SUBSET Key /\ Release(C \cup {Deck}, Key)
    BY <1>5, DeckAssumption DEF SessionEnds, ReleaseSessionKeys
  <2>2. \A k \in Key : ~Holds(Deck, k)'
    BY <2>1, Released, DeckAssumption
  <2> QED BY <1>5, <2>2 DEF SessionEnds, Unserved, MacFollows
<1>6. ASSUME Connects PROVE Unserved' /\ MacFollows'
  <2>1. wire = <<>> /\ \A k \in Key : ~Holds(Deck, k)
    BY <1>6 DEF Connects, AgentInv, Unserved
  <2>2. wire' = <<>> /\ previous' = <<>> /\ \A k \in Key : ~Holds(Deck, k)'
    BY <1>6, <2>1 DEF Connects, keyVars, Holds
  <2>3. Unserved'
    BY <2>2 DEF Unserved
  <2>4. \A k \in Key : k \notin WillHold'
    <3>1. \A k \in Key : ~EndsDown(wire', k)
      BY <2>2 DEF EndsDown
    <3> QED BY <2>2, <3>1, WillHoldIs
  <2>5. WillHold' = {} /\ Names(previous)' = {}
    BY <2>2, <2>4 DEF WillHold, Names
  <2>6. MacFollows'
    BY <2>5 DEF MacFollows
  <2> QED BY <2>3, <2>6
<1>7. ASSUME Others PROVE Unserved' /\ MacFollows'
  <2>1. \A k \in Key : Holds(Deck, k)' <=> Holds(Deck, k)
    <3>1. PICK c \in Conn \ {Deck} : \/ \E k \in OtherKeys : KeyDown(c, k, {}) \/ KeyUp(c, k)
                                     \/ ReleaseSessionKeys({c})
      BY <1>7 DEF Others
    <3>2. ASSUME NEW j \in OtherKeys, KeyDown(c, j, {}), NEW k \in Key
          PROVE  Holds(Deck, k)' <=> Holds(Deck, k)
      BY <3>2, PressedDown, DeckAssumption DEF AgentInv
    <3>3. ASSUME NEW K \in SUBSET Key, Release({c}, K), NEW k \in Key
          PROVE  Holds(Deck, k)' <=> Holds(Deck, k)
      <4>1. {c} \in SUBSET Conn
        OBVIOUS
      <4> QED BY <3>3, <4>1, Released, DeckAssumption
    <3>4. \A k \in OtherKeys : {k} \in SUBSET Key
      BY DeckAssumption
    <3> QED BY <3>1, <3>2, <3>3, <3>4 DEF KeyUp, ReleaseSessionKeys
  <2>2. UNCHANGED <<wire, previous, connected, session>>
    BY <1>7 DEF Others, deckVars
  <2>3. WillHold' = WillHold
    BY <2>1, <2>2 DEF WillHold
  <2>4. Unserved'
    BY <2>1, <2>2 DEF AgentInv, Unserved
  <2>5. MacFollows'
    BY <2>2, <2>3 DEF AgentInv, MacFollows, Names
  <2> QED BY <2>4, <2>5
<1>8. ASSUME UNCHANGED <<wire, session, keyVars>>, MacFollows' \/ UNCHANGED <<previous, connected>>
      PROVE  Unserved' /\ MacFollows'
  <2>1. \A k \in Key : Holds(Deck, k)' <=> Holds(Deck, k)
    BY <1>8 DEF keyVars, Holds
  <2>2. WillHold' = WillHold
    BY <1>8, <2>1 DEF WillHold
  <2> QED BY <1>8, <2>1, <2>2 DEF AgentInv, Unserved, MacFollows, Names
<1>9. ASSUME NEW p \in Physical, Press(p) \/ Lift(p) PROVE Unserved' /\ MacFollows'
  BY <1>8, <1>9 DEF Press, Lift
<1>10. ASSUME Loses PROVE Unserved' /\ MacFollows'
  <2>1. MacFollows'
    <3>1. ~connected'
      BY <1>10 DEF Loses
    <3> QED BY <3>1 DEF MacFollows
  <2> QED BY <1>8, <1>10, <2>1 DEF Loses
<1>11. ASSUME UNCHANGED vars PROVE Unserved' /\ MacFollows'
  <2>1. UNCHANGED <<wire, session, keyVars>> /\ UNCHANGED <<previous, connected>>
    BY <1>11 DEF vars, deckVars
  <2> QED BY <1>8, <2>1
<1>12. Unserved' /\ MacFollows'
  <2>1. CASE UNCHANGED vars
    BY <1>11, <2>1
  <2>2. CASE Next
    BY <1>3, <1>4, <1>5, <1>6, <1>7, <1>9, <1>10, <2>2 DEF Next
  <2> QED BY <2>1, <2>2
<1> QED BY <1>2, <1>12 DEF AgentInv

(* Once the Agent has read what is on its way it holds for the device what *)
(* the transmitter believes to hold (KeyTransmitter::tick against          *)
(* _handle_key): no key is left down at the Mac and none goes missing,     *)
(* whatever is pressed and chorded, and however often links, sessions and  *)
(* other devices come and go.                                              *)
THEOREM AgentFollows == Spec => []MacFollows
<1>1. Spec => []AgentInv
  BY AgentInit, AgentInvStep, ListsAlways, PTL DEF Spec
<1> QED BY <1>1, PTL DEF AgentInv

=============================================================================
