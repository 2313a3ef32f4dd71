------------------------------ MODULE DeckKeys ------------------------------
(* The keys of a Cardputer, from the matrix to macOS: DeviceUi decides who *)
(* the keyboard works for (UiMode), KeyTransmitter turns what is pressed   *)
(* into key messages (key_tx.cpp, keymap.cpp), the connection carries      *)
(* them, and the Agent injects them (KeyOwnership).  deck is the           *)
(* Cardputer's connection; the others are any devices.                     *)
EXTENDS KeyOwnership, UiMode, Lists, Naturals, Sequences, SequencesExt

CONSTANTS Deck,        \* the connection of the Cardputer
          OtherKeys,   \* the keys other devices press, without modifiers
          Physical,    \* switches of the matrix
          FnKey,       \* the one that is Fn
          NoName,      \* what a switch that means nothing is mapped to
          ModName,     \* mapModifier, and what holding the switch flags
          PlainName,   \* mapSpecialKey, or the printable character
          FnName,      \* mapFnKey
          Capacity,    \* the size of KeyTransmitter's lists
          WireLength   \* bound: messages on their way

ASSUME DeckAssumption ==
  /\ Deck \in Conn
  /\ Capacity \in Nat \ {0} /\ WireLength \in Nat
  /\ \A f \in {ModName, PlainName, FnName} : f \in [Physical -> Key \cup {NoName}]
  /\ OtherKeys \subseteq Key

VARIABLES pressed,   \* keyList(): the switches that are down, oldest first
          ui,        \* DeviceUi
          previous,  \* KeyTransmitter.previous_
          connected, \* PairingManager.connected()
          session,   \* the Agent serves the connection
          wire,      \* key messages on their way to it
          local      \* the pressed switches that were seen in Local mode

deckVars == <<pressed, ui, previous, connected, session, wire, local>>
vars == <<deckVars, keyVars>>

Names(list) == {list[i].key : i \in DOMAIN list}
Switches(list) == {list[i].physical : i \in DOMAIN list}

Init ==
  /\ KeyInit
  /\ pressed = <<>> /\ ui = UiBooted /\ previous = <<>> /\ local = {}
  /\ connected = FALSE /\ session = FALSE /\ wire = <<>>

-----------------------------------------------------------------------------
(* buildCurrent.                                                           *)
IsModifier(p) == ModName[p] # NoName
ModSwitches == {p \in Physical : IsModifier(p)}
Flags == {ModName[p] : p \in Range(pressed) \cap ModSwitches}
Fn == FnKey \in Range(pressed)

(* previousPhysical: the name a switch was given when it went down.        *)
(* MUTANT: it is not remembered.                                           *)
NeverLatched(p) == {}

Latched(p) == {previous[i].key : i \in {j \in DOMAIN previous : previous[j].physical = p}}

KeyName(p) ==
  IF IsModifier(p) THEN ModName[p]
  ELSE IF p = FnKey THEN NoName
  ELSE IF Fn /\ FnName[p] # NoName THEN FnName[p]
  ELSE IF Latched(p) # {} THEN CHOOSE k \in Latched(p) : TRUE
  ELSE IF Fn THEN NoName ELSE PlainName[p]

(* A switch that means nothing is skipped.                                 *)
Named == {p \in Physical : KeyName(p) # NoName}

(* The modifiers come first; what exceeds the capacity is left out.        *)
Limit(n) == IF n < Capacity THEN n ELSE Capacity

BuildCurrent ==
  LET all == Only(pressed, ModSwitches) \o Only(pressed, Named \ ModSwitches)
      Active(p) == [key |-> KeyName(p), physical |-> p, flags |-> Flags]
  IN  [i \in 1 .. Limit(Len(all)) |-> Active(all[i])]

(* send: the key-up of a modifier does not carry its own flag.             *)
Down(a) == [k |-> a.key, a |-> "down", m |-> a.flags]
Up(a)   == [k |-> a.key, a |-> "up", m |-> a.flags \ {a.key}]
Each(Op(_), list) == [i \in DOMAIN list |-> Op(list[i])]

(* tick's two loops: the keys that are gone, then the new ones.            *)
(* MUTANT: keys that are gone are looked up by switch.                     *)
GoneSwitch(old, new) == Only(old, {a \in Range(old) : a.physical \notin Switches(new)})

Without(list, names) == Only(list, {a \in Range(list) : a.key \notin names})
Gone(old, new) == Without(old, Names(new))

Changes(old, new) == Each(Up, Gone(old, new)) \o Each(Down, Without(new, Names(old)))

(* What KeyTransmitter.tick makes of it: nothing is held while the         *)
(* keyboard is consumed or the Mac is away.                                *)
(* MUTANT: while it is consumed, what is held stays held.                  *)
ConsumedStays(consumed) == IF ~connected THEN <<>> ELSE IF consumed THEN previous ELSE BuildCurrent

Current(consumed) == IF consumed \/ ~connected THEN <<>> ELSE BuildCurrent

(* sendKey writes nothing unless connected; to a connection that the Agent *)
(* has left, it writes in vain.                                            *)
Sent(messages) == IF connected /\ session THEN wire \o messages ELSE wire

-----------------------------------------------------------------------------
(* loop: ui.tick and keys.tick, after whatever pairing.tick did.  clicked  *)
(* is BtnA, codeAsked a Mac that wants a pair code, turns whether a key    *)
(* that acts on a page changes the page (to which one makes no difference  *)
(* here, unless it asks for the pair code).  The screen stays on.          *)
UiTick(clicked, codeAsked) ==
  LET held == pressed # <<>> IN
  PairingInterrupts(Woken(Unsuppressed(BtnA(ui, clicked, held), held), held),
                    codeAsked, connected, held)

Loop(clicked, codeAsked, turns) ==
  LET held == pressed # <<>> IN
  /\ codeAsked => ~connected
  /\ turns => held
  /\ \E u \in {UiTick(clicked, codeAsked)} :
     \E now \in {Current(ConsumesKeyboard(u))} :
       /\ turns => u.mode = "Local" /\ ~u.suppress
       /\ wire' = Sent(Changes(previous, now)) /\ Len(wire') <= WireLength
       /\ ui' = IF turns THEN SetPage(u, "Computers", held) ELSE u
       /\ previous' = now
       /\ local' = IF ui.mode = "Local" THEN Range(pressed) ELSE local
       /\ UNCHANGED <<pressed, connected, session, keyVars>>

Idle == Loop(FALSE, FALSE, FALSE)

Press(p) ==
  /\ p \notin Range(pressed) /\ pressed' = Append(pressed, p)
  /\ UNCHANGED <<ui, previous, connected, session, wire, local, keyVars>>

Lift(p) ==
  /\ \E n \in DOMAIN pressed : pressed[n] = p /\ pressed' = RemoveAt(pressed, n)
  /\ local' = local \ {p}
  /\ UNCHANGED <<ui, previous, connected, session, wire, keyVars>>

(* pairing.tick: the handshake is done; a loop that finds the Mac away has *)
(* run since the last time.                                                *)
Connects ==
  /\ ~connected /\ previous = <<>> /\ ~session /\ connected' = TRUE /\ session' = TRUE
  /\ UNCHANGED <<pressed, ui, previous, wire, local, keyVars>>

Loses ==
  /\ connected /\ connected' = FALSE
  /\ UNCHANGED <<pressed, ui, previous, session, wire, local, keyVars>>

-----------------------------------------------------------------------------
(* The Agent: a message, the end of the session when the device has left   *)
(* and all is read, or at any other time; other devices; a stop.           *)
Ignored(c, msg) ==
  IF msg.a = "up" THEN ~Holds(c, msg.k)
  ELSE Holds(c, msg.k) \/ (FirstHolder(msg.k) /\ msg.k \notin KnownKeys)

(* What names no modifier is dropped from a message.                       *)
Handles(c, msg) ==
  \/ msg.a = "down" /\ KeyDown(c, msg.k, msg.m \cap ModifierKeys)
  \/ msg.a = "up" /\ KeyUp(c, msg.k)
  \/ Ignored(c, msg) /\ UNCHANGED keyVars

AgentReads ==
  /\ session /\ wire # <<>> /\ Handles(Deck, Head(wire)) /\ wire' = Tail(wire)
  /\ UNCHANGED <<pressed, ui, previous, connected, session, local>>

SessionEnds(C) ==
  /\ session /\ session' = FALSE /\ wire' = <<>> /\ ReleaseSessionKeys(C \cup {Deck})
  /\ UNCHANGED <<pressed, ui, previous, connected, local>>

Others ==
  /\ \E c \in Conn \ {Deck} :
       \/ \E k \in OtherKeys : KeyDown(c, k, {}) \/ KeyUp(c, k)
       \/ ReleaseSessionKeys({c})
  /\ UNCHANGED deckVars

Next ==
  \/ \E clicked, codeAsked, turns \in BOOLEAN : Loop(clicked, codeAsked, turns)
  \/ \E p \in Physical : Press(p) \/ Lift(p)
  \/ Connects \/ Loses
  \/ AgentReads \/ \E C \in {{}, Conn} : SessionEnds(C)
  \/ Others

(* The main loop runs, the Agent reads, and finds out that a device left.  *)
Spec == Init /\ [][Next]_vars /\ WF_vars(Idle) /\ WF_vars(AgentReads)
             /\ WF_vars(~connected /\ wire = <<>> /\ SessionEnds({}))

-----------------------------------------------------------------------------
DeckTypeOK ==
  /\ Len(previous) <= Capacity
  /\ \A i \in DOMAIN previous : previous[i].key \in Key /\ previous[i].physical \in Physical
  /\ ui.mode \in {"Local", "Remote"} /\ ui.page \in Page
  /\ local \subseteq Range(pressed)

(* What the Agent holds for the device once it has read what is on its way *)
(* is what the transmitter believes to hold: no key is left down at the    *)
(* Mac, and none goes missing, whatever was pressed, chorded or switched   *)
(* between two loops.                                                      *)
UpAfter(w, k, n) == \E j \in DOMAIN w : j > n /\ w[j].k = k /\ w[j].a = "up"
EndsDown(w, k) == \E i \in DOMAIN w : w[i].k = k /\ w[i].a = "down" /\ ~UpAfter(w, k, i)
WillHold == {k \in Key : \/ Holds(Deck, k) /\ ~UpAfter(wire, k, 0)
                         \/ k \in KnownKeys /\ EndsDown(wire, k)}

MacFollows == connected /\ session => WillHold = Names(previous) \cap KnownKeys

(* ui.h, "one keyboard, two masters": a switch that was pressed while the  *)
(* keyboard worked for the pages is not typed on the Mac, even when the    *)
(* mode changes under the finger.                                          *)
OneMaster == Switches(previous) \cap local = {}

(* key_tx.cpp: "releasing Fn before Space must release F13, not type       *)
(* Space".  What a switch stands for changes only into its Fn meaning.     *)
KeepsName ==
  [][\A i \in DOMAIN previous, j \in DOMAIN previous' :
       previous[i].physical = previous'[j].physical
         => previous'[j].key \in {previous[i].key, FnName[previous[i].physical]}]_vars

(* After the last switch is lifted for good, or the keyboard is taken for  *)
(* the pages for good, no key of the device stays down at the Mac.         *)
NothingHeld == \A k \in Key : ~Holds(Deck, k)
NoneStuck == <>[](pressed = <<>> \/ ui.mode = "Local") => []<>NothingHeld
=============================================================================
