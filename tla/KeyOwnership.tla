---------------------------- MODULE KeyOwnership ----------------------------
(***************************************************************************)
(* The keyboard boundary of the Agent: _handle_key and                     *)
(* _release_session_keys of BridgeApp, with the two global maps they share *)
(* and the per-session map of held keys, over the key injector.  Every     *)
(* call runs to its end on the event loop without an await, so each is one *)
(* step.  Messages, sessions and who may call are BridgeSessions' concern: *)
(* here any connection may press, release, or be cleaned up at any time.   *)
(*                                                                         *)
(* A Python dict is a function onto sets of at most one element: {} for an *)
(* absent key, {v} for the value v.                                        *)
(***************************************************************************)
EXTENDS Connections

CONSTANTS Key,           \* key names after lower-casing
          ModifierKeys,  \* the keys that are modifiers: cmd, shift, alt, ctrl
          KnownKeys      \* the keys the injector has a virtual key code for

ASSUME KeyAssumption == /\ ModifierKeys \subseteq Key
                        /\ KnownKeys \subseteq Key

VARIABLES held_keys,               \* DeviceSession.held_keys, per connection
          held_key_owners,         \* BridgeApp._held_key_owners
          injected_key_modifiers,  \* BridgeApp._injected_key_modifiers
          macos                    \* the last event posted to macOS, per key

keyVars == <<held_keys, held_key_owners, injected_key_modifiers, macos>>

Modifiers == SUBSET ModifierKeys
Absent == {}
Entry == {Absent} \cup {{m} : m \in Modifiers}

KeyTypeOK ==
  /\ held_keys \in [Conn -> [Key -> Entry]]
  /\ held_key_owners \in [Key -> [Conn -> Entry]]
  /\ injected_key_modifiers \in [Key -> Entry]
  /\ macos \in [Key -> [down : BOOLEAN, flags : Modifiers]]

KeyInit ==
  /\ held_keys = [c \in Conn |-> [k \in Key |-> Absent]]
  /\ held_key_owners = [k \in Key |-> [c \in Conn |-> Absent]]
  /\ injected_key_modifiers = [k \in Key |-> Absent]
  /\ macos = [k \in Key |-> [down |-> FALSE, flags |-> {}]]

Holds(c, k) == held_keys[c][k] # Absent
Owners(k) == {c \in Conn : held_key_owners[k][c] # Absent}

-----------------------------------------------------------------------------
(* KeyInjector.inject posts a down event for a key it knows and reports    *)
(* success; for any other key it reports failure and posts nothing.        *)
InjectDown(k, m) ==
  /\ k \in KnownKeys
  /\ macos' = [macos EXCEPT ![k] = [down |-> TRUE, flags |-> m]]

(* "if not owners": nobody holds the key yet.                              *)
FirstHolder(k) == Owners(k) = {}

(* A key-down message: a repeat from the same connection is ignored; only  *)
(* the first holder injects, and a failed injection records nothing.       *)
KeyDown(c, k, m) ==
  /\ ~Holds(c, k)
  /\ \/ /\ ~FirstHolder(k)
        /\ UNCHANGED <<injected_key_modifiers, macos>>
     \/ /\ FirstHolder(k)
        /\ InjectDown(k, m)
        /\ injected_key_modifiers' = [injected_key_modifiers EXCEPT ![k] = {m}]
  /\ held_key_owners' = [held_key_owners EXCEPT ![k][c] = {m}]
  /\ held_keys' = [held_keys EXCEPT ![c][k] = {m}]

-----------------------------------------------------------------------------
(* The connections C release the keys K.  Each gives up those it holds ... *)
LetsGo(C, K, c, k) == c \in C /\ k \in K /\ Holds(c, k)

(* ... and leaves the owner map.                                           *)
OwnersAfter(C, K) ==
  [k \in Key |-> [c \in Conn |->
     IF LetsGo(C, K, c, k) THEN Absent ELSE held_key_owners[k][c]]]

(* "if not owners" after the pop: a key left without an owner is lifted.   *)
(* MUTANT: the first holder to let go lifts it.                            *)
LiftedByAny(C, K, k) == \E c \in C : LetsGo(C, K, c, k)

Lifted(C, K, k) ==
  /\ \E c \in C : LetsGo(C, K, c, k)
  /\ \A c \in Owners(k) : LetsGo(C, K, c, k)

(* The flags of the key-up: those injected with the down event (or, were   *)
(* they missing, those the releasing connection sent), less a modifier's   *)
(* own.                                                                    *)
SentModifiers(C, k) == UNION UNION {held_keys[c][k] : c \in C}

(* MUTANT: the releasing connection's own modifiers are used.              *)
ReleaseSentModifiers(C, k) == SentModifiers(C, k) \ (ModifierKeys \cap {k})

ReleaseModifiers(C, k) ==
  (IF injected_key_modifiers[k] # Absent
   THEN UNION injected_key_modifiers[k] ELSE SentModifiers(C, k))
  \ (ModifierKeys \cap {k})

Release(C, K) ==
  /\ held_keys' = [c \in Conn |-> [k \in Key |->
                     IF LetsGo(C, K, c, k) THEN Absent ELSE held_keys[c][k]]]
  /\ held_key_owners' = OwnersAfter(C, K)
  /\ injected_key_modifiers' = [k \in Key |->
        IF Lifted(C, K, k) THEN Absent ELSE injected_key_modifiers[k]]
  /\ macos' = [k \in Key |->
        IF Lifted(C, K, k)
        THEN [down |-> FALSE, flags |-> ReleaseModifiers(C, k)]
        ELSE macos[k]]

(* A key-up message; one for a key the connection does not hold is ignored.*)
KeyUp(c, k) == Holds(c, k) /\ Release({c}, {k})

(* _release_session_keys for every session of C: one when a session is     *)
(* cleaned up, all of them when the Agent stops.                           *)
ReleaseSessionKeys(C) == Release(C, Key)

KeyNext ==
  \/ \E c \in Conn, k \in Key, m \in Modifiers : KeyDown(c, k, m)
  \/ \E c \in Conn, k \in Key : KeyUp(c, k)
  \/ \E C \in SUBSET Conn : ReleaseSessionKeys(C)

KeySpec == KeyInit /\ [][KeyNext]_keyVars

-----------------------------------------------------------------------------
(* The session's view of what it holds and the global owner map never come *)
(* apart: an owner entry without its held key would keep the key down      *)
(* after everybody let go, a held key without its entry would lift it      *)
(* under a device still pressing.                                          *)
OwnersMirrorHeld ==
  \A k \in Key, c \in Conn : held_key_owners[k][c] = held_keys[c][k]

(* PROTOCOL.md, Keyboard ownership: "A key-down is injected once when the  *)
(* first device holds it, and the final key-up is injected only after the  *)
(* last holder releases it".  macOS sees a key down exactly while somebody *)
(* holds it, with the flags remembered for the key-up.                     *)
DownWhileHeld ==
  \A k \in Key :
    /\ macos[k].down <=> \E c \in Conn : Holds(c, k)
    /\ injected_key_modifiers[k] = IF macos[k].down THEN {macos[k].flags} ELSE Absent

(* The strengthening the proofs need is the type and the two facts above.  *)
KeyInv == KeyTypeOK /\ OwnersMirrorHeld /\ DownWhileHeld

(* No event repeats or alters a key that is down: a second holder, with    *)
(* whatever modifiers, adds no event ("injected once").                    *)
NoEventWhileDown ==
  [][\A k \in Key : macos[k].down /\ macos'[k].down => macos'[k] = macos[k]]_keyVars

(* PROTOCOL.md: "A modifier's own key-up never carries its own modifier    *)
(* flag ... while other still-active modifier flags are preserved": the    *)
(* up event carries the flags of the down event it ends, whoever sent the  *)
(* up and with whatever modifiers, less the key itself.                    *)
UpCarriesDownFlags ==
  [][\A k \in Key : macos[k].down /\ ~macos'[k].down
        => macos'[k].flags = macos[k].flags \ (ModifierKeys \cap {k})]_keyVars

(* The refinement: the holders are the sessions holding the key, and down  *)
(* is what macOS has seen.                                                 *)
Shared == INSTANCE SharedKeyboard
            WITH holders <- [k \in Key |-> {c \in Conn : Holds(c, k)}],
                 down <- {k \in Key : macos[k].down}

ImplementsSharedKeyboard == Shared!Spec

=============================================================================
