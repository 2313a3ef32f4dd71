------------------------- MODULE KeyOwnershipProofs -------------------------
(***************************************************************************)
(* For any connections, keys and modifiers: the invariant of KeyOwnership, *)
(* its action properties, and that it implements SharedKeyboard.  KeyInv is   *)
(* inductive as it stands: the two maps agree, so the owner set that the   *)
(* code tests is the set of holders the properties speak of.               *)
(***************************************************************************)
EXTENDS KeyOwnership, TLAPS

(* Under the invariant the owners of a key are the connections holding it. *)
LEMMA OwnersAreHolders ==
  ASSUME OwnersMirrorHeld, NEW k \in Key
  PROVE  Owners(k) = {c \in Conn : Holds(c, k)}
BY DEF OwnersMirrorHeld, Owners, Holds

(* An entry of one of the maps is absent or holds one set of modifiers.    *)
LEMMA EntryModifiers ==
  ASSUME NEW e \in Entry
  PROVE  UNION e \in Modifiers
BY DEF Entry, Absent, Modifiers

(* The modifiers of a key-up are modifiers.                                *)
LEMMA ReleaseModifiersType ==
  ASSUME KeyTypeOK, NEW C \in SUBSET Conn, NEW k \in Key
  PROVE  ReleaseModifiers(C, k) \in Modifiers
<1>1. UNION injected_key_modifiers[k] \in Modifiers
  BY EntryModifiers DEF KeyTypeOK
<1>2. SentModifiers(C, k) \in Modifiers
  <2>1. \A c \in C : held_keys[c][k] \in Entry
    BY DEF KeyTypeOK
  <2>2. \A x \in SentModifiers(C, k) : x \in ModifierKeys
    BY <2>1 DEF SentModifiers, Entry, Absent, Modifiers
  <2> QED BY <2>2 DEF Modifiers
<1> QED BY <1>1, <1>2 DEF ReleaseModifiers, Modifiers

LEMMA KeyInitInv == KeyInit => KeyInv
BY DEF KeyInit, KeyInv, KeyTypeOK, OwnersMirrorHeld, DownWhileHeld, Holds, Entry,
       Absent, Modifiers

(* A key-down keeps the invariant.                                         *)
LEMMA KeyDownInv ==
  ASSUME KeyInv, NEW c \in Conn, NEW k \in Key, NEW m \in Modifiers, KeyDown(c, k, m)
  PROVE  KeyInv'
<1> USE DEF KeyInv
<1>1. KeyTypeOK'
  <2>1. {m} \in Entry
    BY DEF Entry
  <2>2. (held_keys \in [Conn -> [Key -> Entry]])'
    BY <2>1 DEF KeyDown, KeyTypeOK
  <2>3. (held_key_owners \in [Key -> [Conn -> Entry]])'
    BY <2>1 DEF KeyDown, KeyTypeOK
  <2>4. (injected_key_modifiers \in [Key -> Entry])'
    BY <2>1 DEF KeyDown, KeyTypeOK
  <2>5. (macos \in [Key -> [down : BOOLEAN, flags : Modifiers]])'
    <3>1. [down |-> TRUE, flags |-> m] \in [down : BOOLEAN, flags : Modifiers]
      OBVIOUS
    <3>2. CASE UNCHANGED macos
      BY <3>2 DEF KeyTypeOK
    <3>3. CASE macos' = [macos EXCEPT ![k] = [down |-> TRUE, flags |-> m]]
      BY <3>1, <3>3 DEF KeyTypeOK
    <3> QED BY <3>2, <3>3 DEF KeyDown, InjectDown
  <2> QED BY <2>2, <2>3, <2>4, <2>5 DEF KeyTypeOK
<1>2. OwnersMirrorHeld'
  BY DEF KeyTypeOK, KeyDown, OwnersMirrorHeld
<1>3. DownWhileHeld'
  <2> SUFFICES ASSUME NEW j \in Key
               PROVE  /\ macos'[j].down <=> \E d \in Conn : Holds(d, j)'
                      /\ injected_key_modifiers'[j]
                           = IF macos'[j].down THEN {macos'[j].flags} ELSE Absent
    BY DEF DownWhileHeld
  <2>1. \A d \in Conn : Holds(d, j)' <=> Holds(d, j) \/ (d = c /\ j = k)
    BY DEF KeyDown, Holds, KeyTypeOK, Absent
  <2>2. CASE j = k
    <3>1. CASE FirstHolder(k)
      BY <2>1, <2>2, <3>1 DEF KeyDown, InjectDown, KeyTypeOK
    <3>2. CASE ~FirstHolder(k)
      BY <2>1, <2>2, <3>2, OwnersAreHolders
         DEF KeyDown, FirstHolder, DownWhileHeld
    <3> QED BY <3>1, <3>2
  <2>3. CASE j # k
    BY <2>1, <2>3 DEF KeyDown, InjectDown, KeyTypeOK, DownWhileHeld
  <2> QED BY <2>2, <2>3
<1> QED BY <1>1, <1>2, <1>3

(* So does any release, of any keys by any set of connections.             *)
LEMMA ReleaseInv ==
  ASSUME KeyInv, NEW C \in SUBSET Conn, NEW K \in SUBSET Key, Release(C, K)
  PROVE  KeyInv'
<1> USE DEF KeyInv
<1>1. KeyTypeOK'
  <2>1. \A k \in Key : ReleaseModifiers(C, k) \in Modifiers
    BY ReleaseModifiersType
  <2>2. (held_keys \in [Conn -> [Key -> Entry]])'
    BY DEF Release, KeyTypeOK, Entry
  <2>3. (held_key_owners \in [Key -> [Conn -> Entry]])'
    BY DEF Release, OwnersAfter, KeyTypeOK, Entry
  <2>4. (injected_key_modifiers \in [Key -> Entry])'
    BY DEF Release, KeyTypeOK, Entry
  <2>5. (macos \in [Key -> [down : BOOLEAN, flags : Modifiers]])'
    BY <2>1 DEF Release, KeyTypeOK
  <2> QED BY <2>2, <2>3, <2>4, <2>5 DEF KeyTypeOK
<1>2. OwnersMirrorHeld'
  BY DEF Release, OwnersAfter, OwnersMirrorHeld
<1>3. DownWhileHeld'
  <2> SUFFICES ASSUME NEW j \in Key
               PROVE  /\ macos'[j].down <=> \E d \in Conn : Holds(d, j)'
                      /\ injected_key_modifiers'[j]
                           = IF macos'[j].down THEN {macos'[j].flags} ELSE Absent
    BY DEF DownWhileHeld
  <2>1. \A d \in Conn : Holds(d, j)' <=> Holds(d, j) /\ ~LetsGo(C, K, d, j)
    BY DEF Release, Holds
  <2>2. Owners(j) = {d \in Conn : Holds(d, j)}
    BY OwnersAreHolders
  <2>3. CASE Lifted(C, K, j)
    <3>1. ~ \E d \in Conn : Holds(d, j)'
      BY <2>1, <2>2, <2>3 DEF Lifted
    <3>2. /\ ~macos'[j].down
          /\ injected_key_modifiers'[j] = Absent
      BY <2>3 DEF Release
    <3> QED BY <3>1, <3>2
  <2>4. CASE ~Lifted(C, K, j)
    <3>1. (\E d \in Conn : Holds(d, j)') <=> (\E d \in Conn : Holds(d, j))
      BY <2>1, <2>2, <2>4 DEF Lifted, LetsGo
    <3>2. /\ macos'[j] = macos[j]
          /\ injected_key_modifiers'[j] = injected_key_modifiers[j]
      BY <2>4 DEF Release
    <3> QED BY <3>1, <3>2 DEF DownWhileHeld
  <2> QED BY <2>3, <2>4
<1> QED BY <1>1, <1>2, <1>3

LEMMA KeyNextInv == KeyInv /\ [KeyNext]_keyVars => KeyInv'
<1> SUFFICES ASSUME KeyInv, [KeyNext]_keyVars PROVE KeyInv'
  OBVIOUS
<1>1. ASSUME NEW c \in Conn, NEW k \in Key, NEW m \in Modifiers, KeyDown(c, k, m)
      PROVE  KeyInv'
  BY <1>1, KeyDownInv
<1>2. ASSUME NEW c \in Conn, NEW k \in Key, KeyUp(c, k)
      PROVE  KeyInv'
  BY <1>2, ReleaseInv DEF KeyUp
<1>3. ASSUME NEW C \in SUBSET Conn, ReleaseSessionKeys(C)
      PROVE  KeyInv'
  BY <1>3, ReleaseInv DEF ReleaseSessionKeys
<1>4. CASE UNCHANGED keyVars
  BY <1>4 DEF keyVars, KeyInv, KeyTypeOK, OwnersMirrorHeld, DownWhileHeld, Holds
<1> QED BY <1>1, <1>2, <1>3, <1>4 DEF KeyNext

-----------------------------------------------------------------------------
(* The invariant holds throughout: the two maps mirror each other, and a   *)
(* key is down for macOS exactly while a connection holds it.              *)
THEOREM KeysDownWhileHeld == KeySpec => [](KeyTypeOK /\ OwnersMirrorHeld /\ DownWhileHeld)
<1>1. KeySpec => []KeyInv
  BY KeyInitInv, KeyNextInv, PTL DEF KeySpec
<1> QED BY <1>1, PTL DEF KeyInv

(* No event repeats or alters a key that is already down.                  *)
THEOREM NothingInjectedWhileDown == KeySpec => NoEventWhileDown
<1>1. KeyInv /\ [KeyNext]_keyVars
        => [\A k \in Key : macos[k].down /\ macos'[k].down => macos'[k] = macos[k]]_keyVars
  <2> SUFFICES ASSUME KeyInv, [KeyNext]_keyVars,
                      NEW j \in Key, macos[j].down, macos'[j].down
               PROVE  macos'[j] = macos[j]
    OBVIOUS
  <2> USE DEF KeyInv
  <2>1. ASSUME NEW c \in Conn, NEW k \in Key, NEW m \in Modifiers, KeyDown(c, k, m)
        PROVE  macos'[j] = macos[j]
    <3>1. Owners(j) # {}
      BY OwnersAreHolders DEF DownWhileHeld
    <3> QED BY <2>1, <3>1 DEF KeyDown, FirstHolder, InjectDown, KeyTypeOK
  <2>2. ASSUME NEW C \in SUBSET Conn, NEW K \in SUBSET Key, Release(C, K)
        PROVE  macos'[j] = macos[j]
    BY <2>2 DEF Release
  <2>3. CASE UNCHANGED keyVars
    BY <2>3 DEF keyVars
  <2> QED BY <2>1, <2>2, <2>3 DEF KeyNext, KeyUp, ReleaseSessionKeys
<1>2. KeySpec => []KeyInv
  BY KeyInitInv, KeyNextInv, PTL DEF KeySpec
<1> QED BY <1>1, <1>2, PTL DEF KeySpec, NoEventWhileDown

(* A key-up carries the flags of the key-down it ends, less its own.       *)
THEOREM KeyUpFlags == KeySpec => UpCarriesDownFlags
<1>1. KeyInv /\ [KeyNext]_keyVars
        => [\A k \in Key : macos[k].down /\ ~macos'[k].down
              => macos'[k].flags = macos[k].flags \ (ModifierKeys \cap {k})]_keyVars
  <2> SUFFICES ASSUME KeyInv, [KeyNext]_keyVars,
                      NEW j \in Key, macos[j].down, ~macos'[j].down
               PROVE  macos'[j].flags = macos[j].flags \ (ModifierKeys \cap {j})
    OBVIOUS
  <2> USE DEF KeyInv
  <2>1. ASSUME NEW c \in Conn, NEW k \in Key, NEW m \in Modifiers, KeyDown(c, k, m)
        PROVE  FALSE
    BY <2>1 DEF KeyDown, InjectDown, KeyTypeOK
  <2>2. ASSUME NEW C \in SUBSET Conn, NEW K \in SUBSET Key, Release(C, K)
        PROVE  macos'[j].flags = macos[j].flags \ (ModifierKeys \cap {j})
    <3>1. macos'[j].flags = ReleaseModifiers(C, j)
      BY <2>2 DEF Release
    <3>2. injected_key_modifiers[j] = {macos[j].flags}
      BY DEF DownWhileHeld
    <3> QED BY <3>1, <3>2 DEF ReleaseModifiers, Absent
  <2>3. CASE UNCHANGED keyVars
    BY <2>3 DEF keyVars
  <2> QED BY <2>1, <2>2, <2>3 DEF KeyNext, KeyUp, ReleaseSessionKeys
<1>2. KeySpec => []KeyInv
  BY KeyInitInv, KeyNextInv, PTL DEF KeySpec
<1> QED BY <1>1, <1>2, PTL DEF KeySpec, UpCarriesDownFlags

-----------------------------------------------------------------------------
(* The detailed specification implements the abstract one: a key-down is a *)
(* Press, any release a LetGo, whatever the agent's maps do meanwhile.     *)
THEOREM Refinement == KeySpec => ImplementsSharedKeyboard
<1> DEFINE holders == [k \in Key |-> {c \in Conn : Holds(c, k)}]
           down == {k \in Key : macos[k].down}
<1>1. KeyInit => Shared!Init
  BY DEF KeyInit, Shared!Init, Holds, Absent
<1>2. KeyInv /\ [KeyNext]_keyVars => [Shared!Next]_(Shared!vars)
  <2> SUFFICES ASSUME KeyInv, [KeyNext]_keyVars
               PROVE  Shared!Next \/ UNCHANGED Shared!vars
    OBVIOUS
  <2> USE DEF KeyInv
  <2>1. ASSUME NEW c \in Conn, NEW k \in Key, NEW m \in Modifiers, KeyDown(c, k, m)
        PROVE  Shared!Press(c, k)
    <3>1. c \notin holders[k]
      BY <2>1 DEF KeyDown
    <3>2. \A d \in Conn, j \in Key : Holds(d, j)' <=> Holds(d, j) \/ (d = c /\ j = k)
      BY <2>1 DEF KeyDown, Holds, KeyTypeOK, Absent
    <3>3. holders' = [holders EXCEPT ![k] = @ \cup {c}]
      BY <3>2
    <3>4. macos'[k].down
      BY <2>1, OwnersAreHolders DEF KeyDown, FirstHolder, InjectDown, KeyTypeOK, DownWhileHeld
    <3>5. \A j \in Key \ {k} : macos'[j] = macos[j]
      BY <2>1 DEF KeyDown, InjectDown, KeyTypeOK
    <3>6. down' = down \cup {k}
      BY <3>4, <3>5
    <3> QED BY <3>1, <3>3, <3>6 DEF Shared!Press
  <2>2. ASSUME NEW C \in SUBSET Conn, NEW K \in SUBSET Key, Release(C, K)
        PROVE  Shared!LetGo(C, K)
    <3>1. \A d \in Conn, j \in Key : Holds(d, j)' <=> Holds(d, j) /\ ~LetsGo(C, K, d, j)
      BY <2>2 DEF Release, Holds
    <3>2. holders' = [k \in Key |-> IF k \in K THEN holders[k] \ C ELSE holders[k]]
      BY <3>1 DEF LetsGo
    <3>3. KeyInv'
      BY <2>2, ReleaseInv
    <3>4. \A j \in Key : macos'[j].down <=> holders'[j] # {}
      BY <3>3 DEF DownWhileHeld
    <3>5. \A j \in Key : macos'[j].down => macos[j].down
      BY <2>2 DEF Release
    <3>6. down' = {k \in down : holders'[k] # {}}
      BY <3>4, <3>5
    <3> QED BY <3>2, <3>6 DEF Shared!LetGo
  <2>3. CASE UNCHANGED keyVars
    BY <2>3 DEF keyVars, Shared!vars, Holds
  <2> QED BY <2>1, <2>2, <2>3
          DEF KeyNext, KeyUp, ReleaseSessionKeys, Shared!Next
<1>3. KeySpec => []KeyInv
  BY KeyInitInv, KeyNextInv, PTL DEF KeySpec
<1> QED BY <1>1, <1>2, <1>3, PTL DEF KeySpec, Shared!Spec, ImplementsSharedKeyboard

=============================================================================
