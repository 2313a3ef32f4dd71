---------------------------- MODULE AgentProofs -----------------------------
(***************************************************************************)
(* The Agent's sessions for any connections, devices, keys and topics, and *)
(* its Codex sessions for any number of them, of decks and any limits.     *)
(* The argument about BridgeSessions has four layers, each resting on the  *)
(* ones before it:                                                         *)
(*   - the sessions by themselves: types, and every registry entry the     *)
(*     live session of its device (SessionInv);                            *)
(*   - every step of the Agent is a step of KeyOwnership on the keyboard's *)
(*     variables, so what KeyOwnershipProofs shows holds here (KeyInv);    *)
(*   - only current sessions hold keys;                                    *)
(*   - the lease (LeaseInv).                                               *)
(* TopicSync is about one session by itself, and AgentStore about what the *)
(* sessions are told of Codex: each has its own argument.                  *)
(***************************************************************************)
EXTENDS BridgeSessions, TopicSync, AgentStore, KeyOwnershipProofs

(* A task that has authenticated knows its device.                         *)
DeviceKnown ==
  \A c \in Conn : phase[c] \in {"replying", "loop"} => device_id[c] \in Device

SessionInv == SessionTypeOK /\ DeviceKnown /\ RegistryLive

USE DEF Phase, Service, LastAudio, Standing

-----------------------------------------------------------------------------
(* Emptying buffers leaves buffers.                                        *)
LEMMA EmptiedType ==
  ASSUME jitter \in [Conn -> SUBSET Standing], NEW C
  PROVE  Emptied(C) \in [Conn -> SUBSET Standing]
BY DEF Emptied

LEMMA BuffersType ==
  ASSUME jitter \in [Conn -> SUBSET Standing], NEW c, NEW reg
  PROVE  /\ BuffersForOwner(c) \in [Conn -> SUBSET Standing]
         /\ BuffersAfterCleanup(c, reg) \in [Conn -> SUBSET Standing]
BY EmptiedType DEF BuffersForOwner, BuffersAfterCleanup

LEMMA SessionInvInit == Init => SessionInv
BY LeaseAssumption
   DEF Init, LeaseInit, SessionInv, SessionTypeOK, LeaseTypeOK, DeviceKnown, RegistryLive

(* What a step of the sessions does not touch keeps the sessions as they   *)
(* are: the keyboard, and all the lease steps that leave types in order.   *)
LEMMA SessionInvSame ==
  ASSUME SessionInv, UNCHANGED sessionVars, LeaseTypeOK'
  PROVE  SessionInv'
BY DEF SessionInv, SessionTypeOK, DeviceKnown, RegistryLive, sessionVars

(* The lease operations keep the types.                                    *)
LEMMA OwnerStepTypes ==
  ASSUME LeaseTypeOK, UNCHANGED <<registry, device_id>>,
         ReleaseAudioLease \/ Play \/ (\E c \in Conn : FallSilent(c))
  PROVE  LeaseTypeOK'
<1>1. CASE ReleaseAudioLease
  BY <1>1, EmptiedType DEF ReleaseAudioLease, LeaseTypeOK
<1>2. CASE Play
  BY <1>2 DEF Play, LeaseTypeOK
<1>3. CASE \E c \in Conn : FallSilent(c)
  BY <1>3 DEF FallSilent, LeaseTypeOK
<1> QED BY <1>1, <1>2, <1>3

LEMMA DeviceStepTypes ==
  ASSUME LeaseTypeOK, UNCHANGED <<registry, device_id>>,
         NEW c \in Conn, device_id[c] \in Device,
         AudioClaim(c) \/ ReceiveAudio(c)
  PROVE  LeaseTypeOK'
<1> USE DEF LeaseTypeOK
<1>1. CASE AudioClaim(c)
  BY <1>1, BuffersType DEF AudioClaim
<1>2. CASE ReceiveAudio(c)
  <2>1. (last_audio \in [Conn -> LastAudio])'
    BY <1>2 DEF ReceiveAudio
  <2>2. BuffersForOwner(c) \in [Conn -> SUBSET Standing]
    BY BuffersType
  <2>3. ASSUME NEW b \in [Conn -> SUBSET Standing], NEW p \in SUBSET Standing
        PROVE  [b EXCEPT ![c] = p] \in [Conn -> SUBSET Standing]
    OBVIOUS
  <2>4. (jitter \in [Conn -> SUBSET Standing])'
    <3>1. CASE jitter' = [BuffersForOwner(c) EXCEPT ![c] = @ \cup {"owner"}]
      <4> DEFINE b == BuffersForOwner(c)
      <4>1. b[c] \cup {"owner"} \in SUBSET Standing
        BY <2>2
      <4>2. [b EXCEPT ![c] = b[c] \cup {"owner"}] \in [Conn -> SUBSET Standing]
        BY <2>2, <2>3, <4>1
      <4> QED BY <3>1, <4>2
    <3>2. CASE jitter' = [jitter EXCEPT ![c] = @ \cup {"owner"}]
      BY <3>2
    <3>3. CASE jitter' = [jitter EXCEPT ![c] = {"other"}]
      BY <3>3
    <3> QED BY <1>2, <3>1, <3>2, <3>3 DEF ReceiveAudio
  <2> QED BY <1>2, <2>1, <2>4 DEF ReceiveAudio
<1> QED BY <1>1, <1>2

(* The sessions' invariant, one step per action.                           *)
LEMMA SessionInvNext == SessionInv /\ [Next]_vars => SessionInv'
<1> SUFFICES ASSUME SessionInv, [Next]_vars PROVE SessionInv'
  OBVIOUS
<1> USE LeaseAssumption DEF SessionInv, SessionTypeOK
<1>1. ASSUME NEW c \in Conn, Connect(c)
      PROVE  SessionInv'
  BY <1>1 DEF Connect, LeaseTypeOK, DeviceKnown, RegistryLive, leaseVars
<1>2. ASSUME NEW c \in Conn, NEW d \in Device,
             HelloPaired(c, d) \/ PairAccepted(c, d) \/ PairUnsaved(c, d)
      PROVE  SessionInv'
  BY <1>2 DEF HelloPaired, PairAccepted, PairUnsaved, LeaseTypeOK,
              DeviceKnown, RegistryLive, leaseVars
<1>3. ASSUME NEW c \in Conn, KeyMessage(c)
      PROVE  SessionInv'
  BY <1>3, SessionInvSame DEF KeyMessage, LeaseTypeOK, leaseVars, sessionVars
<1>4. ASSUME NEW c \in Conn, LeaseMessage(c)
      PROVE  SessionInv'
  BY <1>4, SessionInvSame, DeviceStepTypes, OwnerStepTypes
     DEF LeaseMessage, Listens, DeviceKnown, AudioRelease, sessionVars
<1>5. ASSUME NEW c \in Conn, Datagram(c)
      PROVE  SessionInv'
  <2>1. device_id[c] \in Device
    BY <1>5 DEF Datagram, Current, LeaseTypeOK
  <2> QED BY <1>5, <2>1, SessionInvSame, DeviceStepTypes DEF Datagram, sessionVars
<1>6. ASSUME NEW c \in Conn, DropLink(c)
      PROVE  SessionInv'
  BY <1>6 DEF DropLink, LeaseTypeOK, DeviceKnown, RegistryLive, leaseVars
<1>7. ASSUME NEW c \in Conn, Register(c)
      PROVE  SessionInv'
  <2>1. device_id[c] \in Device
    BY <1>7 DEF Register, DeviceKnown
  <2>2. (phase \in [Conn -> Phase] /\ link \in [Conn -> {"up", "down"}])'
    BY <1>7 DEF Register, Closed
  <2>3. (registry \in [Device -> Conn \cup {None}])'
    BY <1>7, <2>1 DEF Register, LeaseTypeOK
  <2>4. (last_audio \in [Conn -> LastAudio])'
    BY <1>7 DEF Register, LeaseTypeOK
  <2>5. (jitter \in [Conn -> SUBSET Standing])'
    BY <1>7, BuffersType DEF Register, LeaseTypeOK
  <2>6. (audio_lease_owner_id \in Device \cup {None})'
    BY <1>7 DEF Register, LeaseTypeOK, OwnerAfterCleanup
  <2>7. SessionTypeOK'
    BY <1>7, <2>2, <2>3, <2>4, <2>5, <2>6 DEF Register, LeaseTypeOK
  <2>8. DeviceKnown' /\ RegistryLive'
    BY <1>7, <2>1 DEF Register, DeviceKnown, RegistryLive, LeaseTypeOK
  <2> QED BY <2>7, <2>8
<1>8. ASSUME NEW c \in Conn, Finish(c)
      PROVE  SessionInv'
  <2>1. (phase \in [Conn -> Phase] /\ link \in [Conn -> {"up", "down"}])'
    BY <1>8 DEF Finish
  <2>2. (registry \in [Device -> Conn \cup {None}])'
    BY <1>8 DEF Finish, LeaseTypeOK, Without
  <2>3. (last_audio \in [Conn -> LastAudio])'
    BY <1>8 DEF Finish, LeaseTypeOK, leaseVars
  <2>4. (jitter \in [Conn -> SUBSET Standing])'
    BY <1>8, BuffersType DEF Finish, LeaseTypeOK, leaseVars
  <2>5. (audio_lease_owner_id \in Device \cup {None} /\ output \in Conn \cup {None})'
    BY <1>8 DEF Finish, LeaseTypeOK, OwnerAfterCleanup, leaseVars
  <2>6. SessionTypeOK'
    BY <1>8, <2>1, <2>2, <2>3, <2>4, <2>5 DEF Finish, LeaseTypeOK
  <2>7. DeviceKnown' /\ RegistryLive'
    BY <1>8 DEF Finish, Without, DeviceKnown, RegistryLive, LeaseTypeOK
  <2> QED BY <2>6, <2>7
<1>9. ASSUME NEW d \in Device, Unpair(d)
      PROVE  SessionInv'
  <2>1. (jitter \in [Conn -> SUBSET Standing])'
    BY <1>9, BuffersType DEF Unpair, LeaseTypeOK, leaseVars
  <2>2. (link \in [Conn -> {"up", "down"}])'
    BY <1>9 DEF Unpair, Closed
  <2>3. (registry \in [Device -> Conn \cup {None}])'
    BY <1>9 DEF Unpair, Without, LeaseTypeOK
  <2>4. SessionTypeOK'
    BY <1>9, <2>1, <2>2, <2>3 DEF Unpair, LeaseTypeOK, OwnerAfterCleanup, leaseVars
  <2>5. DeviceKnown' /\ RegistryLive'
    BY <1>9 DEF Unpair, Without, DeviceKnown, RegistryLive, LeaseTypeOK
  <2> QED BY <2>4, <2>5
<1>10. ASSUME NEW d \in Device, UnpairFails(d)
       PROVE  SessionInv'
  BY <1>10 DEF UnpairFails, LeaseTypeOK, DeviceKnown, RegistryLive, leaseVars
<1>11. CASE StopBegins \/ StopListening \/ Restart
  BY <1>11 DEF StopBegins, StopListening, Restart, LeaseTypeOK, DeviceKnown,
               RegistryLive, leaseVars
<1>12. CASE StopSessions
  BY <1>12, EmptiedType
     DEF StopSessions, Closed, LeaseTypeOK, DeviceKnown, RegistryLive
<1>13. CASE ExpiryTick
  BY <1>13, SessionInvSame, OwnerStepTypes DEF ExpiryTick, ExpireAudioLease, sessionVars
<1>14. CASE Elsewhere
  BY <1>14, SessionInvSame, OwnerStepTypes DEF Elsewhere, sessionVars
<1>15. CASE UNCHANGED vars
  BY <1>15, SessionInvSame DEF vars, sessionVars, leaseVars, LeaseTypeOK
<1> QED BY <1>1, <1>2, <1>3, <1>4, <1>5, <1>6, <1>7, <1>8, <1>9, <1>10,
           <1>11, <1>12, <1>13, <1>14, <1>15
        DEF Next, DeviceStep, AppStep, AgentStep

LEMMA SessionInvAlways == Spec => []SessionInv
BY SessionInvInit, SessionInvNext, PTL DEF Spec

-----------------------------------------------------------------------------
(* The keyboard.  Cleaning up sessions, however it comes about, is a       *)
(* release by connections, and key messages are the only other source of   *)
(* keyboard events.                                                        *)
LEMMA KeyboardStep ==
  SessionInv /\ [Next]_vars => [KeyNext]_keyVars
<1> SUFFICES ASSUME SessionInv, [Next]_vars PROVE KeyNext \/ UNCHANGED keyVars
  OBVIOUS
<1> USE DEF SessionInv, SessionTypeOK, LeaseTypeOK
<1>1. ASSUME NEW c \in Conn, KeyMessage(c)
      PROVE  KeyNext
  BY <1>1 DEF KeyMessage, KeyNext
<1>2. ASSUME NEW c \in Conn, Register(c)
      PROVE  KeyNext
  <2>1. Replaced(c) \in SUBSET Conn
    BY <1>2 DEF Register, Replaced, DeviceKnown
  <2> QED BY <1>2, <2>1 DEF Register, KeyNext
<1>3. ASSUME NEW c \in Conn, Finish(c)
      PROVE  KeyNext \/ UNCHANGED keyVars
  BY <1>3 DEF Finish, Cleaned, KeyNext
<1>4. ASSUME NEW d \in Device, Unpair(d)
      PROVE  KeyNext \/ UNCHANGED keyVars
  BY <1>4 DEF Unpair, KeyNext
<1>5. CASE StopSessions
  BY <1>5 DEF StopSessions, StopKeys, Online, KeyNext
<1>6. CASE UNCHANGED keyVars
  BY <1>6
<1> QED BY <1>1, <1>2, <1>3, <1>4, <1>5, <1>6
        DEF Next, DeviceStep, AppStep, AgentStep, vars, Connect, HelloPaired,
            PairAccepted, PairUnsaved, LeaseMessage, Datagram, DropLink,
            UnpairFails, StopBegins, StopListening, Restart, ExpiryTick, Elsewhere

(* The Agent's keyboard is the one KeyOwnership specifies.                 *)
THEOREM KeyboardRefinement == Spec => ImplementsKeyOwnership
<1>1. Init => KeyInit
  BY DEF Init
<1> QED BY <1>1, KeyboardStep, SessionInvAlways, PTL
        DEF Spec, KeySpec, ImplementsKeyOwnership

(* The type invariant of the whole Agent.                                  *)
THEOREM TypeCorrect == Spec => []TypeOK
<1>1. Spec => [](KeyTypeOK /\ OwnersMirrorHeld /\ DownWhileHeld)
  BY KeyboardRefinement, KeysDownWhileHeld, PTL DEF ImplementsKeyOwnership
<1> QED BY <1>1, SessionInvAlways, PTL DEF TypeOK, SessionInv

(* Every registry entry is a live session of its device.                   *)
THEOREM RegistryAlwaysLive == Spec => []RegistryLive
BY SessionInvAlways, PTL DEF SessionInv

-----------------------------------------------------------------------------
(* What is still held after sessions let go was held before, by others.    *)
LEMMA StillHeld ==
  ASSUME NEW C \in SUBSET Conn, ReleaseSessionKeys(C),
         NEW c \in Conn, NEW k \in Key, held_keys'[c][k] # {}
  PROVE  c \notin C /\ held_keys[c][k] # {}
BY DEF ReleaseSessionKeys, Release, LetsGo, Holds, Absent

LEMMA KeysHeldNext ==
  SessionInv /\ KeyTypeOK /\ KeysHeldByCurrent /\ [Next]_vars => KeysHeldByCurrent'
<1> SUFFICES ASSUME SessionInv, KeyTypeOK, KeysHeldByCurrent, [Next]_vars,
                    NEW h \in Conn, NEW x \in Key, held_keys'[h][x] # {}
             PROVE  (phase[h] = "loop" /\ Current(h))'
  BY DEF KeysHeldByCurrent
<1> USE LeaseAssumption DEF SessionInv, SessionTypeOK, LeaseTypeOK, Current
<1>1. ASSUME NEW c \in Conn,
             Connect(c) \/ DropLink(c) \/ LeaseMessage(c) \/ Datagram(c)
      PROVE  (phase[h] = "loop" /\ Current(h))'
  BY <1>1 DEF Connect, DropLink, LeaseMessage, Datagram, KeysHeldByCurrent,
              keyVars, sessionVars
<1>2. ASSUME NEW c \in Conn, NEW d \in Device,
             HelloPaired(c, d) \/ PairAccepted(c, d) \/ PairUnsaved(c, d)
      PROVE  (phase[h] = "loop" /\ Current(h))'
  BY <1>2 DEF HelloPaired, PairAccepted, PairUnsaved, KeysHeldByCurrent, keyVars
<1>3. ASSUME NEW c \in Conn, KeyMessage(c)
      PROVE  (phase[h] = "loop" /\ Current(h))'
  <2>1. h # c => held_keys[h][x] # {}
    <3>1. ASSUME NEW k \in Key, NEW m \in Modifiers, KeyDown(c, k, m), h # c
          PROVE  held_keys[h][x] # {}
      BY <3>1 DEF KeyDown, KeyTypeOK
    <3>2. ASSUME NEW k \in Key, KeyUp(c, k), h # c
          PROVE  held_keys[h][x] # {}
      BY <3>2 DEF KeyUp, Release, Absent
    <3> QED BY <1>3, <3>1, <3>2 DEF KeyMessage
  <2> QED BY <1>3, <2>1 DEF KeyMessage, Listens, KeysHeldByCurrent, sessionVars
<1>4. ASSUME NEW c \in Conn, Register(c)
      PROVE  (phase[h] = "loop" /\ Current(h))'
  <2>1. Replaced(c) \in SUBSET Conn
    BY <1>4 DEF Register, Replaced, DeviceKnown
  <2>2. h \notin Replaced(c) /\ held_keys[h][x] # {}
    BY <1>4, <2>1, StillHeld DEF Register
  <2>3. phase[h] = "loop" /\ Current(h)
    BY <2>2 DEF KeysHeldByCurrent
  <2>4. device_id[h] # device_id[c]
    BY <2>2, <2>3 DEF Replaced
  <2> QED BY <1>4, <2>3, <2>4 DEF Register
<1>5. ASSUME NEW c \in Conn, Finish(c)
      PROVE  (phase[h] = "loop" /\ Current(h))'
  <2>1. CASE phase[c] = "loop"
    <3>1. h # c /\ held_keys[h][x] # {}
      BY <1>5, <2>1, StillHeld DEF Finish, Cleaned
    <3> QED BY <1>5, <2>1, <3>1 DEF Finish, Without, KeysHeldByCurrent
  <2>2. CASE phase[c] # "loop"
    BY <1>5, <2>2 DEF Finish, KeysHeldByCurrent, keyVars
  <2> QED BY <2>1, <2>2
<1>6. ASSUME NEW d \in Device, Unpair(d)
      PROVE  (phase[h] = "loop" /\ Current(h))'
  <2>1. CASE registry[d] = None
    BY <1>6, <2>1 DEF Unpair, KeysHeldByCurrent, keyVars
  <2>2. CASE registry[d] # None
    <3>1. h # registry[d] /\ held_keys[h][x] # {}
      BY <1>6, <2>2, StillHeld DEF Unpair
    <3> QED BY <1>6, <2>2, <3>1 DEF Unpair, Without, KeysHeldByCurrent
  <2> QED BY <2>1, <2>2
<1>7. ASSUME NEW d \in Device, UnpairFails(d)
      PROVE  (phase[h] = "loop" /\ Current(h))'
  BY <1>7 DEF UnpairFails, KeysHeldByCurrent, keyVars
<1>8. CASE StopBegins \/ StopListening \/ Restart
  BY <1>8 DEF StopBegins, StopListening, Restart, KeysHeldByCurrent, keyVars
<1>9. CASE StopSessions
  <2>1. h \notin Online /\ held_keys[h][x] # {}
    BY <1>9, StillHeld DEF StopSessions, StopKeys, Online
  <2> QED BY <2>1 DEF Online, KeysHeldByCurrent
<1>10. CASE ExpiryTick \/ Elsewhere \/ UNCHANGED vars
  BY <1>10 DEF ExpiryTick, Elsewhere, vars, KeysHeldByCurrent, keyVars, sessionVars
<1> QED BY <1>1, <1>2, <1>3, <1>4, <1>5, <1>6, <1>7, <1>8, <1>9, <1>10
        DEF Next, DeviceStep, AppStep, AgentStep

(* Only a live, current session holds a key: a replaced, unpaired or       *)
(* disconnected one has let go of everything in the step that took its     *)
(* place in the registry away.                                             *)
THEOREM OnlyCurrentSessionsHoldKeys == Spec => []KeysHeldByCurrent
<1>1. Init => KeysHeldByCurrent
  BY DEF Init, KeyInit, KeysHeldByCurrent, Absent
<1> QED BY <1>1, KeysHeldNext, SessionInvAlways, TypeCorrect, PTL DEF Spec, TypeOK

-----------------------------------------------------------------------------
LeaseInv == LeaseOwnerOnline /\ OutputPlaysOwner /\ SilentWithoutOwner

(* A step that leaves registry, devices and lease alone and only consumes  *)
(* buffered audio keeps the lease in order.                                *)
LEMMA LeaseInvSame ==
  ASSUME SessionInv, LeaseInv, UNCHANGED <<registry, audio_lease_owner_id, output>>,
         output # None => jitter'[output] \subseteq jitter[output]
  PROVE  LeaseInv'
BY DEF LeaseInv, LeaseOwnerOnline, OutputPlaysOwner, SilentWithoutOwner, AudioOwner

(* Giving the lease up empties the buffer that the output reads.           *)
LEMMA LeaseInvReleased ==
  ASSUME SessionInv, audio_lease_owner_id' = None,
         output' = output \/ output' = None,
         output # None => jitter'[output] = {}
  PROVE  LeaseInv'
BY DEF LeaseInv, LeaseOwnerOnline, OutputPlaysOwner, SilentWithoutOwner

(* Cleaning up session c, which leaves the registry or is replaced in it:  *)
(* either its device loses the lease and the output is emptied, or another *)
(* device has the lease and neither its session nor its buffer changes.    *)
LEMMA LeaseInvCleanup ==
  ASSUME SessionInv, LeaseInv, NEW c \in Conn, device_id[c] \in Device,
         NEW reg \in [Device -> Conn \cup {None}],
         \A d \in Device \ {device_id[c]} : registry'[d] = registry[d],
         audio_lease_owner_id = device_id[c] => reg[device_id[c]] # None,
         audio_lease_owner_id' = OwnerAfterCleanup(c),
         jitter' = BuffersAfterCleanup(c, reg),
         output' = output \/ (output' = None /\ output = c)
  PROVE  LeaseInv'
<1> USE LeaseAssumption DEF SessionInv, SessionTypeOK, LeaseTypeOK
<1>1. CASE audio_lease_owner_id = device_id[c]
  <2>1. audio_lease_owner_id' = None
    BY <1>1 DEF OwnerAfterCleanup
  <2>2. output # None => jitter'[output] = {}
    BY <1>1 DEF BuffersAfterCleanup, Emptied
  <2> QED BY <2>1, <2>2, LeaseInvReleased
<1>2. CASE audio_lease_owner_id # device_id[c]
  <2>1. UNCHANGED audio_lease_owner_id
    BY <1>2 DEF OwnerAfterCleanup
  <2>2. output # None => jitter'[output] \subseteq jitter[output]
    BY <1>2 DEF BuffersAfterCleanup, Emptied
  <2>3. CASE audio_lease_owner_id = None
    BY <2>1, <2>2, <2>3
       DEF LeaseInv, LeaseOwnerOnline, OutputPlaysOwner, SilentWithoutOwner
  <2>4. CASE audio_lease_owner_id # None
    <3>1. /\ registry'[audio_lease_owner_id] = registry[audio_lease_owner_id]
          /\ output = registry[audio_lease_owner_id]
          /\ output \in Conn /\ device_id[output] = audio_lease_owner_id
      BY <1>2, <2>4
         DEF LeaseInv, LeaseOwnerOnline, OutputPlaysOwner, AudioOwner, RegistryLive
    <3>2. output' = output
      BY <1>2, <3>1
    <3> QED BY <2>1, <2>2, <2>4, <3>1, <3>2
            DEF LeaseInv, LeaseOwnerOnline, OutputPlaysOwner, SilentWithoutOwner,
                AudioOwner
  <2> QED BY <2>3, <2>4
<1> QED BY <1>1, <1>2

(* Taking the lease, and feeding audio to it.                              *)
LEMMA LeaseInvTaken ==
  ASSUME SessionInv, LeaseInv, NEW c \in Conn, Current(c),
         UNCHANGED <<registry, device_id>>,
         AudioClaim(c) \/ ReceiveAudio(c)
  PROVE  LeaseInv'
<1> USE LeaseAssumption
    DEF SessionInv, SessionTypeOK, LeaseTypeOK, LeaseInv, LeaseOwnerOnline,
        OutputPlaysOwner, SilentWithoutOwner, AudioOwner, Current
<1>1. CASE AudioClaim(c)
  <2>1. CASE AudioOwner = c
    <3>1. audio_lease_owner_id = device_id[c]
      BY <2>1 DEF RegistryLive
    <3> QED BY <1>1, <2>1, <3>1 DEF AudioClaim, BuffersForOwner
  <2>2. CASE AudioOwner # c
    <3>1. jitter'[c] = {} /\ output' = c
      BY <1>1, <2>2 DEF AudioClaim, BuffersForOwner, Emptied
    <3> QED BY <1>1, <3>1 DEF AudioClaim
  <2> QED BY <2>1, <2>2
<1>2. CASE ReceiveAudio(c)
  <2>1. CASE audio_lease_owner_id = None
    <3>1. /\ audio_lease_owner_id' = device_id[c]
          /\ output' = c
          /\ jitter' = [BuffersForOwner(c) EXCEPT ![c] = @ \cup {"owner"}]
      BY <1>2, <2>1 DEF ReceiveAudio
    <3>2. BuffersForOwner(c)[c] = {}
      BY <2>1 DEF BuffersForOwner, Emptied
    <3>3. jitter'[c] = {"owner"}
      BY <3>1, <3>2, BuffersType
    <3> QED BY <3>1, <3>3
  <2>2. CASE audio_lease_owner_id = device_id[c]
    <3>1. output = c /\ "other" \notin jitter[c]
      BY <2>2
    <3>2. output' = c /\ jitter'[c] = jitter[c] \cup {"owner"}
      BY <1>2, <2>2 DEF ReceiveAudio
    <3> QED BY <1>2, <2>2, <3>1, <3>2 DEF ReceiveAudio
  <2>3. CASE audio_lease_owner_id \notin {None, device_id[c]}
    <3>1. output # c /\ output \in Conn
      BY <2>3 DEF RegistryLive
    <3>2. jitter'[output] = jitter[output]
      BY <1>2, <2>3, <3>1 DEF ReceiveAudio
    <3> QED BY <1>2, <2>3, <3>1, <3>2 DEF ReceiveAudio
  <2> QED BY <2>1, <2>2, <2>3
<1> QED BY <1>1, <1>2

LEMMA LeaseInvNext == SessionInv /\ LeaseInv /\ [Next]_vars => LeaseInv'
<1> SUFFICES ASSUME SessionInv, LeaseInv, [Next]_vars PROVE LeaseInv'
  OBVIOUS
<1> USE LeaseAssumption DEF SessionInv, SessionTypeOK, LeaseTypeOK
<1>1. ASSUME NEW c \in Conn,
             \/ Connect(c) \/ DropLink(c) \/ KeyMessage(c)
             \/ \E d \in Device : HelloPaired(c, d) \/ PairAccepted(c, d) \/ PairUnsaved(c, d)
      PROVE  LeaseInv'
  BY <1>1, LeaseInvSame
     DEF Connect, DropLink, KeyMessage, HelloPaired, PairAccepted, PairUnsaved,
         leaseVars, sessionVars
<1>2. ASSUME NEW c \in Conn, LeaseMessage(c)
      PROVE  LeaseInv'
  <2>1. CASE AudioClaim(c)
    BY <1>2, <2>1, LeaseInvTaken DEF LeaseMessage, Listens, sessionVars
  <2>2. CASE AudioRelease(c)
    BY <1>2, <2>2, LeaseInvReleased DEF AudioRelease, ReleaseAudioLease, Emptied
  <2> QED BY <1>2, <2>1, <2>2 DEF LeaseMessage
<1>3. ASSUME NEW c \in Conn, Datagram(c)
      PROVE  LeaseInv'
  BY <1>3, LeaseInvTaken DEF Datagram, sessionVars
<1>4. ASSUME NEW c \in Conn, Register(c)
      PROVE  LeaseInv'
  <2> DEFINE d == device_id[c]
             old == registry[d]
             registered == [registry EXCEPT ![d] = c]
  <2>1. d \in Device /\ registry' = registered /\ UNCHANGED output
    BY <1>4 DEF Register, DeviceKnown
  <2>2. CASE old = None
    <3>1. Replaced(c) = {}
      BY <2>2 DEF Replaced
    <3>2. UNCHANGED <<audio_lease_owner_id, jitter>>
      BY <1>4, <3>1 DEF Register
    <3>3. audio_lease_owner_id # d
      BY <2>1, <2>2 DEF LeaseInv, LeaseOwnerOnline
    <3> QED BY <2>1, <3>2, <3>3
            DEF LeaseInv, LeaseOwnerOnline, OutputPlaysOwner, SilentWithoutOwner,
                AudioOwner
  <2>3. CASE old # None
    <3>1. old \in Conn /\ device_id[old] = d
      BY <2>1, <2>3 DEF RegistryLive
    <3>2. Replaced(c) # {}
      BY <2>3 DEF Replaced
    <3>3. /\ audio_lease_owner_id' = OwnerAfterCleanup(old)
          /\ jitter' = BuffersAfterCleanup(old, registered)
      BY <1>4, <3>2 DEF Register
    <3>4. registered \in [Device -> Conn \cup {None}] /\ registered[d] = c
      BY <2>1
    <3> QED BY <2>1, <3>1, <3>3, <3>4, LeaseInvCleanup
  <2> QED BY <2>2, <2>3
<1>5. ASSUME NEW c \in Conn, Finish(c)
      PROVE  LeaseInv'
  <2>1. CASE phase[c] = "loop"
    <3>1. /\ device_id[c] \in Device
          /\ registry' = Without(c)
          /\ audio_lease_owner_id' = OwnerAfterCleanup(c)
          /\ jitter' = BuffersAfterCleanup(c, registry)
          /\ output' = output \/ (output' = None /\ output = c)
      BY <1>5, <2>1 DEF Finish, DeviceKnown
    <3>2. \A d \in Device \ {device_id[c]} : registry'[d] = registry[d]
      BY <3>1 DEF Without, RegistryLive
    <3>3. audio_lease_owner_id = device_id[c] => registry[device_id[c]] # None
      BY <3>1 DEF LeaseInv, LeaseOwnerOnline
    <3> QED BY <3>1, <3>2, <3>3, LeaseInvCleanup
  <2>2. CASE phase[c] # "loop"
    BY <1>5, <2>2, LeaseInvSame DEF Finish, leaseVars
  <2> QED BY <2>1, <2>2
<1>6. ASSUME NEW d \in Device, Unpair(d)
      PROVE  LeaseInv'
  <2>1. CASE registry[d] = None
    BY <1>6, <2>1, LeaseInvSame DEF Unpair, leaseVars
  <2>2. CASE registry[d] # None
    <3> DEFINE c == registry[d]
    <3>1. /\ c \in Conn /\ device_id[c] = d
          /\ registry' = Without(c)
          /\ audio_lease_owner_id' = OwnerAfterCleanup(c)
          /\ jitter' = BuffersAfterCleanup(c, registry)
          /\ output' = output
      BY <1>6, <2>2 DEF Unpair, RegistryLive
    <3>2. \A e \in Device \ {d} : registry'[e] = registry[e]
      BY <3>1 DEF Without, RegistryLive
    <3> HIDE DEF c
    <3> QED BY <2>2, <3>1, <3>2, LeaseInvCleanup DEF c
  <2> QED BY <2>1, <2>2
<1>7. ASSUME NEW d \in Device, UnpairFails(d)
      PROVE  LeaseInv'
  BY <1>7, LeaseInvSame DEF UnpairFails, leaseVars
<1>8. CASE StopBegins \/ StopListening \/ Restart
  BY <1>8, LeaseInvSame DEF StopBegins, StopListening, Restart, leaseVars
<1>9. CASE StopSessions
  BY <1>9, LeaseInvReleased DEF StopSessions, Emptied
<1>10. CASE ExpiryTick
  BY <1>10, LeaseInvReleased DEF ExpiryTick, ExpireAudioLease, ReleaseAudioLease, Emptied
<1>11. CASE Elsewhere
  BY <1>11, LeaseInvSame DEF Elsewhere, Play, FallSilent, sessionVars
<1>12. CASE UNCHANGED vars
  BY <1>12, LeaseInvSame DEF vars, sessionVars, leaseVars
<1> QED BY <1>1, <1>2, <1>3, <1>4, <1>5, <1>6, <1>7, <1>8, <1>9, <1>10, <1>11, <1>12
        DEF Next, DeviceStep, AppStep, AgentStep

LEMMA LeaseInvAlways == Spec => []LeaseInv
<1>1. Init => LeaseInv
  BY LeaseAssumption
     DEF Init, LeaseInit, LeaseInv, LeaseOwnerOnline, OutputPlaysOwner,
         SilentWithoutOwner
<1> QED BY <1>1, LeaseInvNext, SessionInvAlways, PTL DEF Spec

(* The lease names a device that is online.                                *)
THEOREM OwnerAlwaysOnline == Spec => []LeaseOwnerOnline
BY LeaseInvAlways, PTL DEF LeaseInv

(* Nothing reaches the output but what its owner sent as owner, and        *)
(* nothing at all is left there without one.                               *)
THEOREM OnlyTheOwnerIsHeard == Spec => [](OutputPlaysOwner /\ SilentWithoutOwner)
BY LeaseInvAlways, PTL DEF LeaseInv

(* The lease never passes from one device straight to another.             *)
THEOREM LeaseNeverPreempted == Spec => NeverPreempted
<1> DEFINE Keeps == audio_lease_owner_id # None /\ audio_lease_owner_id' # None
                      => audio_lease_owner_id' = audio_lease_owner_id
<1>1. SessionInv /\ LeaseInv /\ [Next]_vars => [Keeps]_vars
  <2> SUFFICES ASSUME SessionInv, LeaseInv, [Next]_vars PROVE Keeps
    OBVIOUS
  <2> USE DEF SessionInv, SessionTypeOK, LeaseTypeOK
  <2>1. ASSUME NEW c \in Conn, LeaseMessage(c)
        PROVE  Keeps
    <3>1. AudioOwner = c => audio_lease_owner_id = device_id[c]
      BY LeaseAssumption DEF AudioOwner, RegistryLive
    <3>2. AudioOwner = None => audio_lease_owner_id = None
      BY DEF LeaseInv, LeaseOwnerOnline, AudioOwner
    <3> QED BY <2>1, <3>1, <3>2
            DEF LeaseMessage, AudioClaim, MayClaim, AudioRelease, ReleaseAudioLease
  <2>2. ASSUME NEW c \in Conn, Datagram(c)
        PROVE  Keeps
    BY <2>2 DEF Datagram, ReceiveAudio
  <2>3. ASSUME NEW c \in Conn, Register(c) \/ Finish(c)
        PROVE  Keeps
    BY <2>3 DEF Register, Finish, OwnerAfterCleanup, leaseVars
  <2>4. ASSUME NEW d \in Device, Unpair(d)
        PROVE  Keeps
    BY <2>4 DEF Unpair, OwnerAfterCleanup, leaseVars
  <2>5. CASE StopSessions \/ ExpiryTick
    BY <2>5 DEF StopSessions, ExpiryTick, ExpireAudioLease, ReleaseAudioLease
  <2>6. CASE Elsewhere
    BY <2>6 DEF Elsewhere, Play, FallSilent
  <2>7. CASE UNCHANGED audio_lease_owner_id
    BY <2>7
  <2> QED BY <2>1, <2>2, <2>3, <2>4, <2>5, <2>6, <2>7
          DEF Next, DeviceStep, AppStep, AgentStep, vars, leaseVars, Connect,
              HelloPaired, PairAccepted, PairUnsaved, KeyMessage, DropLink,
              UnpairFails, StopBegins, StopListening, Restart
<1> QED BY <1>1, SessionInvAlways, LeaseInvAlways, PTL DEF Spec, NeverPreempted

-----------------------------------------------------------------------------
(* The topics of a session.  What the proofs are about is the queue of     *)
(* frames on its connection: it never holds more than one frame of each of *)
(* the two tasks (OneEach), so it is enough to say what the first and the  *)
(* second frame may be.                                                    *)
Answers == {"sync_snapshot", "sync_subscribed"}

(* Each task has at most one frame in the queue.                           *)
OneEach ==
  \A i, j \in DOMAIN sends :
    (sends[i].t = "sync_update" <=> sends[j].t = "sync_update") => i = j

UpdateIsSending == InFlight({"sync_update"}) => sending # {}

(* The answer on its way has the topics the Agent goes by.                 *)
AnswerMatches ==
  \A i \in DOMAIN sends :
    sends[i].t = "sync_subscribed" => sends[i].topics = subscriptions

(* An update reaches a device that has been told of its topic: before, or  *)
(* by the answer ahead of it.                                              *)
Covered ==
  \A i \in DOMAIN sends :
    sends[i].t = "sync_update" =>
      sends[i].topics \subseteq
        IF i = 2 /\ sends[1].t = "sync_subscribed" THEN sends[1].topics ELSE told

SyncInv == /\ SyncTypeOK /\ ToldMatches
           /\ OneEach /\ UpdateIsSending /\ AnswerMatches /\ Covered

-----------------------------------------------------------------------------
(* Putting a frame at the end of the queue, and taking the first.          *)
LEMMA AppendFrame ==
  ASSUME NEW s \in Seq(Frame), NEW f \in Frame
  PROVE  /\ Append(s, f) \in Seq(Frame)
         /\ Len(Append(s, f)) = Len(s) + 1
         /\ DOMAIN Append(s, f) = 1 .. Len(s) + 1
         /\ DOMAIN s = 1 .. Len(s) /\ Len(s) \in Nat
         /\ \A i \in 1 .. Len(s) : Append(s, f)[i] = s[i]
         /\ Append(s, f)[Len(s) + 1] = f
OBVIOUS

LEMMA TailFrame ==
  ASSUME NEW s \in Seq(Frame), s # <<>>
  PROVE  /\ Tail(s) \in Seq(Frame)
         /\ Len(Tail(s)) = Len(s) - 1
         /\ DOMAIN Tail(s) = 1 .. Len(s) - 1
         /\ DOMAIN s = 1 .. Len(s) /\ Len(s) \in Nat /\ Len(s) > 0
         /\ \A i \in 1 .. Len(s) - 1 : Tail(s)[i] = s[i + 1]
         /\ Head(s) = s[1]
OBVIOUS

LEMMA FrameTypes ==
  /\ \A t \in Topic : Update(t) \in Frame /\ Snapshot(t) \in Frame
  /\ \A T \in SUBSET Topic : Answer(T) \in Frame
BY DEF Update, Snapshot, Answer, Frame

(* A task that has no frame in the queue finds at most one there.          *)
LEMMA RoomForUpdate ==
  ASSUME SyncInv, ~InFlight({"sync_update"})
  PROVE  Len(sends) <= 1
BY DEF SyncInv, SyncTypeOK, OneEach, InFlight, Frame

LEMMA OnlyUpdates ==
  ASSUME SyncTypeOK, ~InFlight({"sync_snapshot", "sync_subscribed"})
  PROVE  \A i \in DOMAIN sends : sends[i].t = "sync_update"
<1> TAKE i \in DOMAIN sends
<1>1. sends[i] \in Frame
  BY DEF SyncTypeOK
<1>2. sends[i].t \in {"sync_update", "sync_snapshot", "sync_subscribed"}
  BY <1>1 DEF Frame
<1>3. sends[i].t \notin {"sync_snapshot", "sync_subscribed"}
  BY DEF InFlight
<1> QED BY <1>2, <1>3

LEMMA RoomForAnswer ==
  ASSUME SyncInv, ~InFlight({"sync_snapshot", "sync_subscribed"})
  PROVE  Len(sends) <= 1
BY OnlyUpdates DEF SyncInv, SyncTypeOK, OneEach

LEMMA EmptyQueue ==
  <<>> \in Seq(Frame) /\ Len(<<>>) = 0 /\ DOMAIN <<>> = {}
OBVIOUS

LEMMA SyncInitInv == SyncInit => SyncInv
<1> SUFFICES ASSUME SyncInit PROVE SyncInv
  OBVIOUS
<1>1. sends = <<>> /\ sends \in Seq(Frame) /\ Len(sends) <= 2 /\ DOMAIN sends = {}
  BY EmptyQueue DEF SyncInit
<1>2. SyncTypeOK
  BY <1>1 DEF SyncInit, SyncTypeOK
<1>3. ToldMatches /\ OneEach /\ UpdateIsSending /\ AnswerMatches /\ Covered
  BY <1>1 DEF SyncInit, ToldMatches, OneEach, UpdateIsSending, AnswerMatches, Covered, InFlight
<1> QED BY <1>2, <1>3 DEF SyncInv

-----------------------------------------------------------------------------
(* What the invariant says of the queue.                                   *)
QueueInv == /\ sends \in Seq(Frame) /\ Len(sends) <= 2
            /\ ToldMatches /\ OneEach /\ UpdateIsSending /\ AnswerMatches /\ Covered

(* The session's task queues an answer or a snapshot.                      *)
LEMMA AnswerQueued ==
  ASSUME SyncInv, Reads, NEW f \in Frame, f.t \in Answers,
         sends' = Append(sends, f), UNCHANGED <<alive, sending, told>>,
         IF f.t = "sync_subscribed" THEN f.topics = subscriptions'
                                    ELSE subscriptions' = subscriptions
  PROVE  QueueInv'
<1>1. sends \in Seq(Frame) /\ DOMAIN sends = 1 .. Len(sends) /\ Len(sends) \in Nat
  BY DEF SyncInv, SyncTypeOK
<1>2. Len(sends) <= 1
  BY RoomForAnswer DEF Reads
<1>3. \A i \in 1 .. Len(sends) : sends[i].t = "sync_update"
  BY <1>1, OnlyUpdates DEF Reads, SyncInv
<1>4. /\ sends' \in Seq(Frame) /\ Len(sends') = Len(sends) + 1
      /\ DOMAIN sends' = 1 .. Len(sends) + 1
      /\ \A i \in 1 .. Len(sends) : sends'[i] = sends[i]
      /\ sends'[Len(sends) + 1] = f
  BY <1>1, AppendFrame
<1>5. f.t # "sync_update"
  BY DEF Answers
<1>6. told = subscriptions
  BY <1>1, <1>3 DEF SyncInv, ToldMatches, Reads, InFlight
<1>7. OneEach'
  BY <1>1, <1>2, <1>3, <1>4, <1>5 DEF OneEach
<1>8. UpdateIsSending'
  BY <1>1, <1>3, <1>4, <1>5 DEF SyncInv, UpdateIsSending, InFlight
<1>9. AnswerMatches'
  BY <1>1, <1>3, <1>4 DEF AnswerMatches
<1>10. ToldMatches'
  BY <1>1, <1>4, <1>6 DEF ToldMatches, InFlight, Answers
<1>11. Covered'
  BY <1>1, <1>2, <1>3, <1>4, <1>5 DEF SyncInv, Covered
<1> QED BY <1>2, <1>4, <1>7, <1>8, <1>9, <1>10, <1>11 DEF QueueInv

(* The flush queues an update of a topic that is subscribed to.            *)
LEMMA UpdateQueued ==
  ASSUME SyncInv, alive, ~InFlight({"sync_update"}), NEW t \in Topic, t \in subscriptions,
         sends' = Append(sends, Update(t)), sending' = {t},
         UNCHANGED <<alive, subscriptions, told>>
  PROVE  QueueInv'
<1>1. sends \in Seq(Frame) /\ DOMAIN sends = 1 .. Len(sends) /\ Len(sends) \in Nat
  BY DEF SyncInv, SyncTypeOK
<1>2. Len(sends) <= 1
  BY RoomForUpdate
<1>3. \A i \in 1 .. Len(sends) : sends[i].t # "sync_update"
  BY <1>1 DEF InFlight
<1>4. /\ sends' \in Seq(Frame) /\ Len(sends') = Len(sends) + 1
      /\ DOMAIN sends' = 1 .. Len(sends) + 1
      /\ \A i \in 1 .. Len(sends) : sends'[i] = sends[i]
      /\ sends'[Len(sends) + 1] = Update(t)
  BY <1>1, AppendFrame, FrameTypes
<1>5. Update(t).t = "sync_update" /\ Update(t).topics = {t}
  BY DEF Update
<1>6. OneEach'
  BY <1>1, <1>2, <1>3, <1>4, <1>5 DEF OneEach
<1>7. UpdateIsSending'
  BY DEF UpdateIsSending
<1>8. AnswerMatches'
  BY <1>1, <1>4, <1>5 DEF SyncInv, AnswerMatches
<1>9. ToldMatches'
  BY <1>1, <1>4, <1>5 DEF SyncInv, ToldMatches, InFlight
<1>10. Covered'
  <2>1. Len(sends) = 0 => told = subscriptions
    BY <1>1 DEF SyncInv, ToldMatches, InFlight
  <2>2. Len(sends) = 1 => IF sends[1].t = "sync_subscribed"
                          THEN sends[1].topics = subscriptions
                          ELSE told = subscriptions
    BY <1>1 DEF SyncInv, ToldMatches, AnswerMatches, InFlight
  <2> QED BY <1>1, <1>2, <1>3, <1>4, <1>5, <2>1, <2>2 DEF Covered
<1> QED BY <1>2, <1>4, <1>6, <1>7, <1>8, <1>9, <1>10 DEF QueueInv

(* The queue stays as it is.                                               *)
LEMMA QueueSame ==
  ASSUME SyncInv, UNCHANGED <<alive, sends, subscriptions, told>>,
         sending' = sending \/ ~InFlight({"sync_update"})
  PROVE  QueueInv'
BY DEF SyncInv, SyncTypeOK, QueueInv, ToldMatches, OneEach, UpdateIsSending, AnswerMatches,
       Covered, InFlight

-----------------------------------------------------------------------------
(* The first frame leaves the queue.                                       *)
LEMMA SentQueue ==
  ASSUME SyncInv, Sent
  PROVE  QueueInv'
<1>1. /\ sends \in Seq(Frame) /\ sends # <<>> /\ Len(sends) <= 2
      /\ sends' = Tail(sends) /\ UNCHANGED <<alive, subscriptions, sending>>
  BY DEF SyncInv, SyncTypeOK, Sent, topicVars, flushVars
<1>2. /\ sends' \in Seq(Frame) /\ Len(sends') = Len(sends) - 1
      /\ DOMAIN sends' = 1 .. Len(sends) - 1
      /\ DOMAIN sends = 1 .. Len(sends) /\ Len(sends) \in {1, 2}
      /\ \A i \in 1 .. Len(sends) - 1 : sends'[i] = sends[i + 1]
      /\ Head(sends) = sends[1]
  <2>1. Len(sends) \in Nat /\ Len(sends) > 0 /\ Len(sends) <= 2
    BY <1>1, TailFrame
  <2>2. Len(sends) \in {1, 2}
    <3>1. \A n \in Nat : n > 0 /\ n <= 2 => n \in {1, 2}
      OBVIOUS
    <3> QED BY <2>1, <3>1, Zenon
  <2>3. /\ Tail(sends) \in Seq(Frame) /\ Len(Tail(sends)) = Len(sends) - 1
        /\ DOMAIN Tail(sends) = 1 .. Len(sends) - 1 /\ DOMAIN sends = 1 .. Len(sends)
        /\ \A i \in 1 .. Len(sends) - 1 : Tail(sends)[i] = sends[i + 1]
        /\ Head(sends) = sends[1]
    BY <1>1, TailFrame
  <2> QED BY <1>1, <2>2, <2>3, Zenon
<1>3. told' = IF sends[1].t = "sync_subscribed" THEN sends[1].topics ELSE told
  BY <1>2 DEF Sent
<1>4. OneEach'
  <2> SUFFICES ASSUME NEW i \in DOMAIN sends', NEW j \in DOMAIN sends',
                      sends'[i].t = "sync_update" <=> sends'[j].t = "sync_update"
               PROVE  i = j
    BY DEF OneEach
  <2>1. i \in 1 .. Len(sends) - 1 /\ j \in 1 .. Len(sends) - 1
    BY <1>2
  <2> QED BY <1>2, <2>1
<1>5. UpdateIsSending'
  BY <1>1, <1>2 DEF SyncInv, UpdateIsSending, InFlight
<1>6. AnswerMatches'
  BY <1>1, <1>2 DEF SyncInv, AnswerMatches
<1>7. ToldMatches'
  <2>1. CASE sends[1].t = "sync_subscribed"
    BY <1>1, <1>2, <1>3, <2>1 DEF SyncInv, AnswerMatches, ToldMatches
  <2>2. CASE sends[1].t # "sync_subscribed"
    <3>1. told' = told
      BY <1>3, <2>2
    <3>2. InFlight({"sync_subscribed"}) => InFlight({"sync_subscribed"})'
      <4>1. ASSUME NEW i \in DOMAIN sends, sends[i].t = "sync_subscribed"
            PROVE  i - 1 \in DOMAIN sends' /\ sends'[i - 1].t = "sync_subscribed"
        BY <1>2, <2>2, <4>1
      <4> QED BY <4>1 DEF InFlight
    <3> QED BY <1>1, <3>1, <3>2 DEF SyncInv, ToldMatches
  <2> QED BY <2>1, <2>2
<1>8. Covered'
  BY <1>1, <1>2, <1>3 DEF SyncInv, Covered
<1> QED BY <1>1, <1>2, <1>4, <1>5, <1>6, <1>7, <1>8 DEF QueueInv

(* The flush goes on, when the update it awaited, if any, has been sent.   *)
LEMMA FlushOnInv ==
  ASSUME SyncInv, alive, ~InFlight({"sync_update"}),
         NEW T \in SUBSET Topic, NEW P \in SUBSET Topic, NEW C \in SUBSET Topic,
         FlushOn(T, P, C), UNCHANGED <<alive, subscriptions, told>>
  PROVE  SyncInv'
<1>1. ASSUME NEW t \in Ready(T, C), NEW S \in SUBSET (T \ Ready(T, C)),
             sending' = {t}, todo' = T \ (S \cup {t}), pending_topics' = Skip(P, S),
             sends' = Append(sends, Update(t)), Built(t)
      PROVE  SyncInv'
  <2>1. t \in Topic /\ t \in subscriptions
    BY <1>1 DEF Ready
  <2>2. QueueInv'
    BY <1>1, <2>1, UpdateQueued
  <2>3. SyncTypeOK'
    BY <1>1, <2>1, <2>2 DEF FlushOn, Skip, Built, QueueInv, SyncInv, SyncTypeOK
  <2> QED BY <2>2, <2>3 DEF QueueInv, SyncInv
<1>2. CASE /\ sending' = {} /\ todo' = {} /\ pending_topics' = Skip(P, T)
           /\ UNCHANGED <<sends, newsVars>>
  <2>1. QueueInv'
    BY <1>2, QueueSame
  <2>2. SyncTypeOK'
    BY <1>2, <2>1 DEF FlushOn, Skip, newsVars, QueueInv, SyncInv, SyncTypeOK
  <2> QED BY <2>1, <2>2 DEF QueueInv, SyncInv
<1> QED BY <1>1, <1>2 DEF FlushOn

-----------------------------------------------------------------------------
LEMMA SyncNextInv == SyncInv /\ [SyncNext]_syncVars => SyncInv'
<1> SUFFICES ASSUME SyncInv, [SyncNext]_syncVars PROVE SyncInv'
  OBVIOUS
<1> USE TopicAssumption DEF topicVars, flushVars, newsVars, Built
<1>1. ASSUME NEW t \in Topic, Request(t) PROVE SyncInv'
  <2>1. Snapshot(t) \in Frame /\ Snapshot(t).t = "sync_snapshot"
    BY FrameTypes DEF Snapshot
  <2>2. QueueInv'
    BY <1>1, <2>1, AnswerQueued DEF Request, Answers
  <2>3. SyncTypeOK'
    BY <1>1, <2>2 DEF Request, QueueInv, SyncInv, SyncTypeOK
  <2> QED BY <2>2, <2>3 DEF QueueInv, SyncInv
<1>2. ASSUME NEW T \in SUBSET Topic, Subscribe(T) PROVE SyncInv'
  <2> DEFINE f == Answer(Subscribed(T \cap Subscribable))
  <2>1. /\ f \in Frame /\ f.t = "sync_subscribed"
        /\ f.topics = subscriptions \cup (T \cap Subscribable)
    BY FrameTypes DEF SyncInv, SyncTypeOK, Answer, Subscribed
  <2>2. QueueInv'
    BY <1>2, <2>1, AnswerQueued DEF Subscribe, Answers
  <2>3. SyncTypeOK'
    BY <1>2, <2>2 DEF Subscribe, QueueInv, SyncInv, SyncTypeOK
  <2> QED BY <2>2, <2>3 DEF QueueInv, SyncInv
<1>3. ASSUME NEW T \in SUBSET Topic, Unsubscribe(T) PROVE SyncInv'
  <2> DEFINE f == Answer(subscriptions \ T)
  <2>1. f \in Frame /\ f.t = "sync_subscribed" /\ f.topics = subscriptions \ T
    BY FrameTypes DEF SyncInv, SyncTypeOK, Answer
  <2>2. QueueInv'
    BY <1>3, <2>1, AnswerQueued DEF Unsubscribe, Answers
  <2>3. SyncTypeOK'
    BY <1>3, <2>2 DEF Unsubscribe, QueueInv, SyncInv, SyncTypeOK
  <2> QED BY <2>2, <2>3 DEF QueueInv, SyncInv
<1>4. ASSUME NEW T \in SUBSET Topic, Change(T) PROVE SyncInv'
  <2>1. QueueInv'
    BY <1>4, QueueSame DEF Change
  <2>2. SyncTypeOK'
    BY <1>4, <2>1 DEF Change, QueueInv, SyncInv, SyncTypeOK
  <2> QED BY <2>1, <2>2 DEF QueueInv, SyncInv
<1>5. CASE FlushReach
  <2>1. ~InFlight({"sync_update"})
    BY <1>5 DEF FlushReach, SyncInv, UpdateIsSending
  <2>2. pending_topics \in SUBSET Topic /\ closed \in SUBSET Topic
    BY DEF SyncInv, SyncTypeOK
  <2> QED BY <1>5, <2>1, <2>2, FlushOnInv DEF FlushReach
<1>6. CASE FlushResume /\ alive
  <2>1. /\ todo \in SUBSET Topic
        /\ pending_topics \ sending \in SUBSET Topic
        /\ closed \cup sending \in SUBSET Topic
    BY DEF SyncInv, SyncTypeOK
  <2> QED BY <1>6, <2>1, FlushOnInv DEF FlushResume
<1>7. CASE FlushResume /\ ~alive
  <2>1. QueueInv'
    BY <1>7, QueueSame DEF FlushResume
  <2>2. SyncTypeOK'
    BY <1>7, <2>1 DEF FlushResume, QueueInv, SyncInv, SyncTypeOK
  <2> QED BY <2>1, <2>2 DEF QueueInv, SyncInv
<1>8. ASSUME NEW t \in Topic, WindowPasses(t) PROVE SyncInv'
  <2>1. QueueInv'
    BY <1>8, QueueSame DEF WindowPasses
  <2>2. SyncTypeOK'
    BY <1>8, <2>1 DEF WindowPasses, QueueInv, SyncInv, SyncTypeOK
  <2> QED BY <2>1, <2>2 DEF QueueInv, SyncInv
<1>9. CASE Sent
  <2>1. QueueInv'
    BY <1>9, SentQueue
  <2>2. told' \in SUBSET Topic
    <3>1. sends \in Seq(Frame) /\ sends # <<>>
      BY <1>9 DEF Sent, SyncInv, SyncTypeOK
    <3>2. Head(sends) \in Frame
      BY <3>1
    <3>3. Head(sends).topics \in SUBSET Topic
      BY <3>2 DEF Frame
    <3> QED BY <1>9, <3>3 DEF Sent, SyncInv, SyncTypeOK
  <2>3. SyncTypeOK'
    BY <1>9, <2>1, <2>2 DEF Sent, QueueInv, SyncInv, SyncTypeOK
  <2> QED BY <2>1, <2>3 DEF QueueInv, SyncInv
<1>10. CASE End
  <2>1. sends' = <<>> /\ sends' \in Seq(Frame) /\ Len(sends') <= 2 /\ DOMAIN sends' = {}
    BY <1>10, EmptyQueue DEF End
  <2>2. alive' = FALSE
    BY <1>10 DEF End
  <2>3. QueueInv'
    BY <2>1, <2>2 DEF QueueInv, ToldMatches, OneEach, UpdateIsSending,
                      AnswerMatches, Covered, InFlight
  <2>4. SyncTypeOK'
    BY <1>10, <2>1, <2>2 DEF End, SyncInv, SyncTypeOK
  <2> QED BY <2>3, <2>4 DEF QueueInv, SyncInv
<1>11. CASE UNCHANGED syncVars
  <2>1. QueueInv'
    BY <1>11, QueueSame DEF syncVars
  <2>2. SyncTypeOK'
    BY <1>11 DEF syncVars, SyncInv, SyncTypeOK
  <2> QED BY <2>1, <2>2 DEF QueueInv, SyncInv
<1> QED BY <1>1, <1>2, <1>3, <1>4, <1>5, <1>6, <1>7, <1>8, <1>9, <1>10, <1>11 DEF SyncNext

LEMMA SyncInvAlways == SyncSpec => []SyncInv
BY SyncInitInv, SyncNextInv, PTL DEF SyncSpec

(* The queue of a connection never holds more than one frame of each task, *)
(* and subscriptions stay within the negotiated topics.                    *)
THEOREM SyncTypeCorrect == SyncSpec => []SyncTypeOK
BY SyncInvAlways, PTL DEF SyncInv

(* The device and the Agent agree on the subscriptions, but for the answer *)
(* on its way.                                                             *)
THEOREM DeviceAgrees == SyncSpec => []ToldMatches
BY SyncInvAlways, PTL DEF SyncInv

(* No update of a topic arrives after the answer that it is unsubscribed.  *)
THEOREM NoUpdateAfterUnsubscribe == SyncSpec => UpdatesOnlyWhileTold
<1>1. ASSUME SyncInv, [SyncNext]_syncVars
      PROVE  [sends # <<>> /\ alive' /\ Len(sends') < Len(sends) /\ Head(sends).t = "sync_update"
                => Head(sends).topics \subseteq told]_syncVars
  <2>1. SUFFICES ASSUME sends # <<>>, Head(sends).t = "sync_update"
                 PROVE  Head(sends).topics \subseteq told
    OBVIOUS
  <2>2. sends \in Seq(Frame)
    BY <1>1 DEF SyncInv, SyncTypeOK
  <2>3. 1 \in DOMAIN sends /\ Head(sends) = sends[1]
    BY <2>1, <2>2, TailFrame
  <2> QED BY <1>1, <2>1, <2>3 DEF SyncInv, Covered
<1> QED BY <1>1, SyncInvAlways, PTL DEF SyncSpec, UpdatesOnlyWhileTold

-----------------------------------------------------------------------------
(* A topic whose update is being sent has nothing newer to be told but     *)
(* what is overlooked when the send ends.                                  *)
Merged == ChangesArePending /\ sending \cap stale \subseteq overlooked

LEMMA FlushOnMerged ==
  ASSUME Merged, NEW T, NEW P, NEW C, FlushOn(T, P, C), subscriptions' = subscriptions,
         subscriptions \cap (stale \ overlooked) \subseteq P
  PROVE  Merged'
<1>1. ASSUME NEW t \in Ready(T, C), NEW S, sending' = {t},
             pending_topics' = Skip(P, S), Built(t)
      PROVE  Merged'
  BY <1>1 DEF Merged, ChangesArePending, Skip, Built
<1>2. CASE sending' = {} /\ pending_topics' = Skip(P, T) /\ UNCHANGED newsVars
  BY <1>2 DEF Merged, ChangesArePending, Skip, newsVars
<1> QED BY <1>1, <1>2 DEF FlushOn

LEMMA NextMerged == Merged /\ [SyncNext]_syncVars => Merged'
<1> SUFFICES ASSUME Merged, [SyncNext]_syncVars PROVE Merged'
  OBVIOUS
<1> USE DEF Merged, ChangesArePending, Built, topicVars, flushVars, newsVars
<1>1. ASSUME NEW t \in Topic, Request(t) PROVE Merged'
  BY <1>1 DEF Request
<1>2. ASSUME NEW T \in SUBSET Topic, Subscribe(T) PROVE Merged'
  BY <1>2 DEF Subscribe
<1>3. ASSUME NEW T \in SUBSET Topic, Unsubscribe(T) PROVE Merged'
  BY <1>3 DEF Unsubscribe
<1>4. ASSUME NEW T \in SUBSET Topic, Change(T) PROVE Merged'
  BY <1>4 DEF Change
<1>5. CASE FlushReach
  BY <1>5, FlushOnMerged DEF FlushReach
<1>6. CASE FlushResume /\ alive
  BY <1>6, FlushOnMerged DEF FlushResume
<1>7. CASE FlushResume /\ ~alive
  BY <1>7 DEF FlushResume
<1>8. ASSUME NEW t \in Topic, WindowPasses(t) PROVE Merged'
  BY <1>8 DEF WindowPasses
<1>9. CASE Sent
  BY <1>9 DEF Sent
<1>10. CASE End
  BY <1>10 DEF End
<1>11. CASE UNCHANGED syncVars
  BY <1>11 DEF syncVars
<1> QED BY <1>1, <1>2, <1>3, <1>4, <1>5, <1>6, <1>7, <1>8, <1>9, <1>10, <1>11 DEF SyncNext

(* A topic a device subscribes to, and whose newest frame is out of date,  *)
(* is pending, unless its last change came while that frame, an update,    *)
(* was being sent (server.py:1355).                                        *)
THEOREM ChangesNotLost == SyncSpec => []ChangesArePending
<1>1. SyncInit => Merged
  BY DEF SyncInit, Merged, ChangesArePending
<1> QED BY <1>1, NextMerged, PTL DEF SyncSpec, Merged

-----------------------------------------------------------------------------
(* The session store.  Its invariant: types, no prompt of a session later  *)
(* than the latest one noted, a fresh focus on the session of that one,    *)
(* and the decks up to date.                                               *)
PromptsNoted == \A s \in Session : sessions[s].prompt <= latestPrompt

FocusNoted ==
  /\ focus = NoFocus => latestPrompt = 0
  /\ fresh => focus \in known /\ sessions[focus].prompt = latestPrompt

LEMMA KeptSubset ==
  ASSUME NEW K, NEW S, NEW L \in Kept(K, S)
  PROVE  L \subseteq K
BY DEF Kept

LEMMA NewSessionType == NewSession \in AgentSession /\ NewSession.prompt = 0
BY DEF NewSession, AgentSession, Status, SessionPhase

(* What a trim leaves is of the type of what it got.                       *)
LEMMA TrimTypes ==
  ASSUME StoreTypeOK, NEW S \in [Session -> AgentSession],
         NEW T \in [Session -> Turn \cup {NoTurn}], NEW L \in SUBSET Session, TrimTo(L, S, T)
  PROVE  /\ known' \in SUBSET Session
         /\ sessions' \in [Session -> AgentSession]
         /\ turns' \in [Session -> Turn \cup {NoTurn}]
         /\ listed' \in [Deck -> SUBSET known']
BY NewSessionType DEF TrimTo

(* The fields an event leaves: of its session the new ones, of the others  *)
(* the old ones, unless trimmed.                                           *)
LEMMA PutFields ==
  ASSUME StoreTypeOK, NEW s \in Session, NEW r \in AgentSession,
         NEW t \in Turn \cup {NoTurn}, Put(s, r, t)
  PROVE  /\ known' \in SUBSET (known \cup {s})
         /\ sessions' \in [Session -> AgentSession]
         /\ turns' \in [Session -> Turn \cup {NoTurn}]
         /\ listed' \in [Deck -> SUBSET known']
         /\ \A o \in Session : sessions'[o] =
              IF o \notin known' THEN NewSession ELSE IF o = s THEN r ELSE sessions[o]
<1> DEFINE S == [sessions EXCEPT ![s] = r]
           T == [turns EXCEPT ![s] = t]
<1>1. PICK L \in Kept(known \cup {s}, S) : TrimTo(L, S, T)
  BY DEF Put
<1>2. L \in SUBSET (known \cup {s}) /\ L \in SUBSET Session
  BY KeptSubset, <1>1 DEF StoreTypeOK
<1>3. S \in [Session -> AgentSession] /\ T \in [Session -> Turn \cup {NoTurn}]
  BY DEF StoreTypeOK
<1>4. \A o \in Session : S[o] = IF o = s THEN r ELSE sessions[o]
  BY DEF StoreTypeOK
<1>5. known' = L /\ \A o \in Session : sessions'[o] = IF o \in L THEN S[o] ELSE NewSession
  BY <1>1 DEF TrimTo
<1>6. /\ known' \in SUBSET Session
      /\ sessions' \in [Session -> AgentSession]
      /\ turns' \in [Session -> Turn \cup {NoTurn}]
      /\ listed' \in [Deck -> SUBSET known']
  BY <1>1, <1>2, <1>3, TrimTypes
<1> HIDE DEF S, T
<1> QED BY <1>2, <1>4, <1>5, <1>6

StoreInv == StoreTypeOK /\ PromptsNoted /\ FocusNoted /\ DecksUpToDate

LEMMA StoreInitInv == StoreInit => StoreInv
<1> SUFFICES ASSUME StoreInit PROVE StoreInv
  OBVIOUS
<1>1. StoreTypeOK
  BY NewSessionType
     DEF StoreInit, StoreTypeOK, NeverSeen, Appearance, Status, SessionPhase
<1>2. PromptsNoted
  BY NewSessionType DEF StoreInit, PromptsNoted
<1>3. DecksUpToDate
  BY DEF StoreInit, DecksUpToDate
<1>4. FocusNoted
  BY DEF StoreInit, FocusNoted
<1> QED BY <1>1, <1>2, <1>3, <1>4 DEF StoreInv

(* The store changed and the decks did not: they are still up to date when *)
(* a broadcast is scheduled, and when what they are shown stays as it is.  *)
LEMMA EventInv ==
  ASSUME StoreInv, EventFrame,
         known' \in SUBSET Session,
         sessions' \in [Session -> AgentSession],
         turns' \in [Session -> Turn \cup {NoTurn}],
         listed' \in [Deck -> SUBSET known'],
         focus' \in Session \cup {NoFocus}, focusSeq' \in Nat, latestPrompt' \in Nat,
         scheduled' \in BOOLEAN, fresh' \in BOOLEAN,
         \A o \in Session : sessions'[o].prompt <= latestPrompt', FocusNoted',
         \/ scheduled' = TRUE
         \/ /\ scheduled' = scheduled
            /\ UNCHANGED focusVars
            /\ \A d \in Deck : listed'[d] \subseteq listed[d]
            /\ \A o \in known' : \A c : As(sessions'[o], c) = As(sessions[o], c)
  PROVE  StoreInv'
<1>1. StoreTypeOK'
  BY DEF StoreInv, StoreTypeOK, EventFrame
<1>2. PromptsNoted'
  BY DEF PromptsNoted
<1>3. CASE scheduled' = TRUE
  BY <1>1, <1>2, <1>3 DEF StoreInv, DecksUpToDate
<1>4. CASE /\ scheduled' = scheduled
           /\ UNCHANGED focusVars
           /\ \A d \in Deck : listed'[d] \subseteq listed[d]
           /\ \A o \in known' : \A c : As(sessions'[o], c) = As(sessions[o], c)
  <2>1. ASSUME NEW d \in linked' \ due', ~scheduled'
        PROVE  shownFocus'[d] = <<focus', focusSeq'>>
    BY <1>4, <2>1 DEF StoreInv, DecksUpToDate, EventFrame, focusVars
  <2>2. ASSUME NEW d \in linked' \ due', ~scheduled', NEW o \in listed'[d]
        PROVE  shown'[d][o] = As(sessions'[o], cursors'[d][o])
    <3>1. d \in Deck /\ o \in known' /\ o \in listed[d] /\ d \in linked \ due /\ ~scheduled
      BY <1>4, <2>2 DEF StoreInv, StoreTypeOK, EventFrame
    <3>2. shown[d][o] = As(sessions[o], cursors[d][o])
      BY <3>1 DEF StoreInv, DecksUpToDate
    <3> QED BY <1>4, <3>1, <3>2 DEF EventFrame
  <2> QED BY <1>1, <1>2, <2>1, <2>2 DEF StoreInv, DecksUpToDate
<1> QED BY <1>3, <1>4

(* An event about a session that leaves it with the fields r.              *)
LEMMA PutInv ==
  ASSUME StoreInv, EventFrame, NEW s \in Session, NEW r \in AgentSession,
         NEW t \in Turn \cup {NoTurn}, Put(s, r, t),
         focus' \in Session \cup {NoFocus}, focusSeq' \in Nat, latestPrompt' \in Nat,
         scheduled' \in BOOLEAN,
         latestPrompt <= latestPrompt', r.prompt <= latestPrompt',
         fresh' \in BOOLEAN, FocusNoted',
         \/ scheduled' = TRUE
         \/ /\ scheduled' = scheduled
            /\ UNCHANGED focusVars
            /\ \A c : As(r, c) = As(sessions[s], c)
  PROVE  StoreInv'
<1>1. /\ known' \in SUBSET (known \cup {s})
      /\ sessions' \in [Session -> AgentSession]
      /\ turns' \in [Session -> Turn \cup {NoTurn}]
      /\ listed' \in [Deck -> SUBSET known']
      /\ \A o \in Session : sessions'[o] =
           IF o \notin known' THEN NewSession ELSE IF o = s THEN r ELSE sessions[o]
  BY PutFields DEF StoreInv
<1>2. known' \in SUBSET Session
  BY <1>1 DEF StoreInv, StoreTypeOK
<1>3. \A o \in Session : sessions'[o].prompt <= latestPrompt'
  <2> TAKE o \in Session
  <2>1. CASE o \notin known'
    BY <1>1, <2>1, NewSessionType
  <2>2. CASE o \in known' /\ o = s
    BY <1>1, <2>2
  <2>3. CASE o \in known' /\ o # s
    <3>1. sessions[o].prompt <= latestPrompt /\ sessions[o].prompt \in Nat /\ latestPrompt \in Nat
      BY DEF StoreInv, PromptsNoted, StoreTypeOK, AgentSession
    <3> QED BY <1>1, <2>3, <3>1
  <2> QED BY <2>1, <2>2, <2>3
<1>4. \A d \in Deck : listed'[d] \subseteq listed[d]
  BY DEF Put, TrimTo
<1>5. ASSUME \A c : As(r, c) = As(sessions[s], c)
      PROVE  \A o \in known' : \A c : As(sessions'[o], c) = As(sessions[o], c)
  BY <1>1, <1>2, <1>5
<1> QED BY <1>1, <1>2, <1>3, <1>4, <1>5, EventInv

(* The user's prompt takes the focus.                                      *)
LEMMA FocusOnTypes ==
  ASSUME StoreTypeOK, NEW s \in Session, NEW at \in Nat, FocusOn(s, at)
  PROVE  /\ focus' \in Session /\ focusSeq' \in Nat /\ latestPrompt' \in Nat
         /\ latestPrompt <= latestPrompt' /\ at <= latestPrompt'
BY DEF FocusOn, FocusGiven, StoreTypeOK, Later

(* Fields of a session, and what they say of the latest prompt.            *)
LEMMA FieldsOf ==
  ASSUME StoreInv, NEW s \in Session
  PROVE  /\ sessions[s] \in AgentSession
         /\ sessions[s].prompt \in Nat /\ sessions[s].updated \in Nat
         /\ sessions[s].prompt <= latestPrompt /\ latestPrompt \in Nat
BY DEF StoreInv, PromptsNoted, StoreTypeOK, AgentSession

(* A prompt told no later than any newer one leaves its session with the   *)
(* latest prompt noted.                                                    *)
LEMMA FocusOnNoted ==
  ASSUME StoreInv, NEW s \in Session, NEW r \in AgentSession,
         NEW t \in Turn \cup {NoTurn}, Put(s, r, t),
         NEW at \in Nat, FocusOn(s, at), r.prompt = Later(sessions[s].prompt, at)
  PROVE  FocusNoted' /\ fresh' \in BOOLEAN
<1>1. /\ focus' = s /\ latestPrompt' = Later(latestPrompt, at)
      /\ fresh' = (at >= latestPrompt /\ s \in known')
  BY DEF FocusOn, FocusGiven
<1>2. s # NoFocus
  BY StoreAssumption
<1>3. s \in known' => sessions'[s] = r
  BY PutFields DEF StoreInv
<1>4. at >= latestPrompt => r.prompt = Later(latestPrompt, at)
  BY FieldsOf DEF Later
<1> QED BY <1>1, <1>2, <1>3, <1>4 DEF FocusNoted

(* An event that is no prompt leaves the focus and the prompts.            *)
LEMMA FocusStaysNoted ==
  ASSUME StoreInv, NEW s \in Session, NEW r \in AgentSession,
         NEW t \in Turn \cup {NoTurn}, Put(s, r, t),
         FocusStays, r.prompt = sessions[s].prompt
  PROVE  FocusNoted' /\ fresh' \in BOOLEAN
<1>1. /\ focus' = focus /\ latestPrompt' = latestPrompt
      /\ fresh' = (fresh /\ focus \in known')
  BY DEF FocusStays, focusVars
<1>2. \A o \in known' : o \in Session /\ sessions'[o] = IF o = s THEN r ELSE sessions[o]
  BY PutFields DEF StoreInv, StoreTypeOK
<1>3. ASSUME fresh' PROVE focus \in known' /\ sessions'[focus].prompt = latestPrompt
  <2>1. focus \in known' /\ sessions[focus].prompt = latestPrompt
    BY <1>1, <1>3 DEF StoreInv, FocusNoted
  <2> QED BY <1>2, <2>1
<1>4. focus = NoFocus => latestPrompt = 0
  BY DEF StoreInv, FocusNoted
<1> QED BY <1>1, <1>3, <1>4 DEF FocusNoted

LEMMA TurnStartedInv ==
  ASSUME StoreInv, NEW s \in Session, NEW t \in Turn \cup {NoTurn}, NEW at \in 1 .. clock,
         TurnStarted(s, t, at)
  PROVE  StoreInv'
<1> DEFINE r == Started(sessions[s], at)
           u == IF t # NoTurn THEN t ELSE turns[s]
<1>1. at \in Nat
  BY DEF StoreInv, StoreTypeOK
<1>2. r \in AgentSession /\ r.prompt = Later(sessions[s].prompt, at)
  BY <1>1, FieldsOf DEF Started, AgentSession, Status, SessionPhase, Later
<1>3. u \in Turn \cup {NoTurn}
  BY DEF StoreInv, StoreTypeOK
<1>4. /\ focus' \in Session /\ focusSeq' \in Nat /\ latestPrompt' \in Nat
      /\ latestPrompt <= latestPrompt' /\ at <= latestPrompt'
  BY <1>1, FocusOnTypes DEF TurnStarted, StoreInv
<1>5. r.prompt <= latestPrompt'
  BY <1>1, <1>2, <1>4, FieldsOf DEF Later
<1>6. Put(s, r, u) /\ EventFrame /\ scheduled' = TRUE /\ FocusOn(s, at)
  BY DEF TurnStarted, Notify
<1> HIDE DEF r, u
<1>7. FocusNoted' /\ fresh' \in BOOLEAN
  BY <1>1, <1>2, <1>3, <1>6, FocusOnNoted
<1> QED BY <1>2, <1>3, <1>4, <1>5, <1>6, <1>7, PutInv

LEMMA MentionInv ==
  ASSUME StoreInv, NEW s \in Session, NEW renamed \in BOOLEAN, Mention(s, renamed)
  PROVE  StoreInv'
<1>1. /\ known' \in SUBSET Session /\ known \subseteq known'
      /\ sessions' = sessions /\ turns' = turns /\ listed' = listed
      /\ focus' = focus /\ focusSeq' = focusSeq /\ latestPrompt' = latestPrompt
  BY DEF Mention, StoreInv, StoreTypeOK, FocusStays, focusVars
<1>2. scheduled' = (scheduled \/ renamed) /\ EventFrame
  BY DEF Mention, Notify
<1>3. scheduled' = TRUE \/ scheduled' = scheduled
  BY <1>2 DEF StoreInv, StoreTypeOK
<1>4. listed' \in [Deck -> SUBSET known']
  BY <1>1 DEF StoreInv, StoreTypeOK
<1>5. \A o \in Session : sessions'[o].prompt <= latestPrompt'
  BY <1>1 DEF StoreInv, PromptsNoted
<1>6. scheduled' \in BOOLEAN
  BY <1>2
<1>7. fresh' = (fresh /\ focus \in known')
  BY DEF Mention, FocusStays
<1>8. FocusNoted' /\ fresh' \in BOOLEAN
  BY <1>1, <1>7 DEF StoreInv, FocusNoted
<1> QED BY <1>1, <1>2, <1>3, <1>4, <1>5, <1>6, <1>8, EventInv DEF StoreInv, StoreTypeOK, focusVars

LEMMA TurnCompletedInv ==
  ASSUME StoreInv, NEW s \in Session, NEW failed \in BOOLEAN, TurnCompleted(s, failed)
  PROVE  StoreInv'
<1> DEFINE r == [sessions[s] EXCEPT !.status = IF failed THEN "blocked" ELSE "ready",
                                    !.phase = "", !.unread = TRUE, !.updated = clock]
<1>1. r \in AgentSession /\ r.prompt = sessions[s].prompt
  BY FieldsOf DEF AgentSession, Status, SessionPhase, StoreInv, StoreTypeOK
<1>2. Put(s, r, turns[s]) /\ EventFrame /\ scheduled' = TRUE /\ FocusStays
  BY DEF TurnCompleted, Notify
<1>3. turns[s] \in Turn \cup {NoTurn}
  BY DEF StoreInv, StoreTypeOK
<1> HIDE DEF r
<1>4. FocusNoted' /\ fresh' \in BOOLEAN
  BY <1>1, <1>2, <1>3, FocusStaysNoted
<1>5. UNCHANGED focusVars
  BY <1>2 DEF FocusStays
<1> QED BY <1>1, <1>2, <1>3, <1>4, <1>5, FieldsOf, PutInv DEF focusVars, StoreInv, StoreTypeOK

LEMMA PublicActivityInv ==
  ASSUME StoreInv, NEW s \in Session, NEW ph \in {"thinking", "tool"}, NEW newText \in BOOLEAN,
         PublicActivity(s, ph, newText)
  PROVE  StoreInv'
<1> DEFINE r == [sessions[s] EXCEPT !.status = "running", !.phase = ph, !.unread = FALSE,
                                    !.updated = Later(@, clock)]
<1>1. r \in AgentSession /\ r.prompt = sessions[s].prompt
  BY FieldsOf DEF AgentSession, Status, SessionPhase, StoreInv, StoreTypeOK, Later
<1>2. Put(s, r, turns[s]) /\ EventFrame /\ FocusStays /\ UNCHANGED focusVars
      /\ scheduled' = (scheduled \/ Tells(s, ph, newText))
  BY DEF PublicActivity, Notify, FocusStays
<1>3. turns[s] \in Turn \cup {NoTurn} /\ scheduled \in BOOLEAN
  BY DEF StoreInv, StoreTypeOK
<1>4. Tells(s, ph, newText) \in BOOLEAN
  BY FieldsOf DEF Tells, AgentSession
<1>5. ASSUME ~Tells(s, ph, newText) PROVE \A c : As(r, c) = As(sessions[s], c)
  BY <1>5, FieldsOf DEF Tells, As, QuietFor, AgentSession
<1>6. scheduled' = TRUE \/ (scheduled' = scheduled /\ ~Tells(s, ph, newText))
  <2>1. CASE Tells(s, ph, newText)
    BY <1>2, <2>1
  <2>2. CASE ~Tells(s, ph, newText)
    BY <1>2, <1>3, <2>2
  <2> QED BY <2>1, <2>2
<1>7. focus' \in Session \cup {NoFocus} /\ focusSeq' \in Nat /\ latestPrompt' = latestPrompt
  BY <1>2 DEF focusVars, StoreInv, StoreTypeOK
<1>8. scheduled' \in BOOLEAN
  BY <1>3, <1>6
<1>9. \/ scheduled' = TRUE
      \/ /\ scheduled' = scheduled
         /\ UNCHANGED focusVars
         /\ \A c : As(r, c) = As(sessions[s], c)
  BY <1>2, <1>5, <1>6
<1>10. latestPrompt <= latestPrompt' /\ r.prompt <= latestPrompt' /\ latestPrompt' \in Nat
  BY <1>1, <1>7, FieldsOf
<1> HIDE DEF r
<1>11. FocusNoted' /\ fresh' \in BOOLEAN
  BY <1>1, <1>2, <1>3, FocusStaysNoted
<1> QED BY <1>1, <1>2, <1>3, <1>7, <1>8, <1>9, <1>10, <1>11, PutInv

(* A poll reports natural times of sessions.                               *)
LEMMA PollTypes ==
  ASSUME StoreTypeOK, NEW poll \in Poll
  PROVE  /\ DOMAIN poll \subseteq Session
         /\ \A s \in DOMAIN poll : poll[s].updated \in Nat /\ PromptOf(poll[s]) \in Nat
<1>1. PICK ids \in {I \in SUBSET Session : Cardinality(I) <= AgentLimit} : poll \in [ids -> Report]
  BY DEF Poll
<1>2. \A r \in Report : r.updated \in Nat /\ PromptOf(r) \in Nat
  BY DEF Report, PromptOf, StoreTypeOK
<1> QED BY <1>1, <1>2

LEMMA PolledFields ==
  ASSUME StoreInv, NEW poll \in Poll
  PROVE  /\ Polled(poll) \in [Session -> AgentSession]
         /\ \A s \in Session : Polled(poll)[s].prompt =
              IF s \in DOMAIN poll THEN Later(sessions[s].prompt, PromptOf(poll[s]))
              ELSE sessions[s].prompt
<1>1. ASSUME NEW s \in DOMAIN poll
      PROVE  LET r == [sessions[s] EXCEPT !.prompt = Later(@, PromptOf(poll[s])),
                                          !.updated = Later(@, poll[s].updated)]
             IN  /\ r \in AgentSession
                 /\ r.prompt = Later(sessions[s].prompt, PromptOf(poll[s]))
  <2>1. s \in Session /\ poll[s].updated \in Nat /\ PromptOf(poll[s]) \in Nat
    BY PollTypes DEF StoreInv
  <2> DEFINE p == PromptOf(poll[s])
             u == poll[s].updated
  <2>2. sessions[s] \in AgentSession /\ sessions[s].prompt \in Nat /\ sessions[s].updated \in Nat
    BY <2>1, FieldsOf
  <2>3. p \in Nat /\ u \in Nat
    BY <2>1
  <2> HIDE DEF p, u
  <2>4. Later(sessions[s].prompt, p) \in Nat /\ Later(sessions[s].updated, u) \in Nat
    BY <2>2, <2>3 DEF Later
  <2>5. LET r == [sessions[s] EXCEPT !.prompt = Later(@, p), !.updated = Later(@, u)]
        IN  r \in AgentSession /\ r.prompt = Later(sessions[s].prompt, p)
    BY <2>2, <2>4 DEF AgentSession
  <2> QED BY <2>5 DEF p, u
<1>2. \A s \in Session : sessions[s] \in AgentSession
  BY FieldsOf
<1>3. DOMAIN poll \subseteq Session
  BY PollTypes DEF StoreInv
<1> QED BY <1>1, <1>2, <1>3 DEF Polled

LEMMA LaterIs ==
  ASSUME NEW m \in Nat, NEW n \in Nat, m <= n
  PROVE  Later(m, n) = n
BY DEF Later

(* Where a poll leaves the focus, no prompt it reports is newer than the   *)
(* latest one noted, and a fresh focus is on the session of that one.      *)
LEMMA PollFocusTypes ==
  ASSUME StoreInv, NEW poll \in Poll, PollFocus(poll)
  PROVE  /\ focus' \in Session \cup {NoFocus} /\ focusSeq' \in Nat /\ latestPrompt' \in Nat
         /\ latestPrompt <= latestPrompt'
         /\ \A s \in DOMAIN poll : PromptOf(poll[s]) <= latestPrompt'
         /\ focusSeq' = focusSeq => UNCHANGED focusVars
         /\ fresh' \in BOOLEAN /\ (focus' = NoFocus => latestPrompt' = 0)
         /\ fresh' => focus' \in known' /\ (focus' \in Session
                         => Polled(poll)[focus'].prompt = latestPrompt')
<1> DEFINE S == Polled(poll)
<1>1. StoreTypeOK /\ latestPrompt \in Nat /\ focusSeq \in Nat /\ NoFocus \notin Session
  BY StoreAssumption DEF StoreInv, StoreTypeOK
<1>2. /\ DOMAIN poll \subseteq Session
      /\ \A s \in DOMAIN poll : PromptOf(poll[s]) \in Nat
  BY <1>1, PollTypes
<1>3. \A s \in Session : S[s].prompt =
        IF s \in DOMAIN poll THEN Later(sessions[s].prompt, PromptOf(poll[s]))
        ELSE sessions[s].prompt
  BY PolledFields
<1>4. \A s \in Session : sessions[s].prompt \in Nat /\ sessions[s].prompt <= latestPrompt
  BY FieldsOf
<1>5. /\ focus = NoFocus => latestPrompt = 0
      /\ fresh => focus \in known /\ sessions[focus].prompt = latestPrompt
  BY DEF StoreInv, FocusNoted
<1> HIDE DEF S
<1>6. ASSUME NEW s \in Newest(poll), PromptOf(poll[s]) > latestPrompt,
             FocusOn(s, PromptOf(poll[s]))
      PROVE  /\ focus' \in Session /\ focusSeq' \in Nat /\ latestPrompt' \in Nat
             /\ latestPrompt <= latestPrompt'
             /\ \A o \in DOMAIN poll : PromptOf(poll[o]) <= latestPrompt'
             /\ focusSeq' # focusSeq
             /\ fresh' \in BOOLEAN
             /\ fresh' => focus' \in known' /\ S[focus'].prompt = latestPrompt'
  <2>1. s \in DOMAIN poll /\ \A o \in DOMAIN poll : PromptOf(poll[o]) <= PromptOf(poll[s])
    BY DEF Newest
  <2>2. /\ focus' = s /\ focusSeq' = focusSeq + 1
        /\ latestPrompt' = Later(latestPrompt, PromptOf(poll[s]))
        /\ fresh' = (PromptOf(poll[s]) >= latestPrompt /\ s \in known')
    BY <1>6 DEF FocusOn, FocusGiven
  <2>3. latestPrompt' = PromptOf(poll[s])
    BY <1>1, <1>2, <1>6, <2>1, <2>2 DEF Later
  <2>4. S[s].prompt = PromptOf(poll[s])
    <3>1. S[s].prompt = Later(sessions[s].prompt, PromptOf(poll[s]))
      BY <1>2, <1>3, <2>1
    <3>2. sessions[s].prompt \in Nat /\ sessions[s].prompt <= latestPrompt
      BY <1>2, <1>4, <2>1
    <3>3. PromptOf(poll[s]) \in Nat /\ sessions[s].prompt <= PromptOf(poll[s])
      BY <1>1, <1>2, <1>6, <2>1, <3>2
    <3> QED BY <3>1, <3>2, <3>3, LaterIs
  <2>5. fresh' \in BOOLEAN /\ (fresh' => focus' \in known' /\ S[focus'].prompt = latestPrompt')
    BY <2>2, <2>3, <2>4
  <2>6. \A o \in DOMAIN poll : PromptOf(poll[o]) <= latestPrompt'
    BY <2>1, <2>3
  <2> QED BY <1>1, <1>2, <1>6, <2>1, <2>2, <2>3, <2>5, <2>6
<1>7. ASSUME \A s \in DOMAIN poll : PromptOf(poll[s]) <= latestPrompt, focus = NoFocus,
             NEW s \in DOMAIN poll, FocusOn(s, latestPrompt)
      PROVE  /\ focus' \in Session /\ focusSeq' \in Nat /\ latestPrompt' = latestPrompt
             /\ focusSeq' # focusSeq
             /\ fresh' \in BOOLEAN
             /\ fresh' => focus' \in known' /\ S[focus'].prompt = latestPrompt'
  <2>1. /\ focus' = s /\ focusSeq' = focusSeq + 1 /\ s \in Session
        /\ latestPrompt' = Later(latestPrompt, latestPrompt)
        /\ fresh' = (latestPrompt >= latestPrompt /\ s \in known')
    BY <1>2, <1>7 DEF FocusOn, FocusGiven
  <2>2. latestPrompt = 0
    BY <1>5, <1>7
  <2>3. S[s].prompt = 0
    <3>1. S[s].prompt = Later(sessions[s].prompt, PromptOf(poll[s]))
      BY <1>3, <1>7, <2>1
    <3>2. /\ sessions[s].prompt \in Nat /\ sessions[s].prompt = 0
          /\ PromptOf(poll[s]) \in Nat /\ PromptOf(poll[s]) = 0
      BY <1>2, <1>4, <1>7, <2>1, <2>2
    <3> QED BY <3>1, <3>2, LaterIs
  <2>4. latestPrompt' = latestPrompt
    BY <2>1 DEF Later
  <2>5. fresh' \in BOOLEAN /\ (fresh' => focus' \in known' /\ S[focus'].prompt = latestPrompt')
    BY <2>1, <2>2, <2>3, <2>4
  <2> QED BY <1>1, <2>1, <2>4, <2>5
<1>8. ASSUME \A s \in DOMAIN poll : PromptOf(poll[s]) <= latestPrompt, FocusStays
      PROVE  /\ focus' \in Session \cup {NoFocus} /\ focusSeq' \in Nat
             /\ latestPrompt' = latestPrompt /\ UNCHANGED focusVars
             /\ fresh' \in BOOLEAN /\ (focus' = NoFocus => latestPrompt' = 0)
             /\ fresh' => focus' \in known' /\ (focus' \in Session
                             => S[focus'].prompt = latestPrompt')
  <2>1. /\ focus' = focus /\ focusSeq' = focusSeq /\ latestPrompt' = latestPrompt
        /\ fresh' = (fresh /\ focus \in known')
    BY <1>8 DEF FocusStays, focusVars
  <2>2. ASSUME fresh, focus \in Session PROVE S[focus].prompt = latestPrompt
    BY <1>1, <1>2, <1>3, <1>5, <1>8, <2>2 DEF Later
  <2>3. UNCHANGED focusVars /\ focus \in Session \cup {NoFocus}
    BY <1>1, <1>8 DEF FocusStays, StoreTypeOK
  <2> QED BY <1>1, <1>5, <2>1, <2>2, <2>3
<1>9. \/ \E s \in Newest(poll) : PromptOf(poll[s]) > latestPrompt /\ FocusOn(s, PromptOf(poll[s]))
      \/ /\ \A s \in DOMAIN poll : PromptOf(poll[s]) <= latestPrompt
         /\ \/ focus = NoFocus /\ \E s \in DOMAIN poll : FocusOn(s, latestPrompt)
            \/ FocusStays
  BY DEF PollFocus
<1>10. CASE \E s \in Newest(poll) : PromptOf(poll[s]) > latestPrompt /\ FocusOn(s, PromptOf(poll[s]))
  BY <1>1, <1>6, <1>10 DEF S
<1>11. CASE /\ \A s \in DOMAIN poll : PromptOf(poll[s]) <= latestPrompt
            /\ focus = NoFocus /\ \E s \in DOMAIN poll : FocusOn(s, latestPrompt)
  BY <1>1, <1>7, <1>11 DEF S
<1>12. CASE (\A s \in DOMAIN poll : PromptOf(poll[s]) <= latestPrompt) /\ FocusStays
  BY <1>1, <1>8, <1>12 DEF S
<1> QED BY <1>9, <1>10, <1>11, <1>12

LEMMA UpdateThreadsInv ==
  ASSUME StoreInv, NEW poll \in Poll, NEW relabelled \in BOOLEAN, UpdateThreads(poll, relabelled)
  PROVE  StoreInv'
<1> DEFINE S == Polled(poll)
<1>1. PICK L \in Kept(known \cup DOMAIN poll, S) : TrimTo(L, S, turns)
  BY DEF UpdateThreads
<1>2. S \in [Session -> AgentSession]
      /\ \A s \in Session : S[s].prompt =
              IF s \in DOMAIN poll THEN Later(sessions[s].prompt, PromptOf(poll[s]))
              ELSE sessions[s].prompt
  BY PolledFields
<1>3. L \in SUBSET Session
  BY <1>1, KeptSubset, PollTypes DEF StoreInv, StoreTypeOK
<1>4. /\ known' \in SUBSET Session
      /\ sessions' \in [Session -> AgentSession]
      /\ turns' \in [Session -> Turn \cup {NoTurn}]
      /\ listed' \in [Deck -> SUBSET known']
  BY <1>1, <1>2, <1>3, TrimTypes DEF StoreInv, StoreTypeOK
<1>5. known' = L /\ \A s \in Session : sessions'[s] = IF s \in L THEN S[s] ELSE NewSession
  BY <1>1 DEF TrimTo
<1>6. /\ focus' \in Session \cup {NoFocus} /\ focusSeq' \in Nat /\ latestPrompt' \in Nat
      /\ latestPrompt <= latestPrompt'
      /\ \A s \in DOMAIN poll : PromptOf(poll[s]) <= latestPrompt'
      /\ focusSeq' = focusSeq => UNCHANGED focusVars
      /\ fresh' \in BOOLEAN /\ (focus' = NoFocus => latestPrompt' = 0)
      /\ fresh' => focus' \in known' /\ (focus' \in Session => S[focus'].prompt = latestPrompt')
  BY PollFocusTypes DEF UpdateThreads
<1>12. FocusNoted'
  <2> HIDE DEF S
  <2>1. ASSUME fresh' PROVE focus' \in known' /\ sessions'[focus'].prompt = latestPrompt'
    <3>1. focus' \in L /\ focus' \in Session /\ S[focus'].prompt = latestPrompt'
      BY <1>3, <1>5, <1>6, <2>1
    <3> QED BY <1>5, <3>1
  <2> QED BY <1>6, <2>1 DEF FocusNoted
<1>7. ASSUME NEW o \in Session PROVE sessions'[o].prompt <= latestPrompt'
  <2>1. sessions[o].prompt \in Nat /\ sessions[o].prompt <= latestPrompt /\ latestPrompt \in Nat
    BY FieldsOf
  <2>2. S[o].prompt <= latestPrompt'
    <3>1. CASE o \in DOMAIN poll
      <4>1. PromptOf(poll[o]) \in Nat /\ PromptOf(poll[o]) <= latestPrompt'
        BY <1>6, <3>1, PollTypes DEF StoreInv
      <4> QED BY <1>2, <1>6, <2>1, <3>1, <4>1 DEF Later
    <3>2. CASE o \notin DOMAIN poll
      BY <1>2, <1>6, <2>1, <3>2
    <3> QED BY <3>1, <3>2
  <2> HIDE DEF S
  <2> QED BY <1>5, <1>6, <2>2, NewSessionType
<1>8. EventFrame /\ scheduled' = (scheduled \/ (relabelled \/ PollChanges(poll)))
  BY DEF UpdateThreads, Notify
<1>9. \A d \in Deck : listed'[d] \subseteq listed[d]
  BY <1>1 DEF TrimTo
<1>10. CASE relabelled \/ PollChanges(poll)
  <2>1. scheduled' = TRUE
    BY <1>8, <1>10
  <2> HIDE DEF S
  <2> QED BY <1>4, <1>6, <1>7, <1>8, <1>12, <2>1, EventInv
<1>11. CASE ~(relabelled \/ PollChanges(poll))
  <2>1. S = sessions /\ focusSeq' = focusSeq
    BY <1>11 DEF PollChanges
  <2>2. scheduled' = scheduled
    BY <1>8, <1>11 DEF StoreInv, StoreTypeOK
  <2>3. \A o \in known' : \A c : As(sessions'[o], c) = As(sessions[o], c)
    BY <1>3, <1>5, <2>1
  <2>4. UNCHANGED focusVars /\ scheduled' \in BOOLEAN
    BY <1>6, <2>1, <2>2 DEF StoreInv, StoreTypeOK
  <2> HIDE DEF S
  <2> QED BY <1>4, <1>6, <1>7, <1>8, <1>9, <1>12, <2>2, <2>3, <2>4, EventInv
<1> QED BY <1>10, <1>11

LEMMA OutcomeTypes ==
  ASSUME NEW event \in DOMAIN HookOutcome
  PROVE  HookOutcome[event] \in Appearance
<1>1. event \in {"sessionstart", "userpromptsubmit", "permissionrequest", "question",
                 "pretooluse", "posttooluse", "stop", "error"}
  BY DEF HookOutcome
<1>2. HookOutcome["sessionstart"] \in Appearance
  BY DEF HookOutcome, Appearance, Status, SessionPhase
<1>3. HookOutcome["userpromptsubmit"] \in Appearance
  BY DEF HookOutcome, Appearance, Status, SessionPhase
<1>4. HookOutcome["permissionrequest"] \in Appearance
  BY DEF HookOutcome, Appearance, Status, SessionPhase
<1>5. HookOutcome["question"] \in Appearance
  BY DEF HookOutcome, Appearance, Status, SessionPhase
<1>6. HookOutcome["pretooluse"] \in Appearance
  BY DEF HookOutcome, Appearance, Status, SessionPhase
<1>7. HookOutcome["posttooluse"] \in Appearance
  BY DEF HookOutcome, Appearance, Status, SessionPhase
<1>8. HookOutcome["stop"] \in Appearance
  BY DEF HookOutcome, Appearance, Status, SessionPhase
<1>9. HookOutcome["error"] \in Appearance
  BY DEF HookOutcome, Appearance, Status, SessionPhase
<1> QED BY <1>1, <1>2, <1>3, <1>4, <1>5, <1>6, <1>7, <1>8, <1>9

LEMMA HookEventInv ==
  ASSUME StoreInv, NEW event \in DOMAIN HookOutcome, NEW s \in Session, NEW at \in 1 .. clock,
         HookEvent(event, s, at)
  PROVE  StoreInv'
<1> DEFINE o == HookOutcome[event]
           p == HookPrompt(sessions[s], event, at)
           r == [status |-> o.status, phase |-> o.phase, unread |-> o.unread, updated |-> at,
                 prompt |-> p]
<1>1. at \in Nat /\ turns[s] \in Turn \cup {NoTurn} /\ latestPrompt \in Nat
  BY DEF StoreInv, StoreTypeOK
<1>2. sessions[s].prompt \in Nat /\ sessions[s].prompt <= latestPrompt
  BY FieldsOf
<1>3. p \in Nat
  BY <1>1, <1>2 DEF HookPrompt, Later
<1>4. r \in AgentSession
  BY <1>1, <1>3, OutcomeTypes DEF AgentSession, Appearance
<1>5. Put(s, r, turns[s]) /\ EventFrame /\ scheduled' = TRUE
  BY DEF HookEvent, Notify
<1>6. CASE event = "userpromptsubmit"
  <2>1. FocusOn(s, at)
    BY <1>6 DEF HookEvent
  <2>2. /\ focus' \in Session /\ focusSeq' \in Nat /\ latestPrompt' \in Nat
        /\ latestPrompt <= latestPrompt' /\ at <= latestPrompt'
    BY <1>1, <2>1, FocusOnTypes DEF StoreInv
  <2>3. p <= latestPrompt'
    BY <1>1, <1>2, <1>6, <2>2 DEF HookPrompt, Later
  <2>4. r.prompt = p /\ p = Later(sessions[s].prompt, at)
    BY <1>6 DEF HookPrompt
  <2> HIDE DEF r, p
  <2>5. FocusNoted' /\ fresh' \in BOOLEAN
    BY <1>1, <1>4, <1>5, <2>1, <2>4, FocusOnNoted
  <2> QED BY <1>1, <1>4, <1>5, <2>2, <2>3, <2>4, <2>5, PutInv
<1>7. CASE event # "userpromptsubmit"
  <2>1. /\ focus' \in Session \cup {NoFocus} /\ focusSeq' = focusSeq
        /\ latestPrompt' = latestPrompt
    BY <1>7 DEF HookEvent, FocusStays, focusVars, StoreInv, StoreTypeOK
  <2>2. p <= latestPrompt'
    BY <1>1, <1>2, <1>7, <2>1 DEF HookPrompt
  <2>3. r.prompt = p /\ focusSeq' \in Nat /\ latestPrompt' \in Nat /\ latestPrompt <= latestPrompt'
    BY <1>1, <2>1 DEF StoreInv, StoreTypeOK
  <2>4. r.prompt = sessions[s].prompt
    BY <1>7 DEF HookPrompt
  <2> HIDE DEF r, p
  <2>5. FocusNoted' /\ fresh' \in BOOLEAN
    <3>1. CASE event = "sessionstart" /\ focus = NoFocus
      <4>1. focus' = s /\ fresh' = fresh
        BY <3>1 DEF HookEvent
      <4>2. s # NoFocus /\ ~fresh
        BY <3>1, StoreAssumption DEF StoreInv, StoreTypeOK, FocusNoted
      <4> QED BY <4>1, <4>2 DEF FocusNoted, StoreInv, StoreTypeOK
    <3>2. CASE ~(event = "sessionstart" /\ focus = NoFocus)
      <4>1. FocusStays
        BY <1>7, <3>2 DEF HookEvent
      <4> QED BY <1>1, <1>4, <1>5, <2>4, <4>1, FocusStaysNoted
    <3> QED BY <3>1, <3>2
  <2> QED BY <1>1, <1>4, <1>5, <2>1, <2>2, <2>3, <2>5, PutInv
<1> QED BY <1>6, <1>7

-----------------------------------------------------------------------------
(* What a deck is sent shows its sessions as they are.                     *)
LEMMA SelectionsKnown ==
  ASSUME NEW n, NEW L \in Selections(n)
  PROVE  L \subseteq known
<1>1. PICK R \in Recent(n) :
        L \in IF focus \in known \ R
              THEN {(R \ {s}) \cup {focus} :
                     s \in {s \in R : \A o \in R : Recency(sessions[s]) <= Recency(sessions[o])}}
              ELSE {R}
  BY DEF Selections
<1>2. R \subseteq known
  BY DEF Recent
<1> QED BY <1>1, <1>2

LEMMA AsTypes ==
  ASSUME NEW r \in AgentSession, NEW c
  PROVE  As(r, c) \in Appearance
BY DEF As, AgentSession, Appearance, Status, SessionPhase

LEMMA SendInv ==
  ASSUME StoreInv, StoreFrame, NEW d \in Deck, NEW C \in [Session -> Nat \cup {-1}],
         NEW n, Send(d, C, n),
         cursors' \in [Deck -> [Session -> Nat \cup {-1}]], cursors'[d] = C,
         \A e \in Deck \ {d} : cursors'[e] = cursors[e],
         linked' \in SUBSET Deck, due' \in SUBSET linked',
         linked' \ due' \subseteq (linked \ due) \cup {d},
         scheduled' = scheduled
  PROVE  StoreInv'
<1>1. PICK L \in Selections(n) :
        /\ listed' = [listed EXCEPT ![d] = L]
        /\ shown' = [shown EXCEPT ![d] = [s \in Session |-> IF s \in L THEN As(sessions[s], C[s])
                                                            ELSE NeverSeen]]
        /\ shownFocus' = [shownFocus EXCEPT ![d] = <<focus, focusSeq>>]
  BY DEF Send
<1>2. L \subseteq known
  BY SelectionsKnown
<1>3. StoreTypeOK
  BY DEF StoreInv
<1>4. \A s \in Session : As(sessions[s], C[s]) \in Appearance
  BY <1>3, AsTypes DEF StoreTypeOK
<1>5. NeverSeen \in Appearance
  BY DEF NeverSeen, Appearance, Status, SessionPhase
<1>6. shown' \in [Deck -> [Session -> Appearance]]
  BY <1>1, <1>3, <1>4, <1>5 DEF StoreTypeOK
<1>7. listed' \in [Deck -> SUBSET known'] /\ shownFocus' \in [Deck -> (Session \cup {NoFocus}) \X Nat]
  BY <1>1, <1>2, <1>3 DEF StoreTypeOK, StoreFrame, focusVars
<1>8. StoreTypeOK'
  BY <1>3, <1>6, <1>7 DEF StoreTypeOK, StoreFrame, focusVars
<1>9. PromptsNoted' /\ FocusNoted'
  BY DEF StoreInv, PromptsNoted, FocusNoted, StoreFrame, focusVars
<1>10. ASSUME ~scheduled', d \in linked' \ due'
       PROVE  /\ shownFocus'[d] = <<focus', focusSeq'>>
              /\ \A s \in listed'[d] : shown'[d][s] = As(sessions'[s], cursors'[d][s])
  <2>1. /\ listed'[d] = L /\ shownFocus'[d] = <<focus, focusSeq>>
        /\ \A s \in L : shown'[d][s] = As(sessions[s], C[s])
    BY <1>1, <1>2, <1>3 DEF StoreTypeOK
  <2> QED BY <2>1 DEF StoreFrame, focusVars
<1>11. ASSUME ~scheduled', NEW e \in linked' \ due', e # d
       PROVE  /\ shownFocus'[e] = <<focus', focusSeq'>>
              /\ \A s \in listed'[e] : shown'[e][s] = As(sessions'[s], cursors'[e][s])
  <2>1. e \in linked \ due /\ e \in Deck /\ ~scheduled
    BY <1>3, <1>11 DEF StoreTypeOK
  <2>2. listed'[e] = listed[e] /\ shown'[e] = shown[e] /\ shownFocus'[e] = shownFocus[e]
    BY <1>1, <1>3, <1>11, <2>1 DEF StoreTypeOK
  <2> QED BY <1>11, <2>1, <2>2 DEF StoreInv, DecksUpToDate, StoreFrame, focusVars
<1> QED BY <1>8, <1>9, <1>10, <1>11 DEF StoreInv, DecksUpToDate

(* Nothing is sent, and only decks that need not be told leave due.        *)
LEMMA QuietDeckStep ==
  ASSUME StoreInv, StoreFrame, UNCHANGED <<cursors, listed, shown, shownFocus>>,
         linked' \in SUBSET linked, due' \in SUBSET linked',
         scheduled' \in BOOLEAN,
         ~scheduled' => \/ ~scheduled /\ (linked' \ due') \subseteq (linked \ due)
                        \/ linked' \subseteq due'
  PROVE  StoreInv'
<1>1. StoreTypeOK'
  BY DEF StoreInv, StoreTypeOK, StoreFrame, focusVars
<1>2. PromptsNoted' /\ FocusNoted'
  BY DEF StoreInv, PromptsNoted, FocusNoted, StoreFrame, focusVars
<1>3. DecksUpToDate'
  BY DEF StoreInv, DecksUpToDate, StoreFrame, focusVars
<1> QED BY <1>1, <1>2, <1>3 DEF StoreInv

LEMMA AcknowledgedType ==
  ASSUME NEW c \in [Session -> Nat \cup {-1}], NEW s \in Session, NEW m \in Nat,
         NEW a \in Acknowledged(c, s, m)
  PROVE  a \in [Session -> Nat \cup {-1}]
BY DEF Acknowledged

LEMMA DeckStepInv ==
  ASSUME StoreInv, NEW d \in Deck,
         \/ Link(d) \/ Unlink(d) \/ Reach(d) \/ ListRequest(d)
         \/ \E s \in Session : Acknowledge(d, s)
  PROVE  StoreInv'
<1>1. /\ linked \in SUBSET Deck /\ due \in SUBSET linked /\ scheduled \in BOOLEAN
      /\ cursors \in [Deck -> [Session -> Nat \cup {-1}]]
      /\ \A s \in Session : sessions[s].updated \in Nat
  BY DEF StoreInv, StoreTypeOK, AgentSession
<1>2. CASE Link(d)
  <2>1. [s \in Session |-> -1] \in [Session -> Nat \cup {-1}]
    OBVIOUS
  <2>2. /\ cursors' = [cursors EXCEPT ![d] = [s \in Session |-> -1]]
        /\ linked' = linked \cup {d} /\ due' = due \ {d}
        /\ Send(d, cursors'[d], AgentLimit) /\ scheduled' = scheduled /\ StoreFrame
    BY <1>2 DEF Link
  <2>3. /\ cursors' \in [Deck -> [Session -> Nat \cup {-1}]]
        /\ cursors'[d] \in [Session -> Nat \cup {-1}]
        /\ \A e \in Deck \ {d} : cursors'[e] = cursors[e]
    BY <1>1, <2>1, <2>2
  <2> QED BY <1>1, <2>2, <2>3, SendInv
<1>3. CASE Unlink(d)
  BY <1>1, <1>3, QuietDeckStep DEF Unlink
<1>4. CASE Reach(d) \/ ListRequest(d)
  <2>1. /\ cursors' = cursors /\ linked' = linked
        /\ due' \in SUBSET linked' /\ linked' \ due' \subseteq (linked \ due) \cup {d}
        /\ scheduled' = scheduled /\ StoreFrame
    BY <1>1, <1>4 DEF Reach, ListRequest
  <2>3. PICK n : Send(d, cursors[d], n)
    BY <1>4 DEF Reach, ListRequest
  <2>2. cursors[d] \in [Session -> Nat \cup {-1}]
    BY <1>1
  <2> QED BY <1>1, <2>1, <2>2, <2>3, SendInv
<1>5. ASSUME NEW s \in Session, Acknowledge(d, s) PROVE StoreInv'
  <2>1. PICK c \in Acknowledged(cursors[d], s, sessions[s].updated) :
          cursors' = [cursors EXCEPT ![d] = c]
    BY <1>5 DEF Acknowledge
  <2>2. c \in [Session -> Nat \cup {-1}]
    BY <1>1, AcknowledgedType
  <2>3. /\ cursors' \in [Deck -> [Session -> Nat \cup {-1}]]
        /\ cursors'[d] = c
        /\ \A e \in Deck \ {d} : cursors'[e] = cursors[e]
    BY <1>1, <2>1, <2>2
  <2>4. /\ linked' = linked /\ due' = due /\ scheduled' = scheduled /\ StoreFrame
        /\ Send(d, c, AgentLimit)
    BY <1>5, <2>3 DEF Acknowledge
  <2> QED BY <1>1, <2>2, <2>3, <2>4, SendInv
<1> QED BY <1>2, <1>3, <1>4, <1>5

LEMMA StoreNextInv == StoreInv /\ [StoreNext]_storeVars => StoreInv'
<1> SUFFICES ASSUME StoreInv, [StoreNext]_storeVars PROVE StoreInv'
  OBVIOUS
<1>1. CASE Tick
  BY <1>1 DEF Tick, StoreInv, StoreTypeOK, PromptsNoted, FocusNoted, DecksUpToDate,
              focusVars, deckVars
<1>2. ASSUME NEW s \in Session, AppEvent(s) PROVE StoreInv'
  BY <1>2, TurnStartedInv, MentionInv, TurnCompletedInv, PublicActivityInv DEF AppEvent
<1>3. ASSUME NEW poll \in Poll, NEW relabelled \in BOOLEAN, UpdateThreads(poll, relabelled)
      PROVE  StoreInv'
  BY <1>3, UpdateThreadsInv
<1>4. ASSUME NEW event \in DOMAIN HookOutcome, NEW s \in Session, NEW at \in 1 .. clock,
             HookEvent(event, s, at)
      PROVE  StoreInv'
  BY <1>4, HookEventInv
<1>5. ASSUME NEW d \in Deck,
             \/ Link(d) \/ Unlink(d) \/ Reach(d) \/ ListRequest(d)
             \/ \E s \in Session : Acknowledge(d, s)
      PROVE  StoreInv'
  BY <1>5, DeckStepInv
<1>6. CASE Broadcast
  <2>1. due \in SUBSET linked
    BY DEF StoreInv, StoreTypeOK
  <2> QED BY <1>6, <2>1, QuietDeckStep DEF Broadcast
<1>7. CASE UNCHANGED storeVars
  BY <1>7 DEF storeVars, StoreInv, StoreTypeOK, PromptsNoted, FocusNoted, DecksUpToDate,
              focusVars, deckVars
<1> QED BY <1>1, <1>2, <1>3, <1>4, <1>5, <1>6, <1>7 DEF StoreNext

LEMMA StoreInvAlways == StoreSpec => []StoreInv
BY StoreInitInv, StoreNextInv, PTL DEF StoreSpec

(* The session store and what the decks are shown of it are of their types.*)
THEOREM StoreTypeCorrect == StoreSpec => []StoreTypeOK
BY StoreInvAlways, PTL DEF StoreInv

(* A deck that no broadcast is still to reach shows the sessions it lists  *)
(* as they are, for any numbers of sessions and decks and any limits.      *)
THEOREM DecksStayUpToDate == StoreSpec => []DecksUpToDate
BY StoreInvAlways, PTL DEF StoreInv

-----------------------------------------------------------------------------
(* Where the focus is fresh, no known session has a later prompt.          *)
THEOREM FocusStaysLatest == StoreSpec => []FocusOnLatestPrompt
<1>1. StoreInv => FocusOnLatestPrompt
  BY DEF StoreInv, StoreTypeOK, PromptsNoted, FocusNoted, FocusOnLatestPrompt
<1> QED BY <1>1, StoreInvAlways, PTL

-----------------------------------------------------------------------------
(* What a step does to the prompts: none goes back but by eviction.        *)
PromptsKept == \A s \in known \cap known' : sessions[s].prompt <= sessions'[s].prompt

LEMMA PutPrompts ==
  ASSUME StoreTypeOK, NEW s \in Session, NEW r \in AgentSession,
         NEW t \in Turn \cup {NoTurn}, Put(s, r, t), sessions[s].prompt <= r.prompt
  PROVE  PromptsKept
<1>1. \A o \in known \cap known' : sessions'[o] = IF o = s THEN r ELSE sessions[o]
  BY PutFields DEF StoreTypeOK
<1>2. \A o \in known : sessions[o].prompt \in Nat
  BY DEF StoreTypeOK, AgentSession
<1> QED BY <1>1, <1>2 DEF PromptsKept

LEMMA EventPrompts ==
  ASSUME StoreInv, NEW s \in Session, AppEvent(s)
  PROVE  PromptsKept
<1>1. /\ StoreTypeOK /\ sessions[s] \in AgentSession
      /\ sessions[s].prompt \in Nat /\ sessions[s].updated \in Nat
      /\ turns[s] \in Turn \cup {NoTurn} /\ clock \in Nat
  BY FieldsOf DEF StoreInv, StoreTypeOK
<1>2. ASSUME NEW t \in Turn \cup {NoTurn}, NEW at \in 1 .. clock, TurnStarted(s, t, at)
      PROVE  PromptsKept
  <2> DEFINE r == Started(sessions[s], at)
             u == IF t # NoTurn THEN t ELSE turns[s]
  <2>1. Put(s, r, u)
    BY <1>2 DEF TurnStarted
  <2>2. r.prompt = Later(sessions[s].prompt, at)
    BY DEF Started
  <2>3. /\ Later(sessions[s].prompt, at) \in Nat
        /\ sessions[s].prompt <= r.prompt
    BY <1>1, <2>2 DEF Later
  <2>4. u \in Turn \cup {NoTurn}
    BY <1>1
  <2>5. at \in Nat
    BY <1>1
  <2>6. r \in AgentSession
    BY <2>3, <2>5 DEF Started, AgentSession, Status, SessionPhase
  <2> HIDE DEF r, u
  <2> QED BY <1>1, <2>1, <2>2, <2>3, <2>4, <2>6, PutPrompts
<1>3. ASSUME NEW renamed \in BOOLEAN, Mention(s, renamed)
      PROVE  PromptsKept
  <2>1. sessions' = sessions
    BY <1>3 DEF Mention
  <2>2. \A o \in known : sessions[o].prompt \in Nat
    BY <1>1 DEF StoreTypeOK, AgentSession
  <2> QED BY <2>1, <2>2 DEF PromptsKept
<1>4. ASSUME NEW failed \in BOOLEAN, TurnCompleted(s, failed)
      PROVE  PromptsKept
  <2> DEFINE r == [sessions[s] EXCEPT !.status = IF failed THEN "blocked" ELSE "ready",
                                      !.phase = "", !.unread = TRUE, !.updated = clock]
  <2>1. Put(s, r, turns[s])
    BY <1>4 DEF TurnCompleted
  <2>2. r \in AgentSession /\ r.prompt = sessions[s].prompt
    BY <1>1 DEF AgentSession, Status, SessionPhase
  <2> HIDE DEF r
  <2> QED BY <1>1, <2>1, <2>2, PutPrompts
<1>5. ASSUME NEW ph \in {"thinking", "tool"}, NEW newText \in BOOLEAN,
             PublicActivity(s, ph, newText)
      PROVE  PromptsKept
  <2> DEFINE r == [sessions[s] EXCEPT !.status = "running", !.phase = ph, !.unread = FALSE,
                                      !.updated = Later(@, clock)]
  <2>1. Put(s, r, turns[s])
    BY <1>5 DEF PublicActivity
  <2>2. r \in AgentSession /\ r.prompt = sessions[s].prompt
    BY <1>1 DEF AgentSession, Status, SessionPhase, Later
  <2> HIDE DEF r
  <2> QED BY <1>1, <2>1, <2>2, PutPrompts
<1> QED BY <1>2, <1>3, <1>4, <1>5 DEF AppEvent

LEMMA HookPrompts ==
  ASSUME StoreInv, NEW event \in DOMAIN HookOutcome, NEW s \in Session, NEW at \in 1 .. clock,
         HookEvent(event, s, at)
  PROVE  PromptsKept
<1> DEFINE o == HookOutcome[event]
           p == HookPrompt(sessions[s], event, at)
           r == [status |-> o.status, phase |-> o.phase, unread |-> o.unread, updated |-> at,
                 prompt |-> p]
<1>1. StoreTypeOK /\ at \in Nat /\ turns[s] \in Turn \cup {NoTurn}
  BY DEF StoreInv, StoreTypeOK
<1>2. sessions[s].prompt \in Nat
  BY FieldsOf
<1>3. p \in Nat /\ sessions[s].prompt <= p
  BY <1>1, <1>2 DEF HookPrompt, Later
<1>4. r \in AgentSession /\ r.prompt = p
  BY <1>1, <1>3, OutcomeTypes DEF AgentSession, Appearance
<1>5. Put(s, r, turns[s])
  BY DEF HookEvent
<1> HIDE DEF r, p
<1> QED BY <1>1, <1>3, <1>4, <1>5, PutPrompts

LEMMA PollPrompts ==
  ASSUME StoreInv, NEW poll \in Poll, NEW relabelled \in BOOLEAN, UpdateThreads(poll, relabelled)
  PROVE  PromptsKept
<1> DEFINE S == Polled(poll)
<1>1. PICK L \in Kept(known \cup DOMAIN poll, S) : TrimTo(L, S, turns)
  BY DEF UpdateThreads
<1>2. \A s \in Session : S[s].prompt =
              IF s \in DOMAIN poll THEN Later(sessions[s].prompt, PromptOf(poll[s]))
              ELSE sessions[s].prompt
  BY PolledFields
<1>3. known' = L /\ \A s \in Session : s \in L => sessions'[s] = S[s]
  BY <1>1 DEF TrimTo
<1>4. DOMAIN poll \subseteq Session /\ \A s \in DOMAIN poll : PromptOf(poll[s]) \in Nat
  BY PollTypes DEF StoreInv
<1> HIDE DEF S
<1> SUFFICES ASSUME NEW s \in known \cap known'
             PROVE  sessions[s].prompt <= sessions'[s].prompt
  BY DEF PromptsKept
<1>5. s \in Session /\ sessions[s].prompt \in Nat
  BY FieldsOf DEF StoreInv, StoreTypeOK
<1> QED BY <1>2, <1>3, <1>4, <1>5 DEF Later

LEMMA StorePrompts == StoreInv /\ [StoreNext]_storeVars => PromptsKept
<1> SUFFICES ASSUME StoreInv, [StoreNext]_storeVars PROVE PromptsKept
  OBVIOUS
<1>1. ASSUME UNCHANGED sessions PROVE PromptsKept
  BY <1>1, FieldsOf DEF PromptsKept, StoreInv, StoreTypeOK, AgentSession
<1>2. CASE Tick \/ Broadcast \/ UNCHANGED storeVars
  BY <1>1, <1>2 DEF Tick, Broadcast, StoreFrame, storeVars
<1>3. ASSUME NEW d \in Deck,
             \/ Link(d) \/ Unlink(d) \/ Reach(d) \/ ListRequest(d)
             \/ \E s \in Session : Acknowledge(d, s)
      PROVE  PromptsKept
  BY <1>1, <1>3 DEF Link, Unlink, Reach, ListRequest, Acknowledge, StoreFrame
<1> QED BY <1>2, <1>3, EventPrompts, HookPrompts, PollPrompts DEF StoreNext

(* Background updates do not reorder the sessions with a known prompt.     *)
THEOREM HistoryInOrder == StoreSpec => HistoryKeepsOrder
<1> DEFINE A == \A s, t \in known \cap known' :
                  sessions[s].prompt # 0 /\ sessions[t].prompt # 0 /\ Overtakes(t, s)
                    => PromptNews(t)
<1>1. StoreInv /\ [StoreNext]_storeVars => A
  <2> SUFFICES ASSUME StoreInv, [StoreNext]_storeVars,
                      NEW s \in known \cap known', NEW t \in known \cap known',
                      sessions[s].prompt # 0, sessions[t].prompt # 0, Overtakes(t, s)
               PROVE  PromptNews(t)
    OBVIOUS
  <2>1. PromptsKept
    BY StorePrompts
  <2>2. s \in Session /\ t \in Session
    BY DEF StoreInv, StoreTypeOK
  <2>3. /\ sessions[s].prompt \in Nat /\ sessions[t].prompt \in Nat
        /\ sessions'[s].prompt \in Nat /\ sessions'[t].prompt \in Nat
    BY <2>2, StoreNextInv, FieldsOf DEF StoreInv, StoreTypeOK, AgentSession
  <2>4. /\ sessions[s].prompt <= sessions'[s].prompt
        /\ sessions[t].prompt <= sessions'[t].prompt
    BY <2>1 DEF PromptsKept
  <2>5. /\ Recency(sessions[s]) = sessions[s].prompt /\ Recency(sessions[t]) = sessions[t].prompt
        /\ Recency(sessions'[s]) = sessions'[s].prompt
        /\ Recency(sessions'[t]) = sessions'[t].prompt
    BY <2>3, <2>4 DEF Recency
  <2>6. /\ Recency(sessions[s]) > Recency(sessions[t])
        /\ Recency(sessions'[s]) < Recency(sessions'[t])
    BY DEF Overtakes
  <2> QED BY <2>3, <2>4, <2>5, <2>6 DEF PromptNews
<1>2. StoreInv /\ [StoreNext]_storeVars => [A]_storeVars
  BY <1>1
<1> QED BY <1>2, StoreInvAlways, PTL DEF StoreSpec, HistoryKeepsOrder
=============================================================================
