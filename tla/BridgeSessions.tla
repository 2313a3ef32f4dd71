--------------------------- MODULE BridgeSessions ---------------------------
(***************************************************************************)
(* The Agent's device sessions: the TCP task of every connection           *)
(* (handle_client), the registry with its same-ID replacement, unpairing,  *)
(* shutdown and restart, and the two things sessions share: the Mac's      *)
(* keyboard (KeyOwnership) and the microphone lease (AudioLease).          *)
(*                                                                         *)
(* The Agent is one event loop: what runs between two awaits is one step,  *)
(* and tasks interleave at the awaits.  The await that matters in the      *)
(* handshake is the hello_ok or paired reply: the connection is            *)
(* authenticated but not yet in the registry.                              *)
(***************************************************************************)
EXTENDS KeyOwnership, AudioLease

CONSTANT KeyCapable  \* devices that negotiated control.keys.v1

ASSUME SessionAssumption == KeyCapable \subseteq Device

VARIABLES phase,    \* where the task of a connection is in handle_client
          link,     \* "down" once the peer is gone or the writer is closed
          paired,   \* the device ids in BridgeConfig.data["devices"]
          saved,    \* those in the configuration file
          service   \* how far stop() has come

sessionVars == <<registry, device_id, phase, link, paired, saved, service>>
vars == <<sessionVars, leaseVars, keyVars>>

(* idle: no connection; handshake: awaiting hello or pair; replying:       *)
(* authenticated_token is set and the reply is being sent; loop: a         *)
(* registered session, until its task has run its finally block.           *)
Phase == {"idle", "handshake", "replying", "loop"}

(* stopping: stop() has begun; closed: it has closed the listening socket; *)
(* stopped: it has cleared the sessions.                                   *)
Service == {"ready", "stopping", "closed", "stopped"}

SessionTypeOK ==
  /\ LeaseTypeOK
  /\ phase \in [Conn -> Phase]
  /\ link \in [Conn -> {"up", "down"}]
  /\ paired \in SUBSET Device
  /\ saved \in SUBSET Device
  /\ service \in Service

TypeOK == SessionTypeOK /\ KeyTypeOK

(* No device is paired at first; PairAccepted adds them.                   *)
Init ==
  /\ LeaseInit
  /\ KeyInit
  /\ phase = [c \in Conn |-> "idle"]
  /\ link = [c \in Conn |-> "down"]
  /\ paired = {}
  /\ saved = {}
  /\ service = "ready"

(* _session_is_current.  The replaced flag adds nothing: it is set in the  *)
(* step that gives the device's registry entry to another session.         *)
Current(c) == device_id[c] # None /\ registry[device_id[c]] = c

Closed(C) == [c \in Conn |-> IF c \in C THEN "down" ELSE link[c]]

-----------------------------------------------------------------------------
(* The handshake.                                                          *)

Connect(c) ==
  /\ phase[c] = "idle"
  /\ service \in {"ready", "stopping"}
  /\ phase' = [phase EXCEPT ![c] = "handshake"]
  /\ link' = [link EXCEPT ![c] = "up"]
  /\ UNCHANGED <<registry, device_id, paired, saved, service, leaseVars, keyVars>>

(* A hello with the device's current token.  One with another token is     *)
(* answered auth_error and changes nothing.  Its metadata, if new, is      *)
(* written with the rest of the configuration; a failure is only logged.   *)
HelloPaired(c, d) ==
  /\ phase[c] = "handshake"
  /\ d \in paired
  /\ phase' = [phase EXCEPT ![c] = "replying"]
  /\ device_id' = [device_id EXCEPT ![c] = d]
  /\ saved' \in {saved, paired}
  /\ UNCHANGED <<registry, link, paired, service, leaseVars, keyVars>>

(* The pairing code typed right: the device is in the configuration before *)
(* the paired reply is sent.                                               *)
PairAccepted(c, d) ==
  /\ phase[c] = "handshake"
  /\ phase' = [phase EXCEPT ![c] = "replying"]
  /\ device_id' = [device_id EXCEPT ![c] = d]
  /\ paired' = paired \cup {d}
  /\ saved' = paired'
  /\ UNCHANGED <<registry, link, service, leaseVars, keyVars>>

(* The same, but the configuration file cannot be written: the exception   *)
(* ends the connection, and the device is paired until the next restart.   *)
PairUnsaved(c, d) ==
  /\ phase[c] = "handshake"
  /\ phase' = [phase EXCEPT ![c] = "idle"]
  /\ link' = [link EXCEPT ![c] = "down"]
  /\ paired' = paired \cup {d}
  /\ UNCHANGED <<registry, device_id, saved, service, leaseVars, keyVars>>

(* The sessions that registering c replaces.                               *)
Replaced(c) == {registry[device_id[c]]} \ {None}

(* The reply is sent: the session is registered, and the session it        *)
(* replaces is cleaned up and closed, in one step.                         *)
Register(c) ==
  LET registered == [registry EXCEPT ![device_id[c]] = c]
  IN  /\ phase[c] = "replying"
      /\ phase' = [phase EXCEPT ![c] = "loop"]
      /\ registry' = registered
      /\ last_audio' = [last_audio EXCEPT ![c] = "never"]
      /\ ReleaseSessionKeys(Replaced(c))
      /\ link' = Closed(Replaced(c))
      /\ IF Replaced(c) = {}
         THEN UNCHANGED <<audio_lease_owner_id, jitter>>
         ELSE LET old == registry[device_id[c]] IN
              /\ audio_lease_owner_id' = OwnerAfterCleanup(old)
              /\ jitter' = BuffersAfterCleanup(old, registered)
      /\ UNCHANGED <<device_id, paired, saved, service, output>>

-----------------------------------------------------------------------------
(* Messages of an authenticated session.  The loop checks that the session *)
(* is current after every read, so a line buffered on a replaced or        *)
(* unpaired connection is dropped.                                         *)

(* MUTANT: the check after the read is dropped.                            *)
ListensAlways(c) == phase[c] = "loop"

Listens(c) == phase[c] = "loop" /\ Current(c)

KeyMessage(c) ==
  /\ Listens(c)
  /\ device_id[c] \in KeyCapable
  /\ \E k \in Key : \/ \E m \in Modifiers : KeyDown(c, k, m)
                    \/ KeyUp(c, k)
  /\ UNCHANGED <<sessionVars, leaseVars>>

LeaseMessage(c) ==
  /\ Listens(c)
  /\ AudioClaim(c) \/ AudioRelease(c)
  /\ UNCHANGED <<sessionVars, keyVars>>

(* UDP audio: receive_audio looks for the session in the registry.         *)
Datagram(c) ==
  /\ Current(c)
  /\ service # "stopped"
  /\ ReceiveAudio(c)
  /\ UNCHANGED <<sessionVars, keyVars>>

-----------------------------------------------------------------------------
(* The end of a connection.                                                *)

(* The peer is gone, with or without a FIN.                                *)
DropLink(c) ==
  /\ phase[c] # "idle"
  /\ link[c] = "up"
  /\ link' = [link EXCEPT ![c] = "down"]
  /\ UNCHANGED <<registry, device_id, phase, paired, saved, service, leaseVars, keyVars>>

(* registry.remove(session): only the session's own entry.                 *)
(* MUTANT: the entry stays.                                                *)
StillThere(c) == registry

Without(c) ==
  [d \in Device |-> IF registry[d] = c THEN None ELSE registry[d]]

(* The sessions whose keys the finally block of c releases.                *)
(* MUTANT: none.                                                           *)
NotCleaned(c) == {}

Cleaned(c) == {c}

(* The finally block of a task whose read or send failed, timed out, was   *)
(* rejected, or that was told to return or cancelled.  A session is        *)
(* cleaned up and removed even if it was replaced long ago.  The output is *)
(* left with a buffer that nobody can feed any more: None.                 *)
Finish(c) ==
  /\ phase[c] # "idle"
  /\ phase' = [phase EXCEPT ![c] = "idle"]
  /\ link' = [link EXCEPT ![c] = "down"]
  /\ device_id' = [device_id EXCEPT ![c] = None]
  /\ IF phase[c] = "loop"
     THEN /\ ReleaseSessionKeys(Cleaned(c))
          /\ audio_lease_owner_id' = OwnerAfterCleanup(c)
          /\ jitter' = BuffersAfterCleanup(c, registry)
          /\ registry' = Without(c)
          /\ output' = IF output = c THEN None ELSE output
          /\ last_audio' = [last_audio EXCEPT ![c] = "never"]
     ELSE UNCHANGED <<registry, leaseVars, keyVars>>
  /\ UNCHANGED <<paired, saved, service>>

-----------------------------------------------------------------------------
(* The unpair command: the device leaves the configuration and its         *)
(* session, if it has one, is cleaned up, removed and closed.              *)
Unpair(d) ==
  LET c == registry[d]
  IN  /\ d \in paired
      /\ paired' = paired \ {d}
      /\ saved' = paired'
      /\ IF c = None
         THEN UNCHANGED <<registry, link, leaseVars, keyVars>>
         ELSE /\ ReleaseSessionKeys({c})
              /\ audio_lease_owner_id' = OwnerAfterCleanup(c)
              /\ jitter' = BuffersAfterCleanup(c, registry)
              /\ registry' = Without(c)
              /\ link' = Closed({c})
              /\ UNCHANGED <<output, last_audio>>
      /\ UNCHANGED <<device_id, phase, service>>

(* BridgeConfig.unpair raises after it has deleted the entry (the file     *)
(* cannot be written): the command ends there.                             *)
UnpairFails(d) ==
  /\ d \in paired
  /\ paired' = paired \ {d}
  /\ UNCHANGED <<registry, device_id, phase, link, saved, service, leaseVars, keyVars>>

-----------------------------------------------------------------------------
(* stop(): the periodic task is cancelled, the TCP server closed, and then *)
(* every registered session cleaned up at once.                            *)

StopBegins ==
  /\ service = "ready"
  /\ service' = "stopping"
  /\ UNCHANGED <<registry, device_id, phase, link, paired, saved, leaseVars, keyVars>>

StopListening ==
  /\ service = "stopping"
  /\ service' = "closed"
  /\ UNCHANGED <<registry, device_id, phase, link, paired, saved, leaseVars, keyVars>>

Online == {registry[d] : d \in Device} \ {None}

(* Every session's keys are released before the maps are cleared.          *)
(* MUTANT: the maps are cleared, and the key-ups never injected.           *)
ForgetKeys ==
  /\ held_keys' = [c \in Conn |-> [k \in Key |-> {}]]
  /\ held_key_owners' = [k \in Key |-> [c \in Conn |-> {}]]
  /\ injected_key_modifiers' = [k \in Key |-> {}]
  /\ UNCHANGED macos

StopKeys == ReleaseSessionKeys(Online)

StopSessions ==
  /\ service = "closed"
  /\ service' = "stopped"
  /\ registry' = [d \in Device |-> None]
  /\ StopKeys
  /\ audio_lease_owner_id' = None
  /\ jitter' = Emptied(Online \cup {output})
  /\ link' = Closed(Online)
  /\ UNCHANGED <<device_id, phase, paired, saved, output, last_audio>>

(* The process has ended, every task with it; the App starts it again and  *)
(* it reads the configuration file.                                        *)
Restart ==
  /\ service = "stopped"
  /\ \A c \in Conn : phase[c] = "idle"
  /\ service' = "ready"
  /\ paired' = saved
  /\ UNCHANGED <<registry, device_id, phase, link, saved, leaseVars, keyVars>>

(* The two-second tick of the periodic task; the audio thread and time.    *)
ExpiryTick ==
  /\ service = "ready"
  /\ ExpireAudioLease
  /\ UNCHANGED <<sessionVars, keyVars>>

Elsewhere ==
  /\ Play \/ \E c \in Conn : FallSilent(c)
  /\ UNCHANGED <<sessionVars, keyVars>>

-----------------------------------------------------------------------------
DeviceStep(c) ==
  \/ Connect(c)
  \/ \E d \in Device : HelloPaired(c, d) \/ PairAccepted(c, d) \/ PairUnsaved(c, d)
  \/ KeyMessage(c) \/ LeaseMessage(c) \/ Datagram(c)
  \/ DropLink(c)

AppStep == \/ \E d \in Device : Unpair(d) \/ UnpairFails(d)
           \/ StopBegins \/ Restart

AgentStep == \/ \E c \in Conn : Register(c) \/ Finish(c)
             \/ StopListening \/ StopSessions
             \/ ExpiryTick \/ Elsewhere

Next == (\E c \in Conn : DeviceStep(c)) \/ AppStep \/ AgentStep

(* A task whose link is down, or whose process is stopping, comes to its   *)
(* end: reads and sends have timeouts, and asyncio.run cancels what is     *)
(* left.  stop() runs on, and the periodic tick comes round again.         *)
MustFinish(c) == (link[c] = "down" \/ service = "stopped") /\ Finish(c)

Fairness == /\ \A c \in Conn : WF_vars(MustFinish(c))
            /\ WF_vars(StopListening) /\ WF_vars(StopSessions)
            /\ WF_vars(ExpiryTick)

Spec == Init /\ [][Next]_vars /\ Fairness

-----------------------------------------------------------------------------
(* Every registry entry is the live session of that device: it is in its   *)
(* loop and its task will run the finally block that takes the entry out.  *)
(* An entry that outlived its task would keep the device online for ever.  *)
RegistryLive ==
  \A d \in Device : registry[d] # None =>
    phase[registry[d]] = "loop" /\ device_id[registry[d]] = d

(* Only a current session holds keys.  A key held by a replaced, unpaired  *)
(* or vanished session has nobody left to release it ("a newly             *)
(* authenticated session atomically replaces the previous one, releases    *)
(* its keys", ARCHITECTURE.md).                                            *)
KeysHeldByCurrent ==
  \A c \in Conn, k \in Key : held_keys[c][k] # {} => phase[c] = "loop" /\ Current(c)

(* The Agent's keyboard is the one KeyOwnership specifies, whatever the    *)
(* sessions do: replacement, unpairing and shutdown only release.          *)
ImplementsKeyOwnership == KeySpec

(* The lease names a device that is online; if not, receive_audio, which   *)
(* compares ids without looking them up, would turn everyone away.         *)
LeaseOwnerOnline ==
  audio_lease_owner_id # None => registry[audio_lease_owner_id] # None

(* The output reads the buffer of the session that has the lease, and none *)
(* of its audio was received while that session was not the owner          *)
(* ("Non-owners are authenticated and counted but their samples never      *)
(* enter the HAL feed", PROTOCOL.md).                                      *)
OutputPlaysOwner ==
  /\ audio_lease_owner_id # None => output = AudioOwner
  /\ output # None => "other" \notin jitter[output]

(* Without an owner there is nothing to play: the stream is reset with the *)
(* lease ("releases the lease and resets the output boundary before        *)
(* another session can take it", PROTOCOL.md).                             *)
SilentWithoutOwner ==
  audio_lease_owner_id = None /\ output # None => jitter[output] = {}

(* The lease never passes from one device straight to another ("it never   *)
(* silently preempts the owner", PROTOCOL.md).                             *)
NeverPreempted ==
  [][audio_lease_owner_id # None /\ audio_lease_owner_id' # None
       => audio_lease_owner_id' = audio_lease_owner_id]_vars

(* Losing its link costs a session its keys, however the loss races with   *)
(* replacement, unpairing and key messages still in the buffer.            *)
DroppedLinkLetsGo ==
  \A c \in Conn : link[c] = "down" ~> \A k \in Key : held_keys[c][k] = {}

(* Stopping the Agent lifts every key, also one pressed by a connection    *)
(* that finished its handshake after the sessions were cleared.            *)
StopLetsGo ==
  service = "stopping" ~> \A k \in Key : ~macos[k].down

(* An owner that has sent audio and stopped loses the lease, or is heard   *)
(* again, or the Agent stops.                                              *)
SilentOwnerExpires ==
  \A c \in Conn :
    (AudioOwner = c /\ last_audio[c] = "silent")
      ~> (AudioOwner # c \/ last_audio[c] # "silent" \/ service # "ready")

-----------------------------------------------------------------------------
(* What the documentation says and the code does not do.                   *)

(* A session loses the lease by its own doing, by expiry, or with its      *)
(* place in the registry: "release the old lease without touching the new  *)
(* session" (_cleanup_session).                                            *)
LeaseEndsWithItsSession ==
  [][\A c \in Conn :
       AudioOwner = c /\ AudioOwner' # c
         => AudioRelease(c) \/ ExpireAudioLease \/ registry'[device_id[c]] # c]_vars

(* "Disconnect, unpair, and replacement clean only the affected session"   *)
(* (ARCHITECTURE.md), seen from a connection caught in its handshake: a    *)
(* device that has been unpaired does not come online.                     *)
OnlyPairedRegister ==
  [][\A d \in Device :
       registry'[d] \notin {None, registry[d]} => d \in paired]_vars
=============================================================================
