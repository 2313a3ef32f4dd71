----------------------------- MODULE AudioLease -----------------------------
(***************************************************************************)
(* The single microphone output of the Agent and the lease that decides    *)
(* whose audio reaches it: the lease operations of BridgeApp, the UDP      *)
(* receive path and the output callback.  This module has the state and    *)
(* the operations; BridgeSessions says when a session may call them.       *)
(*                                                                         *)
(* The lease names a device, not a session: audio_lease_owner_id is a      *)
(* device id that _audio_owner looks up in the registry.  The contents of  *)
(* a jitter buffer are abstracted to the standing of the session when the  *)
(* packets came in, which is all the lease rules tell apart; the time of   *)
(* the last packet to whether 3000 ms have passed since.                   *)
(***************************************************************************)
EXTENDS Connections

CONSTANTS Device,        \* device ids
          None,          \* Python's None
          LeaseCapable,  \* devices that negotiated audio.lease.v1
          AudioCapable   \* devices that negotiated audio.pcm16-16k.v1

ASSUME LeaseAssumption == /\ None \notin Conn \cup Device
                          /\ LeaseCapable \subseteq Device
                          /\ AudioCapable \subseteq Device

VARIABLES registry,              \* DeviceRegistry._by_id: the session of a device
          device_id,             \* DeviceSession.device_id
          audio_lease_owner_id,  \* the device holding the lease, or None
          output,                \* the session whose buffer audio.jitter is
          jitter,                \* DeviceSession.jitter: whose packets it holds
          last_audio             \* DeviceSession.last_audio_ms

leaseVars == <<audio_lease_owner_id, output, jitter, last_audio>>

Standing == {"owner", "other"}           \* at the time a packet was fed
LastAudio == {"never", "recent", "silent"}

LeaseTypeOK ==
  /\ registry \in [Device -> Conn \cup {None}]
  /\ device_id \in [Conn -> Device \cup {None}]
  /\ audio_lease_owner_id \in Device \cup {None}
  /\ output \in Conn \cup {None}
  /\ jitter \in [Conn -> SUBSET Standing]
  /\ last_audio \in [Conn -> LastAudio]

LeaseInit ==
  /\ registry = [d \in Device |-> None]
  /\ device_id = [c \in Conn |-> None]
  /\ audio_lease_owner_id = None
  /\ output = None
  /\ jitter = [c \in Conn |-> {}]
  /\ last_audio = [c \in Conn |-> "never"]

-----------------------------------------------------------------------------
(* _audio_owner: the session the lease's device has in the registry.       *)
AudioOwner ==
  IF audio_lease_owner_id = None THEN None ELSE registry[audio_lease_owner_id]

(* JitterBuffer.reset of the sessions C; reset_stream empties the buffer   *)
(* the output reads, whosever it is.                                       *)
Emptied(C) == [c \in Conn |-> IF c \in C THEN {} ELSE jitter[c]]

(* The buffers after _set_audio_lease(c): nothing changes for the owner;   *)
(* otherwise the previous owner's, c's and the output's are emptied.       *)
(* MUTANT: the new owner's buffer is not reset.                            *)
BuffersKept(c) ==
  IF AudioOwner = c THEN jitter ELSE Emptied({AudioOwner, output} \ {c})

BuffersForOwner(c) ==
  IF AudioOwner = c THEN jitter ELSE Emptied({AudioOwner, c, output})

(* audio_claim: granted when nobody, or the claimant, holds the lease; a   *)
(* busy answer changes nothing.                                            *)
(* MUTANT: a claim takes the lease from whoever holds it.                  *)
Grabs(c) == TRUE

MayClaim(c) == AudioOwner \in {None, c}

AudioClaim(c) ==
  /\ device_id[c] \in LeaseCapable
  /\ MayClaim(c)
  /\ audio_lease_owner_id' = device_id[c]
  /\ output' = IF AudioOwner = c THEN output ELSE c
  /\ jitter' = BuffersForOwner(c)
  /\ UNCHANGED last_audio

(* _release_audio_lease of the owner: its buffer and the output stream are *)
(* reset; the output goes on reading the same, now empty, buffer.          *)
ReleaseAudioLease ==
  /\ audio_lease_owner_id' = None
  /\ jitter' = Emptied({AudioOwner, output})
  /\ UNCHANGED <<output, last_audio>>

AudioRelease(c) ==
  /\ device_id[c] \in LeaseCapable
  /\ AudioOwner = c
  /\ ReleaseAudioLease

(* _expire_audio_lease, run every two seconds: an owner that has sent      *)
(* audio and then none for 3000 ms loses the lease.                        *)
(* MUTANT: the test for silence is inverted.                               *)
ExpiredEarly(c) == last_audio[c] = "recent"

Expired(c) == last_audio[c] = "silent"

ExpireAudioLease ==
  /\ AudioOwner # None
  /\ Expired(AudioOwner)
  /\ ReleaseAudioLease

(* 3000 ms pass since the last packet of c.                                *)
FallSilent(c) ==
  /\ last_audio[c] = "recent"
  /\ last_audio' = [last_audio EXCEPT ![c] = "silent"]
  /\ UNCHANGED <<audio_lease_owner_id, output, jitter>>

(* A datagram verified with the token of session c, which is registered.   *)
(* Without an owner it takes the lease; the owner's packets add to the     *)
(* buffer the output reads; anybody else's replace what they had buffered. *)
ReceiveAudio(c) ==
  /\ device_id[c] \in AudioCapable
  /\ last_audio' = [last_audio EXCEPT ![c] = "recent"]
  /\ \/ /\ audio_lease_owner_id = None
        /\ audio_lease_owner_id' = device_id[c]
        /\ output' = c
        /\ jitter' = [BuffersForOwner(c) EXCEPT ![c] = @ \cup {"owner"}]
     \/ /\ audio_lease_owner_id = device_id[c]
        /\ output' = c
        /\ jitter' = [jitter EXCEPT ![c] = @ \cup {"owner"}]
        /\ UNCHANGED audio_lease_owner_id
     \/ /\ audio_lease_owner_id \notin {None, device_id[c]}
        /\ jitter' = [jitter EXCEPT ![c] = {"other"}]
        /\ UNCHANGED <<audio_lease_owner_id, output>>

(* The output callback, on its own thread, plays some of what the output's *)
(* buffer holds.                                                           *)
Play ==
  /\ output # None
  /\ \E rest \in SUBSET jitter[output] :
       /\ rest # jitter[output]
       /\ jitter' = [jitter EXCEPT ![output] = rest]
  /\ UNCHANGED <<audio_lease_owner_id, output, last_audio>>

-----------------------------------------------------------------------------
(* The lease part of _cleanup_session(c), where reg is the registry at the *)
(* time: a replacement registers before the old session is cleaned up.     *)
OwnerAfterCleanup(c) ==
  IF audio_lease_owner_id = device_id[c] THEN None ELSE audio_lease_owner_id

BuffersAfterCleanup(c, reg) ==
  IF audio_lease_owner_id = device_id[c] /\ reg[device_id[c]] # None
  THEN Emptied({c, output})
  ELSE Emptied({c})

=============================================================================
