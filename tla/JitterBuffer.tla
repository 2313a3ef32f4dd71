---------------------------- MODULE JitterBuffer ----------------------------
(***************************************************************************)
(* The jitter buffer of one device session, fed by UDP on the event loop   *)
(* and drained by the output's thread, each call under the buffer's lock.  *)
(* Samples are abstracted to the sequence number of their frame, and what  *)
(* read_samples keeps of a frame between calls is left out.  The sender    *)
(* numbers its frames modulo SeqMod from its boot on, so a session may     *)
(* begin anywhere; frames may be lost, come late or twice, also from an    *)
(* earlier session; the sender may pause, or be faster or slower than      *)
(* playback.                                                               *)
(***************************************************************************)
EXTENDS Integers, FiniteSets

CONSTANTS TargetFrames,      \* buffered before playback starts
          MaxFrames,         \* the most the buffer keeps
          StarvationFrames,  \* missing in a row before it starts over
          SeqMod,            \* sequence numbers are 0 .. SeqMod - 1 (2^32)
          Delay,             \* how late a packet may come, in frames
          None

ASSUME JitterAssumption ==
  /\ TargetFrames \in Nat \ {0}
  /\ MaxFrames \in Nat /\ MaxFrames >= TargetFrames + 2
  /\ StarvationFrames \in Nat /\ StarvationFrames >= 2 * TargetFrames
  /\ SeqMod \in Nat /\ SeqMod > MaxFrames
  /\ Delay \in Nat
  /\ None \notin Int

VARIABLES packets,  \* the sequence numbers in _packets
          next,     \* _next_sequence
          started,  \* _started
          missing,  \* _missing_frames
          counter,  \* the sequence number the sender uses next
          steady,   \* frames fed in order since the last one was played
          unheard   \* silent frames in a row although the sender was steady

bufferVars == <<packets, next, started, missing>>
streamVars == <<bufferVars, counter, steady, unheard>>

Sequence == 0 .. SeqMod - 1
Patience == StarvationFrames + TargetFrames - 1

TypeOK ==
  /\ packets \in SUBSET Sequence
  /\ next \in Sequence \cup {None}
  /\ started \in BOOLEAN
  /\ missing \in 0 .. StarvationFrames - 1
  /\ counter \in Sequence
  /\ steady \in {"none", "one", "not"}
  /\ unheard \in 0 .. Patience + 1

BufferInit ==
  /\ packets = {} /\ next = None /\ started = FALSE /\ missing = 0
  /\ counter \in Sequence /\ steady = "none" /\ unheard = 0

-----------------------------------------------------------------------------
(* Starting over: an empty buffer that waits for TargetFrames again.       *)
StartOver(P) ==
  /\ packets' = P
  /\ next' = None
  /\ started' = FALSE
  /\ missing' = 0

(* The first of the packets, which _packets keeps in order.                *)
First(P) == {s \in P : \A r \in P : s <= r}

(* Adding a packet; the oldest goes when there are too many.               *)
DropOldest(P) == IF Cardinality(P) > MaxFrames THEN P \ First(P) ELSE P

(* A packet behind the playback position: a little late, or so far behind  *)
(* that the stream must have started over.                                 *)
Late(s) == next # None /\ s < next /\ next - s <= MaxFrames
Restarted(s) == next # None /\ s < next /\ next - s > MaxFrames

Feed(s) ==
  IF Late(s) THEN UNCHANGED bufferVars
  ELSE IF Restarted(s) THEN StartOver({s})
  ELSE /\ packets' = DropOldest(packets \cup {s})
       /\ UNCHANGED <<next, started, missing>>

-----------------------------------------------------------------------------
(* The next sequence number.                                               *)
Successor(s) == (s + 1) % SeqMod

(* _next_frame_locked.  Waiting for the target depth; or the frame at the  *)
(* playback position, which is the first packet when playback starts; or   *)
(* silence where it is missing, and starting over after too much of it.    *)
Waiting == ~started /\ Cardinality(packets) < TargetFrames
Position == IF started THEN {next} ELSE First(packets)

(* MUTANT: the buffer is emptied, the position kept.                       *)
KeepPosition == /\ packets' = {}
                /\ missing' = 0
                /\ UNCHANGED <<next, started>>

GiveUp == StartOver({})

Starved == missing + 1 >= StarvationFrames

PlayFrame(s) ==
  /\ s \in packets
  /\ packets' = packets \ {s}
  /\ next' = Successor(s)
  /\ started' = TRUE
  /\ missing' = 0

PlayMissing(s) ==
  /\ s \notin packets
  /\ IF Starved
     THEN GiveUp
     ELSE /\ next' = Successor(s)
          /\ started' = TRUE
          /\ missing' = missing + 1
          /\ UNCHANGED packets

-----------------------------------------------------------------------------
(* The sender and the network; the output's thread; and reset, at a lease  *)
(* boundary.  steady and unheard only observe.                             *)
Capture ==
  /\ Feed(counter)
  /\ counter' = Successor(counter)
  /\ steady' = IF steady = "none" THEN "one" ELSE "not"
  /\ UNCHANGED unheard

Lose ==
  /\ counter' = Successor(counter)
  /\ steady' = "not"
  /\ UNCHANGED <<bufferVars, unheard>>

ArriveLate ==
  /\ \E d \in 1 .. Delay : Feed((counter - d) % SeqMod)
  /\ steady' = "not"
  /\ UNCHANGED <<counter, unheard>>

Heard(frame) ==
  unheard' = IF frame \/ steady # "one" \/ unheard > Patience THEN 0 ELSE unheard + 1

Play ==
  /\ \/ Waiting /\ UNCHANGED bufferVars /\ Heard(FALSE)
     \/ /\ ~Waiting
        /\ \E s \in Position :
             \/ PlayFrame(s) /\ Heard(TRUE)
             \/ PlayMissing(s) /\ Heard(FALSE)
  /\ steady' = "none"
  /\ UNCHANGED counter

Reset ==
  /\ StartOver({})
  /\ steady' = "not"
  /\ UNCHANGED <<counter, unheard>>

BufferNext == Capture \/ Lose \/ ArriveLate \/ Play \/ Reset

BufferSpec == BufferInit /\ [][BufferNext]_streamVars

-----------------------------------------------------------------------------
(* Playback, once started, has a position (the assert in                   *)
(* _next_frame_locked), and no packet waits behind it: one that did would  *)
(* never be played, and at the next start would be played before its time. *)
NothingBehind ==
  /\ started <=> next # None
  /\ started => \A s \in packets : next <= s

(* However far playback has run past a sender that paused, and whatever    *)
(* the buffer still holds, a sender that is steady again is heard after at *)
(* most Patience frames: "Without a resync every resumed packet would be   *)
(* dropped as late forever" (audio.py).                                    *)
HeardAgain == unheard <= Patience

=============================================================================
