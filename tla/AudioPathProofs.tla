--------------------------- MODULE AudioPathProofs --------------------------
(* The two ends of the audio path, each by itself: AudioTx on the device,  *)
(* for any lengths and limits and any number of disturbances, and the      *)
(* JitterBuffer on the Mac, for any depths, any sequence space and any     *)
(* delay.  That the pipeline quiets down and recovers is model-checked.    *)
EXTENDS AudioTx, JitterBuffer, FiniteSetTheorems, TLAPS

(* From the moment the microphone is set up until the frame is in the      *)
(* queue, the capture task leaves the channel open.                        *)
OpenWhileReading == capture.pc \in {"read", "check", "put"} => rx

(* Only between a stop and the reset that follows it are there frames with *)
(* the channel closed.                                                     *)
FramesWhileOpen == queue > 0 => rx \/ capture.pc = "reset"

(* No frame of an earlier run is in the queue; the sender may have one in  *)
(* hand, or has sent it.                                                   *)
OneInHand ==
  /\ earlier.queued = 0
  /\ earlier.held => earlier.sent = 0
  /\ earlier.sent <= 1

(* While streaming is allowed nothing was sent after a stop, nor is        *)
(* anything when the sender has just looked.                               *)
CountedFromStop == StreamingAllowed \/ SenderAt("send") => after = 0

Inv == AudioTypeOK /\ OpenWhileReading /\ FramesWhileOpen /\ OneInHand
       /\ CountedFromStop /\ OneFrameAfterStop

LEMMA Limits ==
  /\ RingFrames \in Nat /\ RingFrames >= 1 /\ ReadFailures \in Nat /\ ReadFailures >= 1
  /\ InvalidFrames \in Nat /\ InvalidFrames >= 1 /\ SendFailures \in Nat /\ SendFailures >= 1
  /\ AckMinSent \in Nat /\ Disturbances \in Nat
<1>1. \A n \in {RingFrames, ReadFailures, InvalidFrames, SendFailures} : n \in Nat \ {0}
  BY AudioAssumption
<1>2. /\ RingFrames \in Nat \ {0} /\ ReadFailures \in Nat \ {0}
      /\ InvalidFrames \in Nat \ {0} /\ SendFailures \in Nat \ {0}
  BY <1>1
<1> QED BY <1>2, AudioAssumption

MainLoop ==
  \/ \E on \in BOOLEAN : SetActive(on) \/ SetMuted(on) \/ SetAudioReady(on) \/ Pong(on)
  \/ StatusAges \/ AckStalls \/ Upset

-----------------------------------------------------------------------------
LEMMA InitInv == Init => Inv
<1> SUFFICES ASSUME Init PROVE Inv
  OBVIOUS
<1> USE Limits DEF Init
<1>1. AudioTypeOK
  <2>1. capture \in [pc : {"top", "reset", "armed", "read", "check", "put"},
                     reads : 0 .. ReadFailures - 1, invalid : 0 .. InvalidFrames - 1]
    OBVIOUS
  <2>2. sender \in [pc : {"top", "wait", "got", "send", "ack"}, udp : BOOLEAN,
                    failures : 0 .. SendFailures - 1, ack : BOOLEAN, stalled : BOOLEAN,
                    since : 0 .. AckMinSent]
    OBVIOUS
  <2>3. status \in [fresh : BOOLEAN, moved : BOOLEAN, ready : BOOLEAN]
    BY DEF Unknown
  <2>4. queue \in 0 .. RingFrames /\ after \in Nat /\ budget \in 0 .. Disturbances
    OBVIOUS
  <2>5. earlier \in [queued : 0 .. RingFrames, held : BOOLEAN, sent : Nat]
    OBVIOUS
  <2> QED BY <2>1, <2>2, <2>3, <2>4, <2>5 DEF AudioTypeOK
<1>2. /\ OpenWhileReading /\ FramesWhileOpen /\ OneInHand /\ CountedFromStop
      /\ OneFrameAfterStop
  BY DEF OpenWhileReading, FramesWhileOpen, OneInHand, CountedFromStop, OneFrameAfterStop
<1> QED BY <1>1, <1>2 DEF Inv

(* The types, by who moves what.                                           *)
CaptureType == capture \in [pc : {"top", "reset", "armed", "read", "check", "put"},
                            reads : 0 .. ReadFailures - 1, invalid : 0 .. InvalidFrames - 1]
SenderType == sender \in [pc : {"top", "wait", "got", "send", "ack"}, udp : BOOLEAN,
                          failures : 0 .. SendFailures - 1, ack : BOOLEAN, stalled : BOOLEAN,
                          since : 0 .. AckMinSent]
StatusType == status \in [fresh : BOOLEAN, moved : BOOLEAN, ready : BOOLEAN]
FlagTypes == /\ active \in BOOLEAN /\ muted \in BOOLEAN /\ endpoint \in BOOLEAN
             /\ rx \in BOOLEAN /\ restart \in BOOLEAN /\ heard \in BOOLEAN
ModeTypes == /\ codec \in {"sound", "constant", "dead", "unstartable"}
             /\ net \in {"open", "deaf", "failing"}
CountTypes == queue \in 0 .. RingFrames /\ after \in Nat /\ budget \in 0 .. Disturbances
EarlierType == earlier \in [queued : 0 .. RingFrames, held : BOOLEAN, sent : Nat]

LEMMA TypesSplit == AudioTypeOK <=> /\ CaptureType /\ SenderType /\ StatusType
                                    /\ FlagTypes /\ ModeTypes /\ CountTypes /\ EarlierType
BY DEF AudioTypeOK, CaptureType, SenderType, StatusType, FlagTypes, ModeTypes, CountTypes,
       EarlierType

CaptureStates == {"top", "reset", "armed", "read", "check", "put"}
Reads == 0 .. ReadFailures - 1
Invalid == 0 .. InvalidFrames - 1

LEMMA CaptureFields ==
  ASSUME CaptureType
  PROVE  /\ capture \in [pc : CaptureStates, reads : Reads, invalid : Invalid]
         /\ 0 \in Reads /\ 0 \in Invalid
         /\ ~GivesUp(capture.reads, ReadFailures) => capture.reads + 1 \in Reads
         /\ ~GivesUp(capture.invalid, InvalidFrames) => capture.invalid + 1 \in Invalid
<1>1. capture \in [pc : CaptureStates, reads : Reads, invalid : Invalid]
  BY DEF CaptureType, CaptureStates, Reads, Invalid
<1>2. /\ 0 \in Reads /\ 0 \in Invalid
      /\ ~GivesUp(capture.reads, ReadFailures) => capture.reads + 1 \in Reads
      /\ ~GivesUp(capture.invalid, InvalidFrames) => capture.invalid + 1 \in Invalid
  BY <1>1, Limits DEF Reads, Invalid, GivesUp
<1> QED BY <1>1, <1>2

LEMMA CaptureTypeKept == CaptureType /\ [Next]_vars => CaptureType'
<1> SUFFICES ASSUME CaptureType, [Next]_vars PROVE CaptureType'
  OBVIOUS
<1>1. CASE UNCHANGED capture
  BY <1>1 DEF CaptureType
<1>2. CASE CaptureTask
  <2> SUFFICES capture' \in [pc : CaptureStates, reads : Reads, invalid : Invalid]
    BY DEF CaptureType, CaptureStates, Reads, Invalid
  <2> USE CaptureFields DEF CaptureStates, CaptureGoes
  <2>1. CASE CaptureTop \/ CaptureResets \/ CaptureRestarts \/ CaptureArms
    BY <2>1 DEF CaptureTop, CaptureResets, CaptureRestarts, CaptureArms
  <2>2. CASE CaptureReadFails
    BY <2>2 DEF CaptureReadFails
  <2>3. CASE CaptureReads
    BY <2>3 DEF CaptureReads
  <2>4. CASE CaptureChecks
    BY <2>4 DEF CaptureChecks
  <2>5. CASE CapturePuts
    BY <2>5 DEF CapturePuts
  <2> QED BY <1>2, <2>1, <2>2, <2>3, <2>4, <2>5 DEF CaptureTask
<1>3. CASE SenderTask \/ MainLoop \/ UNCHANGED vars
  <2>1. UNCHANGED capture
    BY <1>3 DEF SenderTask, SenderRests, SenderOpenFails, SenderOpens, SenderWaits,
                SenderRechecks, SendOk,
                SendFails, SenderWatches, MainLoop, SetActive, SetMuted, SetAudioReady, Pong,
                StatusAges, AckStalls, Upset, vars
  <2> QED BY <1>1, <2>1
<1> QED BY <1>2, <1>3 DEF Next, MainLoop

SenderStates == {"top", "wait", "got", "send", "ack"}
Failures == 0 .. SendFailures - 1
Since == 0 .. AckMinSent
SenderRecord == [pc : SenderStates, udp : BOOLEAN, failures : Failures, ack : BOOLEAN,
                 stalled : BOOLEAN, since : Since]

LEMMA SenderFields ==
  ASSUME SenderType
  PROVE  /\ sender \in SenderRecord /\ 0 \in Failures /\ 0 \in Since
         /\ ~GivesUp(sender.failures, SendFailures) => sender.failures + 1 \in Failures
         /\ sender.since < AckMinSent => sender.since + 1 \in Since
<1>1. sender \in SenderRecord
  BY DEF SenderType, SenderStates, Failures, Since, SenderRecord
<1>2. /\ 0 \in Failures /\ 0 \in Since
      /\ ~GivesUp(sender.failures, SendFailures) => sender.failures + 1 \in Failures
      /\ sender.since < AckMinSent => sender.since + 1 \in Since
  BY <1>1, Limits DEF Failures, Since, GivesUp, SenderRecord
<1> QED BY <1>1, <1>2

LEMMA SenderTypeKept == SenderType /\ [Next]_vars => SenderType'
<1> SUFFICES ASSUME SenderType, [Next]_vars PROVE SenderType'
  OBVIOUS
<1>1. CASE SenderTask \/ AckStalls
  <2> SUFFICES sender' \in SenderRecord
    BY DEF SenderType, SenderStates, Failures, Since, SenderRecord
  <2> USE SenderFields DEF SenderStates, SenderRecord
  <2>1. CASE SenderRests \/ SenderOpenFails \/ SenderOpens \/ SenderWaits \/ SenderRechecks
    BY <2>1 DEF SenderRests, SenderOpenFails, SenderOpens, SenderWaits, SenderRechecks
  <2>2. CASE SendOk
    BY <2>2 DEF SendOk
  <2>3. CASE SendFails
    BY <2>3 DEF SendFails
  <2>4. CASE SenderWatches
    BY <2>4 DEF SenderWatches, AckProgress
  <2>5. CASE AckStalls
    BY <2>5 DEF AckStalls
  <2> QED BY <1>1, <2>1, <2>2, <2>3, <2>4, <2>5 DEF SenderTask
<1>2. CASE CaptureTask \/ (MainLoop /\ ~AckStalls) \/ UNCHANGED vars
  <2>1. UNCHANGED sender
    BY <1>2 DEF CaptureTask, CaptureTop, CaptureResets, CaptureRestarts, CaptureArms,
                CaptureReadFails,
                CaptureReads, CaptureChecks, CapturePuts, MainLoop, SetActive, SetMuted,
                SetAudioReady, Pong, StatusAges, Upset, vars
  <2> QED BY <2>1 DEF SenderType
<1> QED BY <1>1, <1>2 DEF Next, MainLoop

LEMMA StatusTypeKept == StatusType /\ FlagTypes /\ [Next]_vars => StatusType'
<1> SUFFICES ASSUME StatusType, FlagTypes, [Next]_vars PROVE StatusType'
  OBVIOUS
<1>1. CASE UNCHANGED status
  BY <1>1 DEF StatusType
<1>2. ASSUME NEW on \in BOOLEAN, SetAudioReady(on) PROVE StatusType'
  BY <1>2 DEF StatusType, SetAudioReady, Unknown
<1>3. ASSUME NEW on \in BOOLEAN, Pong(on) PROVE StatusType'
  <2>1. (status.moved \/ heard) \in BOOLEAN
    OBVIOUS
  <2> QED BY <1>3, <2>1 DEF StatusType, Pong
<1>4. CASE StatusAges
  BY <1>4 DEF StatusType, StatusAges
<1>5. CASE SenderWatches
  BY <1>5 DEF StatusType, SenderWatches
<1>6. CASE CaptureTask
  <2>1. UNCHANGED status
    BY <1>6 DEF CaptureTask, CaptureTop, CaptureResets, CaptureRestarts, CaptureArms,
                CaptureReadFails,
                CaptureReads, CaptureChecks, CapturePuts, shared
  <2> QED BY <1>1, <2>1
<1>7. CASE SenderTask /\ ~SenderWatches
  <2>1. UNCHANGED status
    BY <1>7 DEF SenderTask, SenderRests, SenderOpenFails, SenderOpens, SenderWaits,
                SenderRechecks, SendOk,
                SendFails, shared
  <2> QED BY <1>1, <2>1
<1>8. CASE (\E on \in BOOLEAN : SetActive(on) \/ SetMuted(on)) \/ AckStalls \/ Upset
           \/ UNCHANGED vars
  <2>1. UNCHANGED status
    BY <1>8 DEF SetActive, SetMuted, AckStalls, Upset, shared, vars
  <2> QED BY <1>1, <2>1
<1> QED BY <1>2, <1>3, <1>4, <1>5, <1>6, <1>7, <1>8 DEF Next

LEMMA FlagTypesKept == FlagTypes /\ [Next]_vars => FlagTypes'
<1> SUFFICES ASSUME FlagTypes, [Next]_vars PROVE FlagTypes'
  OBVIOUS
<1>1. ASSUME NEW on \in BOOLEAN, SetActive(on) \/ SetMuted(on) PROVE FlagTypes'
  BY <1>1 DEF FlagTypes, SetActive, SetMuted, Stopped, QueueStays
<1>2. ASSUME NEW on \in BOOLEAN, SetAudioReady(on) \/ Pong(on) PROVE FlagTypes'
  BY <1>2 DEF FlagTypes, SetAudioReady, Pong
<1>3. CASE StatusAges \/ AckStalls \/ Upset \/ UNCHANGED vars
  BY <1>3 DEF FlagTypes, StatusAges, AckStalls, Upset, shared, vars
<1>4. CASE CaptureTask
  BY <1>4 DEF FlagTypes, CaptureTask, CaptureTop, CaptureResets, CaptureRestarts, CaptureArms,
              CaptureReadFails, CaptureReads, CaptureChecks, CapturePuts, MicStop, MicStart,
              MicStartFails, shared
<1>5. CASE SendOk
  <2>1. (heard \/ net = "open") \in BOOLEAN
    OBVIOUS
  <2>2. heard' = (heard \/ net = "open") /\ UNCHANGED <<active, muted, endpoint, rx, restart>>
    BY <1>5 DEF SendOk, shared
  <2> QED BY <2>1, <2>2, Zenon DEF FlagTypes
<1>6. CASE SenderTask /\ ~SendOk
  BY <1>6 DEF FlagTypes, SenderTask, SenderRests, SenderOpenFails, SenderOpens, SenderWaits,
              SenderRechecks,
              SendFails, SenderWatches, PipelineRestarts, shared
<1> QED BY <1>1, <1>2, <1>3, <1>4, <1>5, <1>6 DEF Next

LEMMA ModeTypesKept == ModeTypes /\ [Next]_vars => ModeTypes'
<1> SUFFICES ASSUME ModeTypes, [Next]_vars PROVE ModeTypes'
  OBVIOUS
<1> USE DEF ModeTypes, shared
<1>1. CASE MainLoop \/ UNCHANGED vars
  BY <1>1 DEF MainLoop, SetActive, SetMuted, SetAudioReady, Pong, StatusAges, AckStalls, Upset,
              vars
<1>2. CASE CaptureTask
  BY <1>2 DEF CaptureTask, CaptureTop, CaptureResets, CaptureRestarts, CaptureArms,
              CaptureReadFails,
              CaptureReads, CaptureChecks, CapturePuts, MicStart, MicStartFails
<1>3. CASE SenderTask
  BY <1>3 DEF SenderTask, SenderRests, SenderOpenFails, SenderOpens, SenderWaits,
              SenderRechecks, SendOk,
              SendFails, SenderWatches
<1> QED BY <1>1, <1>2, <1>3 DEF Next, MainLoop

LEMMA CountTypesKept == CountTypes /\ [Next]_vars => CountTypes'
<1> SUFFICES ASSUME CountTypes, [Next]_vars PROVE CountTypes'
  OBVIOUS
<1> USE Limits DEF CountTypes, shared
<1>1. CASE MainLoop \/ UNCHANGED vars
  BY <1>1 DEF MainLoop, SetActive, SetMuted, SetAudioReady, Pong, StatusAges, AckStalls, Upset,
              Stopped, QueueReset, QueueStays, Spend, vars
<1>2. CASE CaptureTask
  BY <1>2 DEF CaptureTask, CaptureTop, CaptureResets, CaptureRestarts, CaptureArms,
              CaptureReadFails,
              CaptureReads, CaptureChecks, CapturePuts, MicStop, QueueReset, QueueStays, Put
<1>3. CASE SenderTask
  BY <1>3 DEF SenderTask, SenderRests, SenderOpenFails, SenderOpens, SenderWaits,
              SenderRechecks, SendOk,
              SendFails, SenderWatches, PipelineRestarts, QueueStays, Spend
<1> QED BY <1>1, <1>2, <1>3 DEF Next, MainLoop

(* What becomes of the frames of earlier runs in one step.                 *)
LEMMA EarlierSteps ==
  ASSUME AudioTypeOK, [Next]_vars
  PROVE  \/ earlier' = earlier
         \/ earlier' = [earlier EXCEPT !.queued = 0]
         \/ earlier' = [earlier EXCEPT !.queued = OneLess(@)]
         \/ earlier' = [earlier EXCEPT !.queued = OneLess(@), !.held = earlier.queued > 0]
         \/ earlier' = LetsGo
         \/ earlier' = [LetsGo EXCEPT !.queued = 0]
         \/ earlier' = [LetsGo EXCEPT !.sent = IF earlier.held THEN @ + 1 ELSE @]
         \/ /\ CaptureAt("armed") /\ ~rx
            /\ earlier' = [queued |-> queue, held |-> sender.pc \in {"got", "send"}, sent |-> 0]
<1> USE DEF shared, QueueReset, QueueStays
<1>1. CASE MainLoop \/ UNCHANGED vars
  BY <1>1 DEF MainLoop, SetActive, SetMuted, SetAudioReady, Pong, StatusAges, AckStalls, Upset,
              Stopped, vars
<1>2. CASE CaptureTask
  BY <1>2 DEF CaptureTask, CaptureTop, CaptureResets, CaptureRestarts, CaptureArms,
              CaptureReadFails, CaptureReads, CaptureChecks, CapturePuts, MicStart, MicStartFails
<1>3. CASE SenderTask
  BY <1>3 DEF SenderTask, SenderRests, SenderOpenFails, SenderOpens, SenderWaits, SenderRechecks,
              SendOk, SendFails, SenderWatches, PipelineRestarts
<1> QED BY <1>1, <1>2, <1>3 DEF Next, MainLoop

EarlierRecord == [queued : 0 .. RingFrames, held : BOOLEAN, sent : Nat]

LEMMA EarlierTypeKept == AudioTypeOK /\ [Next]_vars => EarlierType'
<1> SUFFICES ASSUME AudioTypeOK, [Next]_vars PROVE earlier' \in EarlierRecord
  BY DEF EarlierType, EarlierRecord
<1>1. /\ earlier \in EarlierRecord /\ queue \in 0 .. RingFrames
      /\ 0 \in 0 .. RingFrames /\ OneLess(earlier.queued) \in 0 .. RingFrames
  BY Limits DEF AudioTypeOK, EarlierRecord, OneLess
<1>2. /\ (earlier.queued > 0) \in BOOLEAN /\ (sender.pc \in {"got", "send"}) \in BOOLEAN
  OBVIOUS
<1>3. LetsGo \in EarlierRecord /\ LetsGo.sent \in Nat /\ LetsGo.sent + 1 \in Nat
  <2>1. earlier \in EarlierRecord
    BY <1>1
  <2>2. LetsGo \in EarlierRecord
    BY <2>1 DEF LetsGo, EarlierRecord
  <2> QED BY <2>2 DEF EarlierRecord
<1>4. CASE \/ earlier' = earlier
           \/ earlier' = [earlier EXCEPT !.queued = 0]
           \/ earlier' = [earlier EXCEPT !.queued = OneLess(@)]
  BY <1>1, <1>4 DEF EarlierRecord
<1>5. CASE earlier' = [earlier EXCEPT !.queued = OneLess(@), !.held = earlier.queued > 0]
  BY <1>1, <1>2, <1>5 DEF EarlierRecord
<1>6. CASE earlier' = LetsGo \/ earlier' = [LetsGo EXCEPT !.queued = 0]
  BY <1>1, <1>3, <1>6 DEF EarlierRecord
<1>7. CASE earlier' = [LetsGo EXCEPT !.sent = IF earlier.held THEN @ + 1 ELSE @]
  <2>1. PICK n \in Nat : n = IF earlier.held THEN LetsGo.sent + 1 ELSE LetsGo.sent
    BY <1>3
  <2>2. earlier' = [LetsGo EXCEPT !.sent = n]
    BY <1>7, <2>1
  <2> QED BY <1>3, <2>2 DEF EarlierRecord
<1>8. CASE earlier' = [queued |-> queue, held |-> sender.pc \in {"got", "send"}, sent |-> 0]
  BY <1>1, <1>2, <1>8 DEF EarlierRecord
<1> QED BY <1>4, <1>5, <1>6, <1>7, <1>8, EarlierSteps

LEMMA TypesKept == AudioTypeOK /\ [Next]_vars => AudioTypeOK'
<1> SUFFICES ASSUME AudioTypeOK, [Next]_vars PROVE AudioTypeOK'
  OBVIOUS
<1>1. /\ CaptureType' /\ SenderType' /\ StatusType' /\ FlagTypes' /\ ModeTypes' /\ CountTypes'
      /\ EarlierType'
  BY TypesSplit, CaptureTypeKept, SenderTypeKept, StatusTypeKept, FlagTypesKept, ModeTypesKept,
     CountTypesKept, EarlierTypeKept
<1> QED BY <1>1, TypesSplit, PTL

-----------------------------------------------------------------------------
(* Only the capture task puts frames, with the channel open, and once it   *)
(* has closed the channel it does nothing else before it has emptied the   *)
(* queue.                                                                  *)
LEMMA QueueKept ==
  AudioTypeOK /\ FramesWhileOpen /\ OpenWhileReading /\ [Next]_vars
    => FramesWhileOpen' /\ OpenWhileReading'
<1> SUFFICES ASSUME AudioTypeOK, FramesWhileOpen, OpenWhileReading, [Next]_vars
             PROVE  FramesWhileOpen' /\ OpenWhileReading'
  OBVIOUS
<1> USE DEF AudioTypeOK, FramesWhileOpen, OpenWhileReading, shared, QueueReset, QueueStays
<1>1. CASE MainLoop \/ UNCHANGED vars
  BY <1>1 DEF MainLoop, SetActive, SetMuted, SetAudioReady, Pong, StatusAges, AckStalls, Upset,
              Stopped, vars
<1>2. CASE CaptureTask
  <2> USE DEF MicStop, CaptureAt, CaptureGoes
  <2>1. CASE CaptureTop
    BY <2>1 DEF CaptureTop
  <2>2. CASE CaptureResets
    BY <2>2 DEF CaptureResets
  <2>3. CASE CaptureRestarts
    BY <2>3 DEF CaptureRestarts
  <2>4. CASE CaptureArms
    BY <2>4 DEF CaptureArms, MicStart, MicStartFails
  <2>5. CASE CaptureReadFails
    <3>1. \/ capture'.pc = "reset" /\ rx' = FALSE
          \/ capture'.pc = "top" /\ rx' = rx
      BY <2>5, TypesSplit, CaptureFields DEF CaptureReadFails
    <3>2. rx
      BY <2>5 DEF CaptureReadFails
    <3>3. FramesWhileOpen' /\ OpenWhileReading'
      BY ONLY <3>1, <3>2 DEF FramesWhileOpen, OpenWhileReading
    <3> QED BY <3>3
  <2>6. CASE CaptureReads
    BY <2>6 DEF CaptureReads
  <2>7. CASE CaptureChecks
    <3>1. \/ capture'.pc = "reset" /\ rx' = FALSE
          \/ capture'.pc \in {"top", "put"} /\ rx' = rx
      BY <2>7, TypesSplit, CaptureFields DEF CaptureChecks
    <3>2. rx
      BY <2>7 DEF CaptureChecks
    <3>3. FramesWhileOpen' /\ OpenWhileReading'
      BY ONLY <3>1, <3>2 DEF FramesWhileOpen, OpenWhileReading
    <3> QED BY <3>3
  <2>8. CASE CapturePuts
    BY <2>8 DEF CapturePuts
  <2> QED BY <1>2, <2>1, <2>2, <2>3, <2>4, <2>5, <2>6, <2>7, <2>8 DEF CaptureTask
<1>3. CASE SenderTask
  BY <1>3, Limits DEF SenderTask, SenderRests, SenderOpenFails, SenderOpens, SenderWaits,
              SenderRechecks, SendOk, SendFails, SenderWatches, PipelineRestarts
<1> QED BY <1>1, <1>2, <1>3 DEF Next, MainLoop

(* When the microphone is started the queue is empty, so what is old is at *)
(* most the frame in the sender's hand.                                    *)
LEMMA HandKept ==
  AudioTypeOK /\ FramesWhileOpen /\ OneInHand /\ [Next]_vars => OneInHand'
<1> SUFFICES ASSUME AudioTypeOK, FramesWhileOpen, OneInHand, [Next]_vars PROVE OneInHand'
  OBVIOUS
<1>1. /\ earlier \in EarlierRecord /\ earlier.queued = 0 /\ earlier.sent \in Nat
      /\ earlier.held \in BOOLEAN /\ OneLess(earlier.queued) = 0
  BY DEF AudioTypeOK, EarlierRecord, OneInHand, OneLess
<1>2. CaptureAt("armed") /\ ~rx => queue = 0
  BY DEF CaptureAt, FramesWhileOpen, AudioTypeOK
<1>3. /\ earlier.held => earlier.sent = 0
      /\ earlier.sent <= 1
  BY DEF OneInHand
<1>4. /\ LetsGo.queued = 0 /\ LetsGo.held = FALSE /\ LetsGo.sent = earlier.sent
      /\ LetsGo \in EarlierRecord
  <2>1. earlier \in EarlierRecord
    BY <1>1
  <2>2. /\ LetsGo \in EarlierRecord /\ LetsGo.held = FALSE
        /\ LetsGo.queued = earlier.queued /\ LetsGo.sent = earlier.sent
    BY <2>1 DEF LetsGo, EarlierRecord
  <2> QED BY <1>1, <2>2
<1>5. CASE \/ earlier' = earlier
           \/ earlier' = [earlier EXCEPT !.queued = 0]
           \/ earlier' = [earlier EXCEPT !.queued = OneLess(@)]
  <2>1. earlier' = earlier
    BY <1>1, <1>5 DEF EarlierRecord
  <2> QED BY <1>1, <1>3, <2>1 DEF OneInHand
<1>6. CASE earlier' = [earlier EXCEPT !.queued = OneLess(@), !.held = earlier.queued > 0]
  <2>1. OneLess(earlier.queued) = 0 /\ (earlier.queued > 0) = FALSE /\ earlier \in EarlierRecord
    BY <1>1
  <2>2. earlier' = [earlier EXCEPT !.queued = 0, !.held = FALSE]
    BY <1>6, <2>1
  <2>3. earlier'.queued = 0 /\ earlier'.sent = earlier.sent /\ earlier'.held = FALSE
    BY <2>1, <2>2 DEF EarlierRecord
  <2> QED BY <1>3, <2>3 DEF OneInHand
<1>7. CASE earlier' = LetsGo \/ earlier' = [LetsGo EXCEPT !.queued = 0]
  <2>1. earlier'.queued = 0 /\ earlier'.sent = earlier.sent /\ earlier'.held = FALSE
    BY <1>4, <1>7 DEF EarlierRecord
  <2> QED BY <1>3, <2>1 DEF OneInHand
<1>8. CASE earlier' = [LetsGo EXCEPT !.sent = IF earlier.held THEN @ + 1 ELSE @]
  <2>1. CASE earlier.held
    <3>1. earlier' = [LetsGo EXCEPT !.sent = LetsGo.sent + 1]
      BY <1>8, <2>1
    <3>2. earlier'.queued = 0 /\ earlier'.sent = 1 /\ earlier'.held = FALSE
      BY <1>3, <1>4, <2>1, <3>1 DEF EarlierRecord
    <3> QED BY <3>2 DEF OneInHand
  <2>2. CASE ~earlier.held
    <3>1. earlier' = [LetsGo EXCEPT !.sent = LetsGo.sent]
      BY <1>8, <2>2
    <3>2. earlier'.queued = 0 /\ earlier'.sent = earlier.sent /\ earlier'.held = FALSE
      BY <1>4, <3>1 DEF EarlierRecord
    <3> QED BY <1>3, <3>2 DEF OneInHand
  <2> QED BY <2>1, <2>2
<1>9. CASE /\ CaptureAt("armed") /\ ~rx
           /\ earlier' = [queued |-> queue, held |-> sender.pc \in {"got", "send"}, sent |-> 0]
  <2>1. earlier'.queued = 0 /\ earlier'.sent = 0
    BY <1>2, <1>9
  <2> QED BY <2>1 DEF OneInHand
<1> QED BY <1>5, <1>6, <1>7, <1>8, <1>9, EarlierSteps

(* The sender looks once more before it sends, so it has one frame in hand *)
(* at most when streaming ends.                                            *)
LEMMA StopKept ==
  AudioTypeOK /\ CountedFromStop /\ OneFrameAfterStop /\ [Next]_vars
    => CountedFromStop' /\ OneFrameAfterStop'
<1> SUFFICES ASSUME AudioTypeOK, CountedFromStop, OneFrameAfterStop, [Next]_vars
             PROVE  CountedFromStop' /\ OneFrameAfterStop'
  OBVIOUS
<1> USE DEF AudioTypeOK, CountedFromStop, OneFrameAfterStop, StreamingAllowed, SenderAt, shared
<1>1. CASE MainLoop \/ UNCHANGED vars
  BY <1>1 DEF MainLoop, SetActive, SetMuted, SetAudioReady, Pong, StatusAges, AckStalls, Upset,
              vars
<1>2. CASE CaptureTask
  BY <1>2 DEF CaptureTask, CaptureTop, CaptureResets, CaptureRestarts, CaptureArms,
              CaptureReadFails,
              CaptureReads, CaptureChecks, CapturePuts
<1>3. CASE SenderTask
  <2>1. CASE SenderRests \/ SenderOpenFails \/ SenderOpens \/ SenderWaits \/ SenderRechecks
    <3>1. sender'.pc # "send" \/ StreamingAllowed
      BY <2>1, TypesSplit, SenderFields
      DEF SenderRests, SenderOpenFails, SenderOpens, SenderWaits, SenderRechecks,
          SenderMaySend, SenderRecord
    <3>2. UNCHANGED <<active, muted, endpoint, after>>
      BY <2>1 DEF SenderRests, SenderOpenFails, SenderOpens, SenderWaits, SenderRechecks
    <3> QED BY <3>1, <3>2
  <2>2. CASE SendOk
    BY <2>2 DEF SendOk
  <2>3. CASE SendFails
    BY <2>3 DEF SendFails
  <2>4. CASE SenderWatches
    <3>1. sender'.pc = "top"
      BY <2>4, TypesSplit, SenderFields DEF SenderWatches, AckProgress, SenderRecord
    <3>2. UNCHANGED <<active, muted, endpoint, after>>
      BY <2>4 DEF SenderWatches
    <3>3. sender.pc = "ack"
      BY <2>4 DEF SenderWatches
    <3> QED BY <3>1, <3>2, <3>3
  <2> QED BY <1>3, <2>1, <2>2, <2>3, <2>4 DEF SenderTask
<1> QED BY <1>1, <1>2, <1>3 DEF Next, MainLoop

LEMMA InvAlways == Spec => []Inv
<1>1. Inv /\ [Next]_vars => Inv'
  BY TypesKept, QueueKept, HandKept, StopKept DEF Inv
<1> QED BY InitInv, <1>1, PTL DEF Spec

(* Every flag, counter and program counter keeps its type.                 *)
THEOREM TypeCorrect == Spec => []AudioTypeOK
<1>1. Inv => AudioTypeOK
  BY DEF Inv
<1> QED BY <1>1, InvAlways, PTL

(* Whoever stops the microphone and wherever the sender is: when it has    *)
(* been started again, one frame of an earlier run at most still goes out. *)
THEOREM OneOldFrame == Spec => []OneFrameOfEarlierRun
<1>1. Inv => OneFrameOfEarlierRun
  BY DEF Inv, OneInHand, OneFrameOfEarlierRun
<1> QED BY <1>1, InvAlways, PTL

(* One frame at most goes out after the stream has ended.                  *)
THEOREM AtMostOneMore == Spec => []OneFrameAfterStop
<1>1. Inv => OneFrameAfterStop
  BY DEF Inv
<1> QED BY <1>1, InvAlways, PTL

-----------------------------------------------------------------------------
(* The jitter buffer.                                                      *)

(* A position is a sequence number, and every packet of a stream that is   *)
(* playing is at or after it.                                              *)
BufferInv == TypeOK /\ NothingBehind

USE DEF Sequence, JitterAssumption

LEMMA SuccessorType == \A s \in Sequence : Successor(s) \in Sequence
BY JitterAssumption DEF Successor

(* Advancing from s moves the position by one, or, at the end of the       *)
(* sequence space, to the start.                                           *)
LEMMA SuccessorIsNext ==
  ASSUME NEW s \in Sequence, NEW r \in Sequence, s <= r, r # s
  PROVE  Successor(s) <= r
BY JitterAssumption DEF Successor

LEMMA PatienceType == Patience \in Nat /\ StarvationFrames >= 2
BY JitterAssumption DEF Patience

LEMMA BufferInitInv == BufferInit => BufferInv
<1> SUFFICES ASSUME BufferInit PROVE BufferInv
  OBVIOUS
<1>1. TypeOK
  <2>1. /\ packets \in SUBSET Sequence
        /\ next \in Sequence \cup {None}
        /\ started \in BOOLEAN
        /\ counter \in Sequence
        /\ steady \in {"none", "one", "not"}
    BY DEF BufferInit
  <2>2. missing \in 0 .. StarvationFrames - 1
    BY JitterAssumption DEF BufferInit
  <2>3. unheard \in 0 .. Patience + 1
    BY PatienceType DEF BufferInit
  <2> QED BY <2>1, <2>2, <2>3 DEF TypeOK
<1>2. NothingBehind
  <2>1. started = FALSE /\ next = None
    BY DEF BufferInit
  <2> QED BY <2>1 DEF NothingBehind
<1> QED BY <1>1, <1>2 DEF BufferInv

LEMMA StartOverInv ==
  ASSUME NEW P \in SUBSET Sequence, StartOver(P),
         counter' \in Sequence, steady' \in {"none", "one", "not"},
         unheard' \in 0 .. Patience + 1
  PROVE  BufferInv'
<1>1. TypeOK'
  <2>1. packets' \in SUBSET Sequence /\ next' = None /\ started' \in BOOLEAN
    BY DEF StartOver
  <2>2. missing' \in 0 .. StarvationFrames - 1
    BY JitterAssumption DEF StartOver
  <2> QED BY <2>1, <2>2 DEF TypeOK, Patience
<1>2. NothingBehind'
  <2>1. started' = FALSE /\ next' = None
    BY DEF StartOver
  <2> QED BY <2>1 DEF NothingBehind
<1> QED BY <1>1, <1>2 DEF BufferInv

(* A packet that is fed is not behind the position.                        *)
LEMMA FeedInv ==
  ASSUME BufferInv, NEW s \in Sequence, Feed(s),
         counter' \in Sequence, steady' \in {"none", "one", "not"},
         unheard' \in 0 .. Patience + 1
  PROVE  BufferInv'
<1>1. CASE Late(s)
  BY <1>1 DEF Feed, bufferVars, BufferInv, TypeOK, NothingBehind
<1>2. CASE ~Late(s) /\ Restarted(s)
  BY <1>2, StartOverInv DEF Feed
<1>3. CASE ~Late(s) /\ ~Restarted(s)
  <2>1. /\ packets' \subseteq packets \cup {s}
        /\ UNCHANGED <<next, started, missing>>
    BY <1>3 DEF Feed, DropOldest
  <2>2. started => next <= s
    BY <1>3, JitterAssumption DEF Late, Restarted, BufferInv, TypeOK, NothingBehind
  <2> QED BY <2>1, <2>2 DEF BufferInv, TypeOK, NothingBehind
<1> QED BY <1>1, <1>2, <1>3

LEMMA HeardType ==
  ASSUME BufferInv, NEW f \in BOOLEAN, Heard(f)
  PROVE  unheard' \in 0 .. Patience + 1
BY PatienceType DEF Heard, BufferInv, TypeOK

LEMMA PlayInv ==
  ASSUME BufferInv, Play
  PROVE  BufferInv'
<1>1. /\ steady' = "none"
      /\ counter' \in Sequence
      /\ unheard' \in 0 .. Patience + 1
  BY HeardType DEF Play, BufferInv, TypeOK
<1>2. CASE UNCHANGED bufferVars
  BY <1>1, <1>2 DEF bufferVars, BufferInv, TypeOK, NothingBehind
<1>3. ASSUME NEW s \in Position, ~Waiting, PlayFrame(s)
      PROVE  BufferInv'
  <2>1. s \in packets /\ \A r \in packets : s <= r
    BY <1>3 DEF Position, First, PlayFrame, BufferInv, NothingBehind
  <2>2. \A r \in packets \ {s} : Successor(s) <= r
    BY <2>1, SuccessorIsNext DEF BufferInv, TypeOK
  <2>3. Successor(s) \in Sequence
    BY <2>1, SuccessorType DEF BufferInv, TypeOK
  <2> QED BY <1>1, <1>3, <2>1, <2>2, <2>3, JitterAssumption
          DEF PlayFrame, BufferInv, TypeOK, NothingBehind
<1>4. ASSUME NEW s \in Position, ~Waiting, PlayMissing(s)
      PROVE  BufferInv'
  <2>1. s \notin packets
    BY <1>4 DEF PlayMissing
  <2>2. started /\ s = next
    BY <1>4, <2>1 DEF Position, First
  <2>3. CASE Starved
    BY <1>1, <1>4, <2>1, <2>3, StartOverInv DEF PlayMissing, GiveUp
  <2>4. CASE ~Starved
    <3>1. s \in Sequence /\ \A r \in packets : s <= r
      BY <2>2 DEF BufferInv, TypeOK, NothingBehind
    <3>2. \A r \in packets : Successor(s) <= r
      BY <2>1, <3>1, SuccessorIsNext DEF BufferInv, TypeOK
    <3>3. Successor(s) \in Sequence
      BY <3>1, SuccessorType
    <3>4. missing' \in 0 .. StarvationFrames - 1
      <4>1. missing \in 0 .. StarvationFrames - 1 /\ missing' = missing + 1
        BY <1>4, <2>1, <2>4 DEF PlayMissing, BufferInv, TypeOK
      <4> QED BY <2>4, <4>1, JitterAssumption DEF Starved
    <3>5. packets' = packets /\ next' = Successor(s) /\ started' = TRUE
      BY <1>4, <2>1, <2>4 DEF PlayMissing
    <3>6. TypeOK'
      BY <1>1, <3>3, <3>4, <3>5 DEF BufferInv, TypeOK
    <3>7. NothingBehind'
      BY <3>2, <3>3, <3>5, JitterAssumption DEF NothingBehind
    <3> QED BY <3>6, <3>7 DEF BufferInv
  <2> QED BY <2>3, <2>4
<1> QED BY <1>2, <1>3, <1>4 DEF Play

LEMMA BufferNextInv == BufferInv /\ [BufferNext]_streamVars => BufferInv'
<1> SUFFICES ASSUME BufferInv, [BufferNext]_streamVars PROVE BufferInv'
  OBVIOUS
<1>1. CASE Capture
  <2>1. counter \in Sequence /\ counter' \in Sequence
    BY <1>1, SuccessorType DEF Capture, BufferInv, TypeOK
  <2> QED BY <1>1, <2>1, FeedInv DEF Capture, BufferInv, TypeOK
<1>2. CASE Lose
  BY <1>2, SuccessorType DEF Lose, bufferVars, BufferInv, TypeOK, NothingBehind
<1>3. CASE ArriveLate
  <2>1. PICK d \in 1 .. Delay : Feed((counter - d) % SeqMod)
    BY <1>3 DEF ArriveLate
  <2>2. (counter - d) % SeqMod \in Sequence
    BY JitterAssumption DEF BufferInv, TypeOK
  <2> QED BY <1>3, <2>1, <2>2, FeedInv DEF ArriveLate, BufferInv, TypeOK
<1>4. CASE Play
  BY <1>4, PlayInv
<1>5. CASE Reset
  BY <1>5, StartOverInv DEF Reset, BufferInv, TypeOK
<1>6. CASE UNCHANGED streamVars
  BY <1>6 DEF streamVars, bufferVars, BufferInv, TypeOK, NothingBehind
<1> QED BY <1>1, <1>2, <1>3, <1>4, <1>5, <1>6 DEF BufferNext

LEMMA BufferAlwaysInv == BufferSpec => []BufferInv
BY BufferInitInv, BufferNextInv, PTL DEF BufferSpec

(* Positions and packets are sequence numbers, also past the end of the    *)
(* 32-bit counter, and the count of missing frames stays below starvation. *)
THEOREM BufferTypeCorrect == BufferSpec => []TypeOK
BY BufferAlwaysInv, PTL DEF BufferInv

(* However packets are lost, late, doubled or renumbered: playback always  *)
(* has its position, and nothing in the buffer is behind it.               *)
THEOREM NoPacketBehind == BufferSpec => []NothingBehind
BY BufferAlwaysInv, PTL DEF BufferInv

-----------------------------------------------------------------------------
(* The last m numbers the sender used.                                     *)
Back(i) == IF i <= counter THEN counter - i ELSE (counter - i) + SeqMod
Recent(m) == {Back(i) : i \in 1 .. m}

(* Frames in order since the last one played, which may be the one just    *)
(* fed, or are on their way.                                               *)
Fed == IF steady = "one" THEN 1 ELSE 0

(* While the sender is steady: a stream that is playing has been missing   *)
(* frames for as long as nothing was heard; one that starts over keeps     *)
(* every frame it was sent since it was starved.                           *)
Regaining ==
  steady # "not" =>
    /\ started => unheard <= missing
    /\ ~started /\ unheard >= StarvationFrames
         => Recent(unheard - StarvationFrames + Fed) \subseteq packets
    /\ ~started /\ steady = "none" => Cardinality(packets) < TargetFrames

HearInv == Regaining /\ HeardAgain

LEMMA SuccessorIs ==
  ASSUME NEW s \in Sequence
  PROVE  Successor(s) = IF s + 1 = SeqMod THEN 0 ELSE s + 1
BY JitterAssumption DEF Successor

(* As many different numbers, if they do not run into each other.          *)
LEMMA RecentNumbers ==
  ASSUME TypeOK, NEW m \in Nat, m <= SeqMod
  PROVE  IsFiniteSet(Recent(m)) /\ Cardinality(Recent(m)) = m
<1> DEFINE f == [i \in 1 .. m |-> Back(i)]
<1>1. f \in Bijection(1 .. m, Recent(m))
  <2>1. ASSUME NEW i \in 1 .. m, NEW j \in 1 .. m, Back(i) = Back(j) PROVE i = j
    BY <2>1, JitterAssumption DEF Back, TypeOK
  <2>2. f \in [1 .. m -> Recent(m)] /\ \A x \in Recent(m) : \E i \in 1 .. m : f[i] = x
    BY DEF Recent
  <2>3. \A i, j \in 1 .. m : f[i] = f[j] => i = j
    BY <2>1
  <2> QED BY <2>2, <2>3 DEF Bijection, Injection, Surjection, IsInjective
<1>2. IsFiniteSet(1 .. m) /\ Cardinality(1 .. m) = m
  BY FS_Interval
<1>3. ExistsBijection(1 .. m, Recent(m))
  BY <1>1 DEF ExistsBijection
<1> QED BY <1>2, <1>3, FS_Bijection

(* A set of packets is finite.                                             *)
LEMMA PacketsFinite ==
  ASSUME NEW P \in SUBSET Sequence
  PROVE  IsFiniteSet(P) /\ Cardinality(P) \in Nat
<1>1. IsFiniteSet(Sequence)
  BY FS_Interval, JitterAssumption
<1> QED BY <1>1, FS_Subset, FS_CardinalityType

LEMMA HearInit == BufferInit => HearInv
<1> SUFFICES ASSUME BufferInit PROVE HearInv
  OBVIOUS
<1>1. packets = {} /\ unheard = 0 /\ started = FALSE
  BY DEF BufferInit
<1>2. Cardinality({}) = 0
  BY FS_EmptySet
<1> QED BY <1>1, <1>2, PatienceType, JitterAssumption DEF HearInv, Regaining, HeardAgain

(* The sender feeds one frame more.                                        *)
LEMMA RecentNext ==
  ASSUME TypeOK, counter' = Successor(counter), NEW m \in Nat, m < SeqMod
  PROVE  Recent(m + 1)' = Recent(m) \cup {counter}
<1>1. counter \in 0 .. SeqMod - 1 /\ counter' = IF counter + 1 = SeqMod THEN 0 ELSE counter + 1
  BY SuccessorIs DEF TypeOK
<1>2. Back(1)' = counter
  BY <1>1, JitterAssumption DEF Back
<1>3. ASSUME NEW i \in 1 .. m PROVE Back(i + 1)' = Back(i)
  BY <1>1, JitterAssumption DEF Back
<1>4. ASSUME NEW x \in Recent(m + 1)' PROVE x \in Recent(m) \cup {counter}
  <2>1. PICK i \in 1 .. m + 1 : x = Back(i)'
    BY DEF Recent
  <2>2. CASE i = 1
    BY <1>2, <2>1, <2>2
  <2>3. CASE i # 1
    <3> DEFINE j == i - 1
    <3>1. j \in 1 .. m /\ j + 1 = i
      BY <2>3
    <3> HIDE DEF j
    <3>2. x = Back(j)
      BY <1>3, <2>1, <3>1
    <3> QED BY <3>1, <3>2 DEF Recent
  <2> QED BY <2>2, <2>3
<1>5. ASSUME NEW i \in 1 .. m PROVE Back(i) \in Recent(m + 1)'
  <2>1. i + 1 \in 1 .. m + 1
    OBVIOUS
  <2> QED BY <1>3, <2>1 DEF Recent
<1>6. counter \in Recent(m + 1)'
  <2>1. 1 \in 1 .. m + 1
    OBVIOUS
  <2> QED BY <1>2, <2>1 DEF Recent
<1>7. ASSUME NEW x \in Recent(m) PROVE x \in Recent(m + 1)'
  BY <1>5 DEF Recent
<1> QED BY <1>4, <1>6, <1>7

(* A frame of the steady sender.                                           *)
LEMMA HearCapture ==
  ASSUME BufferInv, HearInv, Capture
  PROVE  HearInv'
<1>1. /\ steady' = IF steady = "none" THEN "one" ELSE "not"
      /\ unheard' = unheard
      /\ counter \in Sequence /\ counter' = Successor(counter)
  BY DEF Capture, BufferInv, TypeOK
<1>2. HeardAgain'
  BY <1>1 DEF HearInv, HeardAgain, Patience
<1>3. CASE steady # "none"
  BY <1>1, <1>2, <1>3 DEF HearInv, Regaining
<1>4. CASE steady = "none" /\ started
  <2>1. /\ unheard \in Nat /\ unheard <= missing
        /\ missing \in 0 .. StarvationFrames - 1
    BY <1>4 DEF BufferInv, TypeOK, HearInv, Regaining
  <2>2. \/ started' = TRUE /\ missing' = missing
        \/ started' = FALSE
    BY <1>4 DEF Capture, Feed, StartOver, bufferVars
  <2>3. ~(unheard' >= StarvationFrames)
    BY <1>1, <2>1, JitterAssumption
  <2>4. steady' = "one"
    BY <1>1, <1>4
  <2> QED BY <1>1, <1>2, <2>1, <2>2, <2>3, <2>4 DEF HearInv, Regaining
<1>5. CASE steady = "none" /\ ~started
  <2> DEFINE m == unheard - StarvationFrames
  <2>1. packets \in SUBSET Sequence /\ next = None
    BY <1>5 DEF BufferInv, TypeOK, NothingBehind
  <2>2. Cardinality(packets) < TargetFrames
    BY <1>5 DEF HearInv, Regaining
  <2>3. /\ Cardinality(packets \cup {counter}) \in Nat
        /\ Cardinality(packets \cup {counter}) <= TargetFrames
    <3>1. IsFiniteSet(packets) /\ Cardinality(packets) \in Nat
      BY <2>1, PacketsFinite
    <3>2. Cardinality(packets \cup {counter})
            = IF counter \in packets THEN Cardinality(packets)
                                     ELSE Cardinality(packets) + 1
      BY <3>1, FS_AddElement
    <3> QED BY <2>2, <3>1, <3>2, JitterAssumption
  <2>4. packets' = packets \cup {counter} /\ started' = started
    BY <2>1, <2>3, JitterAssumption DEF Capture, Feed, Late, Restarted, DropOldest
  <2>5. ASSUME unheard >= StarvationFrames
        PROVE  Recent(m + 1)' \subseteq packets'
    <3>1. m \in Nat /\ m < SeqMod
      BY <2>5, JitterAssumption DEF BufferInv, TypeOK, HearInv, HeardAgain, Patience
    <3>2. Recent(m) \subseteq packets
      <4>1. unheard - StarvationFrames + Fed = m
        BY <1>5, <3>1 DEF Fed
      <4> QED BY <1>5, <2>5, <4>1 DEF HearInv, Regaining
    <3> HIDE DEF m
    <3>3. PICK k \in Nat : k = m
      BY <3>1
    <3>4. Recent(k + 1)' = Recent(k) \cup {counter}
      BY <1>1, <3>1, <3>3, RecentNext DEF BufferInv
    <3>5. m' = m
      BY <1>1 DEF m
    <3> QED BY <2>4, <3>2, <3>3, <3>4, <3>5
  <2>6. steady' = "one" /\ Fed' = 1
    BY <1>1, <1>5 DEF Fed
  <2>7. unheard' \in Nat /\ unheard' = unheard
    BY <1>1 DEF BufferInv, TypeOK
  <2>8. (~started /\ unheard >= StarvationFrames
          => Recent(unheard - StarvationFrames + Fed) \subseteq packets)'
    BY <2>5, <2>6, <2>7
  <2>9. started' = FALSE
    BY <1>5, <2>4 DEF BufferInv, TypeOK
  <2> QED BY <1>2, <2>6, <2>8, <2>9 DEF HearInv, Regaining
<1> QED BY <1>3, <1>4, <1>5

(* A frame is due.                                                         *)
LEMMA HearPlay ==
  ASSUME BufferInv, HearInv, Play
  PROVE  HearInv'
<1>1. steady' = "none" /\ Fed' = 0 /\ unheard \in Nat /\ unheard <= Patience
  BY DEF Play, Fed, BufferInv, TypeOK, HearInv, HeardAgain
<1>2. Cardinality({}) = 0 /\ Patience \in Nat /\ Patience >= StarvationFrames
      /\ StarvationFrames \in Nat /\ StarvationFrames >= 2 /\ TargetFrames \in Nat \ {0}
  BY FS_EmptySet, PatienceType, JitterAssumption DEF Patience
<1>3. ASSUME Waiting, UNCHANGED bufferVars, Heard(FALSE)
      PROVE  HearInv'
  <2>1. /\ started' = started /\ packets' = packets /\ started = FALSE
        /\ Cardinality(packets) < TargetFrames
    BY <1>3 DEF Waiting, bufferVars, BufferInv, TypeOK
  <2>2. CASE steady # "one"
    <3>1. unheard' = 0
      BY <1>3, <2>2 DEF Heard
    <3> QED BY <1>2, <2>1, <3>1 DEF HearInv, Regaining, HeardAgain
  <2>3. CASE steady = "one"
    <3>1. unheard' = unheard + 1
      BY <1>1, <1>2, <1>3, <2>3 DEF Heard
    <3>2. ASSUME unheard >= StarvationFrames
          PROVE  /\ Recent(unheard - StarvationFrames + 1) \subseteq packets
                 /\ unheard + 1 <= Patience
      <4>1. Recent(unheard - StarvationFrames + 1) \subseteq packets
        BY <2>1, <2>3, <3>2 DEF HearInv, Regaining, Fed
      <4>2. PICK k \in Nat : k = unheard - StarvationFrames + 1
        BY <1>1, <1>2, <3>2
      <4>3. k <= SeqMod
        BY <1>1, <1>2, <4>2, JitterAssumption DEF Patience
      <4>4. Cardinality(Recent(k)) = k
        BY <4>3, RecentNumbers DEF BufferInv
      <4>5. packets \in SUBSET Sequence
        BY DEF BufferInv, TypeOK
      <4>6. IsFiniteSet(packets) /\ Cardinality(packets) \in Nat
        BY <4>5, PacketsFinite
      <4>7. Cardinality(Recent(k)) <= Cardinality(packets)
        BY <4>1, <4>2, <4>6, FS_Subset
      <4>8. k < TargetFrames
        BY <2>1, <4>4, <4>6, <4>7, <1>2
      <4> QED BY <1>1, <1>2, <4>1, <4>2, <4>8 DEF Patience
    <3>3. counter' = counter
      BY DEF Play
    <3>4. (unheard >= StarvationFrames
             => Recent(unheard - StarvationFrames + Fed) \subseteq packets)'
      <4>1. \A i \in Nat : Back(i)' = Back(i)
        BY <3>3 DEF Back
      <4>2. PICK k \in Int : k = unheard - StarvationFrames + 1
        BY <1>1, <1>2
      <4>3. unheard' - StarvationFrames + Fed' = k
        BY <1>1, <1>2, <3>1, <4>2
      <4>4. CASE k <= 0
        <5>1. 1 .. k = {}
          BY <4>4
        <5> QED BY <4>3, <5>1 DEF Recent
      <4>5. CASE k > 0
        <5>1. unheard >= StarvationFrames
          BY <1>1, <1>2, <4>2, <4>5
        <5>2. Recent(k) \subseteq packets
          BY <3>2, <4>2, <5>1
        <5>3. \A i \in 1 .. k : Back(i)' \in packets'
          BY <2>1, <4>1, <5>2 DEF Recent
        <5> QED BY <4>3, <5>3 DEF Recent
      <4> QED BY <4>4, <4>5
    <3>5. unheard' <= Patience
      BY <1>1, <1>2, <3>1, <3>2
    <3> QED BY <1>1, <2>1, <3>4, <3>5 DEF HearInv, Regaining, HeardAgain
  <2> QED BY <2>2, <2>3
<1>4. ASSUME NEW s \in Position, PlayFrame(s), Heard(TRUE)
      PROVE  HearInv'
  <2>1. unheard' = 0 /\ started' = TRUE /\ missing' = 0
    BY <1>4 DEF Heard, PlayFrame
  <2> QED BY <1>2, <2>1 DEF HearInv, Regaining, HeardAgain
<1>5. ASSUME NEW s \in Position, PlayMissing(s), Heard(FALSE)
      PROVE  HearInv'
  <2>1. started /\ missing \in 0 .. StarvationFrames - 1
    BY <1>5 DEF PlayMissing, Position, First, BufferInv, TypeOK
  <2>2. unheard' \in Nat /\ unheard' <= missing + 1
    BY <1>1, <1>5, <2>1 DEF Heard, HearInv, Regaining
  <2>3. CASE ~Starved
    <3>1. started' = TRUE /\ missing' = missing + 1
      BY <1>5, <2>3 DEF PlayMissing
    <3>2. missing + 1 <= StarvationFrames
      BY <1>2, <2>1
    <3> QED BY <1>2, <2>1, <2>2, <3>1, <3>2 DEF HearInv, Regaining, HeardAgain
  <2>4. CASE Starved
    <3>1. packets' = {} /\ started' = FALSE
      BY <1>5, <2>4 DEF PlayMissing, GiveUp, StartOver
    <3>2. unheard' <= StarvationFrames
      BY <1>2, <2>1, <2>2
    <3>3. PICK u \in Nat : u = unheard'
      BY <2>2
    <3>4. (Recent(unheard - StarvationFrames + Fed) \subseteq packets)'
      <4>1. Fed' = 0
        BY <1>1
      <4>2. u <= StarvationFrames
        BY <3>2, <3>3
      <4>3. StarvationFrames \in Nat
        BY JitterAssumption
      <4>4. 1 .. (u - StarvationFrames + 0) = {}
        BY ONLY u \in Nat, <4>2, <4>3
      <4> QED BY <3>3, <4>1, <4>4 DEF Recent
    <3>5. HeardAgain'
      BY <1>2, <2>2, <3>2 DEF HeardAgain, Patience
    <3> QED BY <1>2, <3>1, <3>4, <3>5 DEF HearInv, Regaining
  <2> QED BY <2>3, <2>4
<1> QED BY <1>3, <1>4, <1>5 DEF Play

LEMMA HearStep == BufferInv /\ HearInv /\ [BufferNext]_streamVars => HearInv'
<1> SUFFICES ASSUME BufferInv, HearInv, [BufferNext]_streamVars PROVE HearInv'
  OBVIOUS
<1>1. ASSUME steady' = "not", unheard' = unheard PROVE HearInv'
  BY <1>1 DEF HearInv, Regaining, HeardAgain, Patience
<1>2. CASE Lose \/ ArriveLate \/ Reset
  BY <1>1, <1>2 DEF Lose, ArriveLate, Reset
<1>3. CASE UNCHANGED streamVars
  BY <1>3 DEF streamVars, bufferVars, HearInv, Regaining, HeardAgain, Patience, Recent, Back, Fed
<1>4. CASE Capture
  BY <1>4, HearCapture
<1>5. CASE Play
  BY <1>5, HearPlay
<1> QED BY <1>2, <1>3, <1>4, <1>5 DEF BufferNext

(* However far playback ran past a sender that paused, wherever its        *)
(* numbers wrap, whatever the buffer still holds: once the sender is       *)
(* steady, at most StarvationFrames + TargetFrames - 1 frames in a row are *)
(* silent.                                                                 *)
THEOREM SteadyIsHeard == BufferSpec => []HeardAgain
<1>1. BufferInv /\ HearInv /\ [BufferNext]_streamVars => (BufferInv /\ HearInv)'
  BY BufferNextInv, HearStep
<1> QED BY <1>1, BufferInitInv, HearInit, PTL DEF BufferSpec, HearInv

=============================================================================
