------------------------------ MODULE AudioTx ------------------------------
(* AudioTransmitter of the firmware (audio_tx.cpp): the capture task and   *)
(* the sender task, each a loop with its own program counter, the queue    *)
(* and the flags between them, and the main loop that stops and starts     *)
(* them.  A step runs from one access to what is shared to the next.       *)
(*                                                                         *)
(* The microphone and the network misbehave in the ways the code restarts  *)
(* them for; Disturbances bounds how often they, the user and the link do. *)
EXTENDS Naturals

CONSTANTS RingFrames,       \* kAudioRingFrames
          ReadFailures,     \* kAudioReadFailureRestartCount
          InvalidFrames,    \* kAudioInvalidFrameRestartCount
          SendFailures,     \* kAudioSendFailureRestartCount
          AckMinSent,       \* kAudioAckMinSentFrames
          Disturbances      \* bound

ASSUME AudioAssumption ==
  /\ \A n \in {RingFrames, ReadFailures, InvalidFrames, SendFailures} : n \in Nat \ {0}
  /\ AckMinSent \in Nat /\ Disturbances \in Nat

VARIABLES
  active, muted,   \* active_, muted_
  endpoint,        \* PairingManager::audioEndpoint is ready
  status,          \* audioStatus: seen and recent, progress since it was last
                   \* used, and the Mac's output ready
  capture,         \* the capture task: program counter, failed reads, and
                   \* constant frames
  rx,              \* rxChannel_ is open
  queue,           \* how many frames are in queue_
  restart,         \* captureRestartRequested_
  sender,          \* the sender task: program counter, socket, failures, and
                   \* the state of its acknowledgement watchdog
  codec,           \* what the microphone delivers: sound, constant frames, or
                   \* nothing until it is restarted; or it cannot be started
  net,             \* what becomes of datagrams: they arrive, or until the
                   \* socket is renewed vanish, or cannot be sent
  heard,           \* the Mac has received a frame since its last pong
  after,           \* frames sent since streaming was last allowed
  earlier,         \* frames of an earlier run of the microphone than the last
                   \* one started: how many are in the queue, whether the sender
                   \* has one in hand, how many it has sent since that start
  budget

shared == <<active, muted, endpoint, status, queue, restart, earlier>>
vars == <<active, muted, endpoint, status, capture, rx, queue, restart, sender,
          codec, net, heard, after, earlier, budget>>

Unknown == [fresh |-> FALSE, moved |-> FALSE, ready |-> FALSE]

Init ==
  /\ active = FALSE /\ muted \in BOOLEAN /\ endpoint = FALSE /\ status = Unknown
  /\ capture = [pc |-> "top", reads |-> 0, invalid |-> 0]
  /\ rx = FALSE /\ queue = 0 /\ restart = FALSE
  /\ sender = [pc |-> "top", udp |-> FALSE, failures |-> 0, ack |-> FALSE, stalled |-> FALSE,
               since |-> 0]
  /\ codec = "sound" /\ net = "open" /\ heard = FALSE /\ after = 0
  /\ earlier = [queued |-> 0, held |-> FALSE, sent |-> 0]
  /\ budget = Disturbances

(* streamingAllowed.                                                       *)
StreamingAllowed == active /\ ~muted /\ endpoint

Spend == budget > 0 /\ budget' = budget - 1

(* xQueueReset.                                                            *)
QueueReset == queue' = 0 /\ earlier' = [earlier EXCEPT !.queued = 0]
QueueStays == UNCHANGED <<queue, earlier>>

(* The oldest frame leaves the queue.                                      *)
OneLess(frames) == IF frames = 0 THEN 0 ELSE frames - 1

-----------------------------------------------------------------------------
(* The main loop.                                                          *)
Stopped == QueueReset /\ restart' = FALSE

SetActive(on) ==
  /\ active' = on
  /\ IF on THEN QueueStays /\ UNCHANGED restart ELSE Stopped
  /\ after' = 0 /\ Spend
  /\ UNCHANGED <<muted, endpoint, status, capture, rx, sender, codec, net, heard>>

SetMuted(on) ==
  /\ muted' = on
  /\ IF on THEN Stopped ELSE QueueStays /\ UNCHANGED restart
  /\ after' = 0 /\ Spend
  /\ UNCHANGED <<active, endpoint, status, capture, rx, sender, codec, net, heard>>

(* PairingManager::setAudioReady.                                          *)
SetAudioReady(ready) ==
  /\ endpoint' = ready /\ status' = Unknown /\ after' = 0 /\ Spend
  /\ UNCHANGED <<active, muted, capture, rx, queue, earlier, restart, sender, codec, net, heard>>

(* A pong: the Mac says how many frames it received.                       *)
Pong(ready) ==
  /\ endpoint
  /\ status' = [fresh |-> TRUE, moved |-> status.moved \/ heard, ready |-> ready]
  /\ heard' = FALSE /\ (~ready => Spend) /\ (ready => UNCHANGED budget)
  /\ UNCHANGED <<active, muted, endpoint, capture, rx, queue, earlier, restart, sender, codec,
                 net,
                 after>>

StatusAges ==
  /\ status.fresh /\ status' = [status EXCEPT !.fresh = FALSE] /\ Spend
  /\ UNCHANGED <<active, muted, endpoint, capture, rx, queue, earlier, restart, sender, codec,
                 net,
                 heard, after>>

(* Six seconds without progress.                                           *)
AckStalls ==
  /\ sender.ack /\ ~sender.stalled /\ sender' = [sender EXCEPT !.stalled = TRUE]
  /\ UNCHANGED <<shared, capture, rx, codec, net, heard, after, budget>>

(* The environment: power and Wi-Fi transitions.                           *)
Upset ==
  /\ \/ codec' \in {"constant", "dead", "unstartable"} /\ UNCHANGED net
     \/ net' \in {"deaf", "failing"} /\ UNCHANGED codec
  /\ Spend
  /\ UNCHANGED <<shared, capture, rx, sender, heard, after>>

-----------------------------------------------------------------------------
(* captureLoop.  micStop is always followed by a reset of the queue, but   *)
(* in a step of its own: until then the sender may take what is in it.     *)
CaptureAt(pc) == capture.pc = pc
CaptureGoes(pc) == capture' = [capture EXCEPT !.pc = pc]

MicStop == rx' = FALSE

(* MUTANT: the queue is left as it is.                                     *)
CaptureSkipsReset ==
  /\ CaptureAt("reset") /\ QueueStays /\ CaptureGoes("top")
  /\ UNCHANGED <<active, muted, endpoint, status, rx, restart, sender, codec, net, heard,
                 after, budget>>

CaptureResets ==
  /\ CaptureAt("reset") /\ QueueReset /\ CaptureGoes("top")
  /\ UNCHANGED <<active, muted, endpoint, status, rx, restart, sender, codec, net, heard,
                 after, budget>>

CaptureTop ==
  /\ CaptureAt("top")
  /\ IF StreamingAllowed THEN CaptureGoes("armed") /\ UNCHANGED rx
     ELSE rx /\ MicStop /\ CaptureGoes("reset")
  /\ UNCHANGED <<shared, sender, codec, net, heard, after, budget>>

(* A restart that the sender asked for.                                    *)
CaptureRestarts ==
  /\ CaptureAt("armed") /\ restart
  /\ restart' = FALSE /\ MicStop /\ CaptureGoes("reset") /\ QueueStays
  /\ UNCHANGED <<active, muted, endpoint, status, sender, codec, net, heard, after, budget>>

(* micStart opens the channel and sets the codec up afresh, or fails.      *)
(* From now on what is in the queue or in the sender's hand is old.        *)
MicStart ==
  /\ codec # "unstartable" /\ rx' = TRUE /\ codec' = "sound"
  /\ earlier' = [queued |-> queue, held |-> sender.pc \in {"got", "send"}, sent |-> 0]
MicStartFails == codec = "unstartable" /\ codec' = "sound" /\ UNCHANGED <<rx, earlier>>

CaptureArms ==
  /\ CaptureAt("armed") /\ ~restart
  /\ \/ rx /\ CaptureGoes("read") /\ UNCHANGED <<rx, codec, earlier>>
     \/ ~rx /\ MicStart /\ CaptureGoes("read")
     \/ ~rx /\ MicStartFails /\ CaptureGoes("top")
  /\ UNCHANGED <<active, muted, endpoint, status, queue, restart, sender, net, heard, after,
                 budget>>

GivesUp(count, limit) == count + 1 >= limit

CaptureReadFails ==
  /\ CaptureAt("read") /\ codec \in {"dead", "unstartable"}
  /\ IF GivesUp(capture.reads, ReadFailures)
     THEN MicStop /\ capture' = [capture EXCEPT !.pc = "reset", !.reads = 0]
     ELSE capture' = [capture EXCEPT !.pc = "top", !.reads = @ + 1] /\ UNCHANGED rx
  /\ UNCHANGED <<shared, sender, codec, net, heard, after, budget>>

CaptureReads ==
  /\ CaptureAt("read") /\ codec \in {"sound", "constant"}
  /\ capture' = [capture EXCEPT !.pc = "check", !.reads = 0]
  /\ UNCHANGED <<shared, rx, sender, codec, net, heard, after, budget>>

(* The second streamingAllowed, and the test for constant frames.          *)
CaptureChecks ==
  /\ CaptureAt("check")
  /\ \/ ~StreamingAllowed /\ CaptureGoes("top") /\ UNCHANGED rx
     \/ /\ StreamingAllowed /\ codec = "constant"
        /\ IF GivesUp(capture.invalid, InvalidFrames)
           THEN MicStop /\ capture' = [capture EXCEPT !.pc = "reset", !.invalid = 0]
           ELSE capture' = [capture EXCEPT !.pc = "top", !.invalid = @ + 1] /\ UNCHANGED rx
     \/ /\ StreamingAllowed /\ codec # "constant"
        /\ capture' = [capture EXCEPT !.pc = "put", !.invalid = 0] /\ UNCHANGED rx
  /\ UNCHANGED <<shared, sender, codec, net, heard, after, budget>>

(* A full queue loses its oldest frame.                                    *)
Put(frames) == IF frames < RingFrames THEN frames + 1 ELSE frames

CapturePuts ==
  /\ CaptureAt("put") /\ queue' = Put(queue)
  /\ earlier' = IF queue < RingFrames THEN earlier ELSE [earlier EXCEPT !.queued = OneLess(@)]
  /\ CaptureGoes("top")
  /\ UNCHANGED <<active, muted, endpoint, status, rx, restart, sender, codec, net, heard,
                 after, budget>>

-----------------------------------------------------------------------------
(* senderLoop.                                                             *)
SenderAt(pc) == sender.pc = pc

(* Its own test, the same as streamingAllowed.                             *)
(* MUTANT: it looks only for an endpoint.                                  *)
EndpointIsEnough == endpoint

SenderMaySend == StreamingAllowed

(* Nothing to stream: the socket is closed and the watchdog forgets.       *)
SenderRests ==
  /\ SenderAt("top") /\ ~SenderMaySend
  /\ sender' = [sender EXCEPT !.udp = FALSE, !.ack = FALSE, !.stalled = FALSE]
  /\ UNCHANGED <<shared, capture, rx, codec, net, heard, after, budget>>

(* udpStart fails, to be tried again half a second later.                  *)
SenderOpenFails ==
  /\ SenderAt("top") /\ SenderMaySend /\ ~sender.udp /\ Spend
  /\ UNCHANGED <<shared, capture, rx, sender, codec, net, heard, after>>

(* It succeeds; a new socket heals what a new socket can.                  *)
SenderOpens ==
  /\ SenderAt("top") /\ SenderMaySend
  /\ IF sender.udp THEN sender' = [sender EXCEPT !.pc = "wait"] /\ UNCHANGED net
     ELSE sender' = [sender EXCEPT !.pc = "wait", !.udp = TRUE, !.failures = 0] /\ net' = "open"
  /\ UNCHANGED <<shared, capture, rx, codec, heard, after, budget>>

SenderWaits ==
  /\ SenderAt("wait")
  /\ IF queue = 0 THEN sender' = [sender EXCEPT !.pc = "top"] /\ QueueStays
     ELSE /\ sender' = [sender EXCEPT !.pc = "got"] /\ queue' = queue - 1
          /\ earlier' = [earlier EXCEPT !.queued = OneLess(@), !.held = earlier.queued > 0]
  /\ UNCHANGED <<active, muted, endpoint, status, capture, rx, restart, codec, net, heard,
                 after, budget>>

LetsGo == [earlier EXCEPT !.held = FALSE]

(* The test again, after up to 100 ms.                                     *)
SenderRechecks ==
  /\ SenderAt("got")
  /\ IF SenderMaySend THEN sender' = [sender EXCEPT !.pc = "send"] /\ UNCHANGED earlier
     ELSE sender' = [sender EXCEPT !.pc = "top"] /\ earlier' = LetsGo
  /\ UNCHANGED <<active, muted, endpoint, status, queue, restart, capture, rx, codec, net, heard,
                 after, budget>>

(* requestPipelineRestart; kept is what is old once the frame is sent.     *)
PipelineRestarts(kept) ==
  restart' = TRUE /\ queue' = 0 /\ earlier' = [kept EXCEPT !.queued = 0]

SendOk ==
  /\ SenderAt("send") /\ net # "failing"
  /\ sender' = [sender EXCEPT !.pc = "ack", !.failures = 0,
                  !.since = IF @ < AckMinSent THEN @ + 1 ELSE @]
  /\ heard' = (heard \/ net = "open")
  /\ after' = IF StreamingAllowed THEN after ELSE after + 1
  /\ earlier' = [LetsGo EXCEPT !.sent = IF earlier.held THEN @ + 1 ELSE @]
  /\ UNCHANGED <<active, muted, endpoint, status, queue, restart, capture, rx, codec, net,
                 budget>>

SendFails ==
  /\ SenderAt("send") /\ net = "failing"
  /\ IF GivesUp(sender.failures, SendFailures)
     THEN /\ sender' = [sender EXCEPT !.pc = "ack", !.udp = FALSE, !.failures = 0]
          /\ PipelineRestarts(LetsGo)
     ELSE /\ sender' = [sender EXCEPT !.pc = "ack", !.failures = @ + 1]
          /\ earlier' = LetsGo /\ UNCHANGED <<restart, queue>>
  /\ UNCHANGED <<active, muted, endpoint, status, capture, rx, codec, net, heard, after, budget>>

(* The acknowledgement watchdog: the Mac answers and could play, but its   *)
(* count has stood still for long and for many frames.                     *)
(* MUTANT: it never bites.                                                 *)
NeverStalled == FALSE

Stalled == status.ready /\ sender.stalled /\ sender.since >= AckMinSent

AckProgress(s) == [s EXCEPT !.pc = "top", !.ack = TRUE, !.stalled = FALSE, !.since = 0]

SenderWatches ==
  /\ SenderAt("ack")
  /\ \/ ~status.fresh /\ sender' = [sender EXCEPT !.pc = "top"] /\ UNCHANGED <<status, restart,
                                                                               queue, earlier>>
     \/ /\ status.fresh /\ (~sender.ack \/ status.moved)
        /\ sender' = AckProgress(sender) /\ status' = [status EXCEPT !.moved = FALSE]
        /\ UNCHANGED <<restart, queue, earlier>>
     \/ /\ status.fresh /\ sender.ack /\ ~status.moved /\ ~Stalled
        /\ sender' = [sender EXCEPT !.pc = "top"] /\ UNCHANGED <<status, restart, queue, earlier>>
     \/ /\ status.fresh /\ sender.ack /\ ~status.moved /\ Stalled
        /\ sender' = [AckProgress(sender) EXCEPT !.udp = FALSE] /\ PipelineRestarts(earlier)
        /\ UNCHANGED status
  /\ UNCHANGED <<active, muted, endpoint, capture, rx, codec, net, heard, after, budget>>

-----------------------------------------------------------------------------
CaptureTask == \/ CaptureTop \/ CaptureResets \/ CaptureRestarts \/ CaptureArms
               \/ CaptureReadFails \/ CaptureReads \/ CaptureChecks \/ CapturePuts
SenderTask == \/ SenderRests \/ SenderOpenFails \/ SenderOpens \/ SenderWaits \/ SenderRechecks
              \/ SendOk \/ SendFails \/ SenderWatches

Next ==
  \/ CaptureTask \/ SenderTask
  \/ \E on \in BOOLEAN : SetActive(on) \/ SetMuted(on) \/ SetAudioReady(on) \/ Pong(on)
  \/ StatusAges \/ AckStalls \/ Upset

(* FreeRTOS runs both tasks, the Mac answers heartbeats, time passes.      *)
Spec == Init /\ [][Next]_vars
        /\ WF_vars(CaptureTask) /\ WF_vars(SenderTask) /\ WF_vars(Pong(TRUE)) /\ WF_vars(AckStalls)

-----------------------------------------------------------------------------
AudioTypeOK ==
  /\ active \in BOOLEAN /\ muted \in BOOLEAN /\ endpoint \in BOOLEAN
  /\ status \in [fresh : BOOLEAN, moved : BOOLEAN, ready : BOOLEAN]
  /\ capture \in [pc : {"top", "reset", "armed", "read", "check", "put"},
                  reads : 0 .. ReadFailures - 1, invalid : 0 .. InvalidFrames - 1]
  /\ rx \in BOOLEAN /\ queue \in 0 .. RingFrames /\ restart \in BOOLEAN
  /\ sender \in [pc : {"top", "wait", "got", "send", "ack"}, udp : BOOLEAN,
                 failures : 0 .. SendFailures - 1, ack : BOOLEAN, stalled : BOOLEAN,
                 since : 0 .. AckMinSent]
  /\ codec \in {"sound", "constant", "dead", "unstartable"}
  /\ net \in {"open", "deaf", "failing"} /\ heard \in BOOLEAN
  /\ after \in Nat /\ budget \in 0 .. Disturbances
  /\ earlier \in [queued : 0 .. RingFrames, held : BOOLEAN, sent : Nat]

(* Of the sound of an earlier run of the microphone, whoever stopped it    *)
(* and wherever the two tasks were, one frame at most goes out once it has *)
(* been started again: the one the sender had already taken.               *)
OneFrameOfEarlierRun == earlier.sent <= 1

(* Leaving Remote mode, muting, or losing the Mac ends the stream: of what *)
(* was on its way, one frame at most still goes out.                       *)
OneFrameAfterStop == after <= 1

(* With streaming off for good, the microphone, the queue and the socket   *)
(* are given up.                                                           *)
QuietsDown ==
  <>[](~StreamingAllowed) => <>[](~rx /\ queue = 0 /\ ~sender.udp)

(* With streaming on for good, sound reaches the Mac again and again: no   *)
(* power or Wi-Fi transition leaves "a false-online audio path".           *)
Recovers == <>[]StreamingAllowed => []<><<SendOk /\ net = "open">>_vars
=============================================================================
