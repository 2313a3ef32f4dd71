------------------------------ MODULE DriverIO ------------------------------
(***************************************************************************)
(* The audio path of the virtual microphone driver: StartIO, StopIO,       *)
(* GetZeroTimeStamp and DoIOOperation of CardBridgeMicrophone.c.  Device   *)
(* is the microphone applications read, Device2 the feed the bridge plays  *)
(* into; both share one ring buffer, allocated with the first start and    *)
(* freed with the last stop.  Neither the reader nor the writer of the     *)
(* ring takes a lock, so their loads and stores interleave.                *)
(*                                                                         *)
(* Time is counted in frames since the anchor, which the HAL's sample time *)
(* follows.  A frame in the ring is Silence or names the run (the life of  *)
(* one buffer) and the sample time it was written for.  The HAL starts and *)
(* stops each client in pairs, runs at most one read and one write at a    *)
(* time, never during the last StopIO of their device, and ends a cycle    *)
(* before it starts the next.                                              *)
(***************************************************************************)
EXTENDS Integers

CONSTANTS
    RingFrames,     \* kRing_Buffer_Frame_Size
    BlockFrames,    \* frames of one IO cycle
    Period,         \* frames between zero time stamps, internal fixed clock
    AdjustedPeriod, \* the same with the adjustable clock
    MaxTime,        \* bound: frames in a run
    MaxRuns,        \* bound: lives of the ring buffer
    MaxClients      \* bound: clients of one device

ASSUME IoAssumption ==
    /\ RingFrames \in Nat /\ BlockFrames \in Nat \ {0}
    /\ 4 * BlockFrames - 1 <= RingFrames
    /\ Period \in Nat \ {0} /\ AdjustedPeriod \in Nat \ {0}
    /\ MaxTime \in Nat /\ MaxRuns \in Nat \ {0} /\ MaxClients \in Nat \ {0}

VARIABLES
    running,        \* gDevice_IOIsRunning and gDevice2_IOIsRunning
    ring,           \* gRingBuffer
    lastOutput,     \* lastOutputSampleTime, static in DoIOOperation
    isBufferClear,  \* static in DoIOOperation
    stamps,         \* gDevice_NumberTimeStamps
    previousTicks,  \* gDevice_PreviousTicks
    muted,          \* gMute_Master_Value
    clockSource,    \* gClockSource_Value
    now,            \* frames since gDevice_AnchorHostTime
    run,            \* buffers allocated so far
    reader,         \* the cycle that reads the microphone
    writer,         \* the cycle that writes the feed
    written,        \* the blocks of this run that are in the ring
    crossed         \* the flag was stored across a write in progress

bufferVars == <<ring, lastOutput, isBufferClear>>
clockVars == <<stamps, previousTicks>>
cycleVars == <<reader, writer, written, crossed>>
ioVars == <<running, bufferVars, clockVars, muted, clockSource, now, run,
            cycleVars>>

Sides == {"Device", "Device2"}
Slots == 0..(RingFrames - 1)
Blocks == {t \in 0..MaxTime : t % BlockFrames = 0}
Silence == [run |-> 0, time |-> 0]
Frame(r, t) == [run |-> r, time |-> t]
Frames == [run : 0..MaxRuns, time : 0..(MaxTime + BlockFrames)]
NoRing == [s \in {} |-> Silence]
Cleared == [s \in Slots |-> Silence]
InBlock == 0..(BlockFrames - 1)

Idle == [at |-> "idle", time |-> -BlockFrames]
Resting == [left |-> {}, time |-> 0]
Wiping == {"wiping", "flagging"}

IoTypeOK ==
    /\ running \in [Sides -> 0..MaxClients]
    /\ ring = NoRing \/ ring \in [Slots -> Frames]
    /\ lastOutput \in 0..(MaxTime + BlockFrames) /\ isBufferClear \in BOOLEAN
    /\ stamps \in 0..MaxTime /\ previousTicks \in 0..MaxTime
    /\ muted \in BOOLEAN /\ clockSource \in 0..1
    /\ now \in 0..MaxTime /\ run \in 0..MaxRuns
    /\ reader \in [at : {"idle", "copying", "wiping", "flagging"},
                   time : (-BlockFrames)..MaxTime]
    /\ writer \in [left : SUBSET {"copy", "last", "flag"}, time : 0..MaxTime]
    /\ written \in SUBSET (0..MaxTime) /\ crossed \in BOOLEAN

IoInit ==
    /\ running = [d \in Sides |-> 0]
    /\ ring = NoRing /\ lastOutput = 0 /\ isBufferClear = TRUE
    /\ stamps = 0 /\ previousTicks = 0
    /\ muted = FALSE /\ clockSource = 0
    /\ now = 0 /\ run = 0
    /\ reader = Idle /\ writer = Resting
    /\ written = {} /\ crossed = FALSE

-----------------------------------------------------------------------------
NobodyRuns(counts) == \A d \in Sides : counts[d] = 0

\* A client starts.  The first one of all gets a silent buffer and restarts
\* the clock; what DoIOOperation remembers in its statics is kept.
StartIO(d) ==
    /\ running[d] < MaxClients
    /\ running' = [running EXCEPT ![d] = @ + 1]
    /\ IF ring = NoRing
       THEN /\ run < MaxRuns
            /\ ring' = Cleared
            /\ stamps' = 0 /\ previousTicks' = 0
            /\ run' = run + 1 /\ now' = 0
            /\ reader' = Idle /\ writer' = Resting /\ written' = {}
       ELSE UNCHANGED <<ring, clockVars, run, now, reader, writer, written>>
    /\ UNCHANGED <<lastOutput, isBufferClear, muted, clockSource, crossed>>

\* The buffer goes when nobody is left on either device.
\* MUTANT: each device looks at its own clients only.
FreesOwn(d) == running[d] = 1
Frees(d) == NobodyRuns([running EXCEPT ![d] = @ - 1])

InCycle(d) ==
    IF d = "Device" THEN reader.at # "idle" ELSE writer.left # {}

\* A client stops.  The HAL has ended the cycle of a device before it stops
\* its last client.
StopIO(d) ==
    /\ running[d] > 0
    /\ running[d] = 1 => ~InCycle(d)
    /\ running' = [running EXCEPT ![d] = @ - 1]
    /\ ring' = IF Frees(d) THEN NoRing ELSE ring
    /\ UNCHANGED <<lastOutput, isBufferClear, clockVars, muted, clockSource,
                   now, run, cycleVars>>

-----------------------------------------------------------------------------
TicksPerRing == IF clockSource > 0 THEN AdjustedPeriod ELSE Period
\* MUTANT: the offset is counted from the anchor, with the period of the moment.
CountedTickOffset == (stamps + 1) * TicksPerRing
NextTickOffset == previousTicks + TicksPerRing

\* One period further when that moment has come, never more.
GetZeroTimeStamp ==
    /\ ~NobodyRuns(running)
    /\ NextTickOffset <= now
    /\ stamps' = stamps + 1
    /\ previousTicks' = NextTickOffset
    /\ UNCHANGED <<running, bufferVars, muted, clockSource, now, run,
                   cycleVars>>

\* A frame passes.  A cycle under way ends in time: a write by the end of
\* the block it is for, a read within a block's length of its own.
TimePasses ==
    /\ ~NobodyRuns(running)
    /\ now < MaxTime
    /\ writer.left # {} => now < writer.time + BlockFrames
    /\ reader.at # "idle" => now + 1 < reader.time + 2 * BlockFrames
    /\ now' = now + 1
    /\ UNCHANGED <<running, bufferVars, clockVars, muted, clockSource, run,
                   cycleVars>>

SetMute ==
    /\ muted' = ~muted
    /\ UNCHANGED <<running, bufferVars, clockVars, clockSource, now, run,
                   cycleVars>>

SetClockSource ==
    /\ clockSource' = 1 - clockSource
    /\ UNCHANGED <<running, bufferVars, clockVars, muted, now, run, cycleVars>>

-----------------------------------------------------------------------------
\* The place of frame i of the block for time t: the part that fits before
\* the end of the ring, then the rest from its beginning.
\* MUTANT: the second part keeps the index of the frame.
UnshiftedPlace(t, i) ==
    LET start == t % RingFrames
        firstPart == RingFrames - start
    IN  IF i < firstPart THEN start + i ELSE i

Place(t, i) ==
    LET start == t % RingFrames
        firstPart == RingFrames - start
    IN  IF i < firstPart THEN start + i ELSE i - firstPart

\* Nothing is played into the feed for this block.
NothingToPlay(t) == lastOutput - BlockFrames < t

\* The input of a cycle has just passed.
ReadBegins(t) ==
    /\ running["Device"] > 0 /\ reader.at = "idle"
    /\ t > reader.time
    /\ t + BlockFrames <= now /\ now < t + 2 * BlockFrames
    /\ reader' =
         IF muted \/ NothingToPlay(t)
         THEN [at |-> IF isBufferClear THEN "idle" ELSE "wiping",
               time |-> t]
         ELSE [at |-> "copying", time |-> t]
    /\ crossed' = (crossed \/ (reader'.at = "wiping" /\ writer.left # {}))
    /\ UNCHANGED <<running, bufferVars, clockVars, muted, clockSource, now,
                   run, writer, written>>

\* What the copy under way takes for its frame i.
Heard(i) == ring[Place(reader.time, i)]

ReadCopies ==
    /\ reader.at = "copying"
    /\ reader' = [reader EXCEPT !.at = "idle"]
    /\ UNCHANGED <<running, bufferVars, clockVars, muted, clockSource, now,
                   run, writer, written, crossed>>

\* The ring is cleared first, the flag says so afterwards.
ReadWipes ==
    /\ reader.at = "wiping"
    /\ ring' = Cleared
    /\ reader' = [reader EXCEPT !.at = "flagging"]
    /\ UNCHANGED <<running, lastOutput, isBufferClear, clockVars, muted,
                   clockSource, now, run, writer, written, crossed>>

ReadFlags ==
    /\ reader.at = "flagging"
    /\ isBufferClear' = TRUE
    /\ reader' = [reader EXCEPT !.at = "idle"]
    /\ UNCHANGED <<running, ring, lastOutput, clockVars, muted, clockSource,
                   now, run, writer, written, crossed>>

\* The output of a cycle begins within a block's length; a cycle that comes later than
\* the end of its block is refused, and its block never written.
WriteBegins(t) ==
    /\ running["Device2"] > 0 /\ writer.left = {}
    /\ t > writer.time \/ written = {}
    /\ t <= now + BlockFrames
    /\ ~(now > t + BlockFrames)
    /\ writer' = [left |-> {"copy", "last", "flag"}, time |-> t]
    /\ crossed' = (reader.at \in Wiping)
    /\ UNCHANGED <<running, bufferVars, clockVars, muted, clockSource, now,
                   run, reader, written>>

\* The samples and the two words stored after them become visible in any
\* order: nothing orders them for a reader without a lock.
WriteCopies ==
    /\ "copy" \in writer.left
    /\ ring' = [s \in Slots |->
         IF \E i \in InBlock : s = Place(writer.time, i)
         THEN Frame(run, writer.time + CHOOSE i \in InBlock :
                                           s = Place(writer.time, i))
         ELSE ring[s]]
    /\ writer' = [writer EXCEPT !.left = @ \ {"copy"}]
    /\ written' = written \cup {writer.time}
    /\ UNCHANGED <<running, lastOutput, isBufferClear, clockVars, muted,
                   clockSource, now, run, reader, crossed>>

WriteStoresLast ==
    /\ "last" \in writer.left
    /\ lastOutput' = writer.time + BlockFrames
    /\ writer' = [writer EXCEPT !.left = @ \ {"last"}]
    /\ UNCHANGED <<running, ring, isBufferClear, clockVars, muted,
                   clockSource, now, run, reader, written, crossed>>

\* MUTANT: the write leaves the flag.
WriteStoresNoFlag ==
    /\ "flag" \in writer.left
    /\ writer' = [writer EXCEPT !.left = @ \ {"flag"}]
    /\ UNCHANGED <<running, bufferVars, clockVars, muted, clockSource, now,
                   run, reader, written, crossed>>

WriteStoresFlag ==
    /\ "flag" \in writer.left
    /\ isBufferClear' = FALSE
    /\ writer' = [writer EXCEPT !.left = @ \ {"flag"}]
    /\ UNCHANGED <<running, ring, lastOutput, clockVars, muted, clockSource,
                   now, run, reader, written, crossed>>

IoStep ==
    \/ \E d \in Sides : StartIO(d) \/ StopIO(d)
    \/ GetZeroTimeStamp \/ TimePasses
    \/ \E t \in Blocks : ReadBegins(t) \/ WriteBegins(t)
    \/ ReadCopies \/ ReadWipes \/ ReadFlags
    \/ WriteCopies \/ WriteStoresLast \/ WriteStoresFlag

IoNext == IoStep \/ SetMute \/ SetClockSource

IoSpec == IoInit /\ [][IoNext]_ioVars

-----------------------------------------------------------------------------
\* Whoever runs IO has a buffer, and a cycle under way runs on one: a stop of
\* one device never takes the ring from the other (StartIO, StopIO).
RingWhileRunning ==
    /\ ring = NoRing <=> NobodyRuns(running)
    /\ reader.at # "idle" \/ writer.left # {} => ring # NoRing

\* What an application hears at a sample time was played for exactly that
\* time in this run, or is silence; only a block the feed never delivered
\* may sound like something else (an earlier lap of the ring), and even then
\* never like another run (DoIOOperation).
HearsItsOwnTime ==
    reader.at = "copying" =>
      \A i \in InBlock :
        \/ Heard(i) \in {Silence, Frame(run, reader.time + i)}
        \/ reader.time \notin written /\ Heard(i).run = run

\* With both cycles at rest a buffer called clear is silent, unless a wipe
\* and a write crossed: the flag is what saves a pause in the speech from
\* replaying the ring (isBufferClear in DoIOOperation).
ClearMeansSilent ==
    ring # NoRing /\ isBufferClear /\ ~crossed
        /\ reader.at = "idle" /\ writer.left = {}
    => ring = Cleared

\* The clock of a run never goes back, never shows the future, and moves
\* both of its hands together, whatever happens to the clock source between
\* two calls (GetZeroTimeStamp).
ClockForward ==
    [][run' = run =>
         /\ stamps' - stamps \in {0, 1}
         /\ stamps' = stamps <=> previousTicks' = previousTicks
         /\ previousTicks' >= previousTicks
         /\ previousTicks' <= now']_ioVars

=============================================================================
