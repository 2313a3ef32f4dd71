---------------------------- MODULE DriverProofs ----------------------------
(***************************************************************************)
(* The driver for every size of ring and block with 4 * BlockFrames - 1 at *)
(* most RingFrames, every bound, every name of the box and every choice of *)
(* what moves.                                                             *)
(*                                                                         *)
(* First the audio path of DriverIO alone: the invariant of the ring, and  *)
(* what follows from it.  Then that invariant is kept through the steps of *)
(* the settings and through a restart of the host process, and the         *)
(* invariants of the settings are added.  Last, the answers: each property *)
(* of each object that there is gets a length and an answer that fit, of   *)
(* the tables in DriverTables; the lists among them are computed from the  *)
(* recursive function behind Only.                                         *)
(***************************************************************************)
EXTENDS Driver, SequenceTheorems, TLAPS

USE DEF Sides

\* A cycle runs only while its device does.
CyclesRun ==
    /\ reader.at # "idle" => running["Device"] > 0
    /\ writer.left # {} => running["Device2"] > 0

\* The clock's hands are not ahead of the time, nor of each other.
Clocked == stamps <= previousTicks /\ previousTicks <= now

LEMMA Constants ==
    /\ BlockFrames \in Nat /\ BlockFrames >= 1
    /\ RingFrames \in Nat /\ RingFrames >= 4 * BlockFrames - 1 /\ RingFrames >= 3
    /\ Period \in Nat /\ Period >= 1 /\ AdjustedPeriod \in Nat /\ AdjustedPeriod >= 1
    /\ MaxTime \in Nat /\ MaxRuns \in Nat /\ MaxClients \in Nat /\ MaxClients >= 1
BY IoAssumption

LEMMA ClearedIsARing == Cleared # NoRing /\ Cleared \in [Slots -> Frames]
<1>1. 0 \in Slots
  BY Constants DEF Slots
<1>2. 0 \in DOMAIN Cleared
  BY <1>1 DEF Cleared
<1>3. DOMAIN NoRing = {}
  BY DEF NoRing
<1>4. Silence \in Frames
  BY Constants DEF Silence, Frames
<1> QED BY <1>2, <1>3, <1>4 DEF Cleared

\* Division with remainder.
LEMMA DivMod ==
    ASSUME NEW n \in Int, n > 0, NEW x \in Int
    PROVE  /\ x \div n \in Int /\ x % n \in Int
           /\ x = n * (x \div n) + (x % n)
           /\ 0 <= x % n /\ x % n < n
OBVIOUS

\* Numbers with the same remainder are equal or a divisor apart.
LEMMA SameRemainder ==
    ASSUME NEW n \in Int, n > 0, NEW x \in Int, NEW y \in Int,
           x % n = y % n, x < y
    PROVE  x + n <= y
<1> DEFINE q == x \div n
           p == y \div n
<1>1. q \in Int /\ p \in Int /\ y - x = n * p - n * q
  <2>1. q \in Int /\ x = n * q + (x % n) /\ x % n \in Int
    BY DivMod
  <2>2. p \in Int /\ y = n * p + (y % n)
    BY DivMod
  <2> HIDE DEF q, p
  <2> QED BY <2>1, <2>2
<1> HIDE DEF q, p
<1>2. q < p
  <2> SUFFICES ASSUME p <= q PROVE FALSE
    BY <1>1
  <2>1. n * p <= n * q
    BY <1>1
  <2> QED BY <1>1, <2>1
<1>3. n * p >= n * (q + 1)
  BY <1>1, <1>2
<1>4. n * (q + 1) = n * q + n
  BY <1>1
<1> QED BY <1>1, <1>3, <1>4

LEMMA RemainderOfSum ==
    ASSUME NEW n \in Int, n > 0, NEW q \in Int, NEW r \in 0..(n - 1)
    PROVE  (n * q + r) % n = r
OBVIOUS

\* The place of a frame is the remainder of its time.
LEMMA PlaceIsRemainder ==
    ASSUME NEW t \in Nat, NEW i \in InBlock
    PROVE  Place(t, i) = (t + i) % RingFrames
<1> DEFINE n == RingFrames
           q == t \div n
           r == t % n
<1>1. n \in Int /\ n > 0 /\ i \in 0..(n - 1)
  BY Constants DEF InBlock
<1>2. q \in Int /\ r \in Int /\ t = n * q + r /\ 0 <= r /\ r < n
  BY <1>1, DivMod
<1>3. Place(t, i) = IF i < n - r THEN r + i ELSE i - (n - r)
  BY DEF Place
<1> HIDE DEF n, q, r
<1>4. CASE i < n - r
  <2>1. t + i = n * q + (r + i) /\ r + i \in 0..(n - 1)
    BY <1>1, <1>2, <1>4
  <2>2. (n * q + (r + i)) % n = r + i
    BY <1>1, <1>2, <2>1, RemainderOfSum
  <2> QED BY <1>3, <1>4, <2>1, <2>2 DEF n
<1>5. CASE ~(i < n - r)
  <2>1. n * (q + 1) = n * q + n
    BY <1>1, <1>2
  <2>2. t + i = n * (q + 1) + (i - (n - r)) /\ i - (n - r) \in 0..(n - 1)
    BY <1>1, <1>2, <1>5, <2>1
  <2>3. PICK p \in Int : p = q + 1
    BY <1>2
  <2>4. PICK k \in 0..(n - 1) : k = i - (n - r)
    BY <2>2
  <2>5. (n * p + k) % n = k
    BY <1>1, RemainderOfSum
  <2> QED BY <1>3, <1>5, <2>2, <2>3, <2>4, <2>5 DEF n
<1> QED BY <1>4, <1>5

LEMMA PlaceInRing ==
    ASSUME NEW t \in Nat, NEW i \in InBlock
    PROVE  Place(t, i) \in Slots
<1>1. t + i \in Int /\ RingFrames \in Int /\ RingFrames > 0
  BY Constants DEF InBlock
<1>2. (t + i) % RingFrames \in 0..(RingFrames - 1)
  BY <1>1, DivMod
<1> QED BY <1>2, PlaceIsRemainder DEF Slots

\* Two frames in one place are the same frame or a whole lap apart.
LEMMA SamePlace ==
    ASSUME NEW t \in Nat, NEW i \in InBlock, NEW u \in Nat, NEW j \in InBlock,
           Place(t, i) = Place(u, j), t + i < u + j
    PROVE  t + i + RingFrames <= u + j
<1>1. /\ t + i \in Int /\ u + j \in Int
      /\ RingFrames \in Int /\ RingFrames > 0
  BY Constants DEF InBlock
<1>2. (t + i) % RingFrames = (u + j) % RingFrames
  BY PlaceIsRemainder
<1>3. (t + i) + RingFrames <= u + j
  BY <1>1, <1>2, SameRemainder
<1> QED BY <1>3

\* Blocks do not overlap.
LEMMA BlocksApart ==
    ASSUME NEW t \in Blocks, NEW u \in Blocks, t < u
    PROVE  t + BlockFrames <= u
<1>1. t \in Int /\ u \in Int /\ t % BlockFrames = u % BlockFrames
  BY Constants DEF Blocks
<1> QED BY <1>1, SameRemainder, Constants

-----------------------------------------------------------------------------
\* What the ring holds: frames of written blocks, each in its place, and none
\* older than one that was written there.
OfABlock(s, f) ==
    \E t \in written, i \in InBlock : f = Frame(run, t + i) /\ s = Place(t, i)

Contents ==
    ring # NoRing =>
      /\ \A s \in Slots : ring[s] = Silence \/ OfABlock(s, ring[s])
      /\ \A t \in written, i \in InBlock :
           ring[Place(t, i)] = Silence \/ t + i <= ring[Place(t, i)].time

\* The blocks are written in order, the last of them at most a block ahead.
InOrder ==
    /\ written \subseteq Blocks
    /\ \A t \in written : t <= writer.time
    /\ "copy" \in writer.left => writer.time \notin written
    /\ written # {} \/ writer.left # {} => writer.time <= now + BlockFrames
    /\ writer.left # {} => writer.time \in Blocks

\* A read ends within a block's length.
ReadsInTime ==
    reader.at # "idle" => reader.time \in Blocks /\ now < reader.time + 2 * BlockFrames

\* What the flag says while the cycles run.
FlagKept ==
    ring # NoRing /\ ~crossed =>
      /\ reader.at \in Wiping => writer.left = {}
      /\ reader.at = "flagging" => ring = Cleared
      /\ isBufferClear => ring = Cleared \/ "flag" \in writer.left
      /\ writer.left # {} /\ isBufferClear => "flag" \in writer.left

IoInv ==
    /\ IoTypeOK /\ RingWhileRunning /\ CyclesRun /\ Clocked
    /\ InOrder /\ ReadsInTime /\ Contents /\ FlagKept

-----------------------------------------------------------------------------
LEMMA RestTypes ==
    /\ Idle \in [at : {"idle", "copying", "wiping", "flagging"}, time : (-BlockFrames)..MaxTime]
    /\ Resting \in [left : SUBSET {"copy", "last", "flag"}, time : 0..MaxTime]
BY Constants DEF Idle, Resting

LEMMA InitIoInv == IoInit => IoInv
<1> SUFFICES ASSUME IoInit PROVE IoInv
  OBVIOUS
<1> USE Constants DEF IoInit
<1>1. IoTypeOK
  <2>1. running \in [Sides -> 0..MaxClients] /\ lastOutput \in 0..(MaxTime + BlockFrames)
    OBVIOUS
  <2>2. stamps \in 0..MaxTime /\ previousTicks \in 0..MaxTime /\ clockSource \in 0..1
        /\ now \in 0..MaxTime /\ run \in 0..MaxRuns
    OBVIOUS
  <2> QED BY <2>1, <2>2, RestTypes DEF IoTypeOK
<1>2. RingWhileRunning /\ CyclesRun /\ Clocked
  BY DEF RingWhileRunning, CyclesRun, Clocked, NobodyRuns, Idle, Resting
<1>3. InOrder /\ ReadsInTime
  BY DEF InOrder, ReadsInTime, Idle, Resting
<1>4. Contents /\ FlagKept
  BY DEF Contents, FlagKept
<1> QED BY <1>1, <1>2, <1>3, <1>4 DEF IoInv

\* Types.
LEMMA TypeStep ==
    ASSUME IoTypeOK, RingWhileRunning, Clocked, IoNext
    PROVE  IoTypeOK'
<1> USE Constants DEF IoTypeOK, bufferVars, clockVars, cycleVars
<1>1. ASSUME NEW d \in Sides, StartIO(d) PROVE IoTypeOK'
  <2>1. running' \in [Sides -> 0..MaxClients]
    BY <1>1 DEF StartIO
  <2>2. CASE ring = NoRing
    BY <1>1, <2>1, <2>2, ClearedIsARing, RestTypes DEF StartIO
  <2>3. CASE ring # NoRing
    BY <1>1, <2>1, <2>3 DEF StartIO
  <2> QED BY <2>2, <2>3
<1>2. ASSUME NEW d \in Sides, StopIO(d) PROVE IoTypeOK'
  BY <1>2 DEF StopIO
<1>3. CASE GetZeroTimeStamp
  BY <1>3 DEF GetZeroTimeStamp, NextTickOffset, TicksPerRing, Clocked
<1>4. CASE TimePasses
  BY <1>4 DEF TimePasses
<1>5. ASSUME NEW t \in Blocks, ReadBegins(t) PROVE IoTypeOK'
  BY <1>5 DEF ReadBegins, Blocks
<1>6. ASSUME NEW t \in Blocks, WriteBegins(t) PROVE IoTypeOK'
  BY <1>6 DEF WriteBegins, Blocks
<1>7. CASE ReadCopies \/ ReadFlags
  BY <1>7 DEF ReadCopies, ReadFlags
<1>8. CASE ReadWipes
  BY <1>8, ClearedIsARing DEF ReadWipes
<1>9. CASE WriteCopies
  <2>1. ASSUME NEW i \in InBlock PROVE Frame(run, writer.time + i) \in Frames
    BY DEF Frame, Frames, InBlock
  <2>2. ring' \in [Slots -> Frames]
    <3>1. ring \in [Slots -> Frames]
      BY <1>9 DEF WriteCopies, RingWhileRunning
    <3>2. ASSUME NEW s \in Slots, \E i \in InBlock : s = Place(writer.time, i)
          PROVE  (CHOOSE i \in InBlock : s = Place(writer.time, i)) \in InBlock
      BY <3>2
    <3>3. ASSUME NEW s \in Slots PROVE ring'[s] \in Frames
      BY <1>9, <2>1, <3>1, <3>2 DEF WriteCopies
    <3> QED BY <1>9, <3>3 DEF WriteCopies
  <2> QED BY <1>9, <2>2 DEF WriteCopies
<1>10. CASE WriteStoresLast
  <2>1. lastOutput' \in 0..(MaxTime + BlockFrames)
    BY <1>10 DEF WriteStoresLast
  <2>2. writer' \in [left : SUBSET {"copy", "last", "flag"}, time : 0..MaxTime]
    BY <1>10 DEF WriteStoresLast
  <2> QED BY <1>10, <2>1, <2>2 DEF WriteStoresLast
<1>11. CASE WriteStoresFlag
  <2>1. writer' \in [left : SUBSET {"copy", "last", "flag"}, time : 0..MaxTime]
    BY <1>11 DEF WriteStoresFlag
  <2> QED BY <1>11, <2>1 DEF WriteStoresFlag
<1>12. CASE SetMute
  <2>1. muted' \in BOOLEAN
    BY <1>12 DEF SetMute
  <2> QED BY <1>12, <2>1 DEF SetMute
<1>13. CASE SetClockSource
  BY <1>13 DEF SetClockSource
<1> QED BY <1>1, <1>2, <1>3, <1>4, <1>5, <1>6, <1>7, <1>8, <1>9, <1>10, <1>11,
        <1>12, <1>13
        DEF IoNext, IoStep

\* The ring is there while anybody runs, and the cycles have ended before.
LEMMA RunningStep ==
    ASSUME IoTypeOK, RingWhileRunning, CyclesRun, IoNext
    PROVE  RingWhileRunning' /\ CyclesRun'
<1> USE Constants DEF IoTypeOK, RingWhileRunning, CyclesRun, NobodyRuns, bufferVars,
                      clockVars, cycleVars
<1>1. ASSUME NEW d \in Sides, StartIO(d) PROVE RingWhileRunning' /\ CyclesRun'
  <2>1. running'[d] > 0 /\ \A e \in Sides : running'[e] >= running[e]
    BY <1>1 DEF StartIO
  <2>2. ring' # NoRing
    BY <1>1, ClearedIsARing DEF StartIO
  <2>3. CASE ring = NoRing
    BY <1>1, <2>1, <2>2, <2>3 DEF StartIO, Idle, Resting
  <2>4. CASE ring # NoRing
    BY <1>1, <2>1, <2>2, <2>4 DEF StartIO
  <2> QED BY <2>3, <2>4
<1>2. ASSUME NEW d \in Sides, StopIO(d) PROVE RingWhileRunning' /\ CyclesRun'
  <2>1. running' = [running EXCEPT ![d] = @ - 1] /\ UNCHANGED <<reader, writer>>
    BY <1>2 DEF StopIO
  <2>2. /\ reader.at # "idle" => running'["Device"] > 0
        /\ writer.left # {} => running'["Device2"] > 0
    BY <1>2, <2>1 DEF StopIO, InCycle
  <2>3. ring' = NoRing <=> NobodyRuns(running')
    <3>1. Frees(d) <=> NobodyRuns(running')
      BY <2>1 DEF Frees
    <3>2. ring # NoRing
      BY <1>2 DEF StopIO
    <3> QED BY <1>2, <3>1, <3>2 DEF StopIO
  <2> QED BY <2>1, <2>2, <2>3
<1>3. CASE GetZeroTimeStamp \/ TimePasses
  BY <1>3 DEF GetZeroTimeStamp, TimePasses
<1>4. ASSUME NEW t \in Blocks, ReadBegins(t) \/ WriteBegins(t)
      PROVE  RingWhileRunning' /\ CyclesRun'
  BY <1>4 DEF ReadBegins, WriteBegins
<1>5. CASE ReadCopies \/ ReadFlags
  BY <1>5 DEF ReadCopies, ReadFlags
<1>6. CASE ReadWipes
  BY <1>6, ClearedIsARing DEF ReadWipes
<1>7. CASE WriteCopies
  <2>1. ring' # NoRing
    <3>1. 0 \in DOMAIN ring'
      BY <1>7 DEF WriteCopies, Slots
    <3>2. DOMAIN NoRing = {}
      BY DEF NoRing
    <3> QED BY <3>1, <3>2
  <2> QED BY <1>7, <2>1 DEF WriteCopies
<1>8. CASE WriteStoresLast \/ WriteStoresFlag
  BY <1>8 DEF WriteStoresLast, WriteStoresFlag
<1>9. CASE SetMute \/ SetClockSource
  BY <1>9 DEF SetMute, SetClockSource
<1> QED BY <1>1, <1>2, <1>3, <1>4, <1>5, <1>6, <1>7, <1>8, <1>9 DEF IoNext, IoStep

\* The hands of the clock and the time.
LEMMA ClockStepOK ==
    ASSUME IoTypeOK, Clocked, IoNext
    PROVE  Clocked'
<1> USE Constants DEF IoTypeOK, Clocked, bufferVars, clockVars, cycleVars
<1>1. ASSUME NEW d \in Sides, StartIO(d) \/ StopIO(d) PROVE Clocked'
  BY <1>1 DEF StartIO, StopIO
<1>2. CASE GetZeroTimeStamp
  BY <1>2 DEF GetZeroTimeStamp, NextTickOffset, TicksPerRing
<1>3. CASE TimePasses
  BY <1>3 DEF TimePasses
<1>4. ASSUME NEW t \in Blocks, ReadBegins(t) \/ WriteBegins(t) PROVE Clocked'
  BY <1>4 DEF ReadBegins, WriteBegins
<1>5. CASE \/ ReadCopies \/ ReadWipes \/ ReadFlags
           \/ WriteCopies \/ WriteStoresLast \/ WriteStoresFlag
  BY <1>5 DEF ReadCopies, ReadWipes, ReadFlags, WriteCopies, WriteStoresLast,
              WriteStoresFlag
<1>6. CASE SetMute \/ SetClockSource
  BY <1>6 DEF SetMute, SetClockSource
<1> QED BY <1>1, <1>2, <1>3, <1>4, <1>5, <1>6 DEF IoNext, IoStep

\* Blocks are read and written in their time.
LEMMA OrderStep ==
    ASSUME IoTypeOK, InOrder, ReadsInTime, IoNext
    PROVE  InOrder' /\ ReadsInTime'
<1> USE Constants DEF IoTypeOK, InOrder, ReadsInTime, bufferVars, clockVars, cycleVars
<1>1. ASSUME NEW d \in Sides, StartIO(d) PROVE InOrder' /\ ReadsInTime'
  <2>1. CASE ring = NoRing
    BY <1>1, <2>1 DEF StartIO, Idle, Resting
  <2>2. CASE ring # NoRing
    <3>1. UNCHANGED <<now, reader, writer, written>>
      BY <1>1, <2>2 DEF StartIO
    <3> QED BY <3>1
  <2> QED BY <2>1, <2>2
<1>2. ASSUME NEW d \in Sides, StopIO(d) PROVE InOrder' /\ ReadsInTime'
  BY <1>2 DEF StopIO
<1>3. CASE GetZeroTimeStamp
  BY <1>3 DEF GetZeroTimeStamp
<1>4. CASE TimePasses
  BY <1>4 DEF TimePasses
<1>5. ASSUME NEW t \in Blocks, ReadBegins(t) PROVE InOrder' /\ ReadsInTime'
  BY <1>5 DEF ReadBegins
<1>6. ASSUME NEW t \in Blocks, WriteBegins(t) PROVE InOrder' /\ ReadsInTime'
  BY <1>6 DEF WriteBegins, Blocks
<1>7. CASE ReadCopies \/ ReadWipes \/ ReadFlags
  BY <1>7 DEF ReadCopies, ReadWipes, ReadFlags
<1>8. CASE WriteCopies
  BY <1>8 DEF WriteCopies
<1>9. CASE WriteStoresLast \/ WriteStoresFlag
  BY <1>9 DEF WriteStoresLast, WriteStoresFlag
<1>10. CASE SetMute \/ SetClockSource
  BY <1>10 DEF SetMute, SetClockSource
<1> QED BY <1>1, <1>2, <1>3, <1>4, <1>5, <1>6, <1>7, <1>8, <1>9, <1>10
        DEF IoNext, IoStep

\* The contents of the ring.
LEMMA Unmoved ==
    ASSUME Contents, UNCHANGED <<ring, written, run>>
    PROVE  Contents'
BY DEF Contents, OfABlock

\* A write puts each frame of its block in its place, and leaves the rest.
LEMMA Written ==
    ASSUME IoTypeOK, RingWhileRunning, InOrder, WriteCopies, NEW s \in Slots
    PROVE  \/ /\ \A i \in InBlock : s # Place(writer.time, i)
              /\ ring'[s] = ring[s]
           \/ \E i \in InBlock : /\ s = Place(writer.time, i)
                                 /\ ring'[s] = Frame(run, writer.time + i)
<1>1. CASE \A i \in InBlock : s # Place(writer.time, i)
  BY <1>1 DEF WriteCopies
<1>2. CASE \E i \in InBlock : s = Place(writer.time, i)
  <2> DEFINE j == CHOOSE i \in InBlock : s = Place(writer.time, i)
  <2>1. j \in InBlock /\ s = Place(writer.time, j)
    BY <1>2, Zenon
  <2>2. ring' = [x \in Slots |->
                  IF \E i \in InBlock : x = Place(writer.time, i)
                  THEN Frame(run, writer.time + CHOOSE i \in InBlock :
                                                    x = Place(writer.time, i))
                  ELSE ring[x]]
    BY DEF WriteCopies
  <2>3. ring'[s] = Frame(run, writer.time + j)
    BY <1>2, <2>2, Zenon
  <2> HIDE DEF j
  <2> QED BY <2>1, <2>3
<1> QED BY <1>1, <1>2

LEMMA WriteKeepsContents ==
    ASSUME IoTypeOK, RingWhileRunning, InOrder, Contents, WriteCopies
    PROVE  Contents'
<1> DEFINE W == writer.time
<1>1. ring # NoRing
  BY DEF RingWhileRunning, WriteCopies
<1>2. W \in Blocks /\ W \in Nat /\ written \subseteq Nat /\ written' = written \cup {W}
  BY Constants DEF WriteCopies, InOrder, IoTypeOK, Blocks
<1>3. UNCHANGED run
  BY DEF WriteCopies
<1> HIDE DEF W
<1>4. ASSUME NEW s \in Slots
      PROVE  (ring[s] = Silence \/ OfABlock(s, ring[s]))'
  <2>1. CASE ring'[s] = ring[s]
    BY <1>1, <1>2, <1>3, <2>1 DEF Contents, OfABlock
  <2>2. CASE \E i \in InBlock : s = Place(W, i) /\ ring'[s] = Frame(run, W + i)
    BY <1>2, <1>3, <2>2 DEF OfABlock
  <2> QED BY <2>1, <2>2, Written DEF W
<1>5. ASSUME NEW t \in written', NEW i \in InBlock
      PROVE  ring'[Place(t, i)] = Silence \/ t + i <= ring'[Place(t, i)].time
  <2> DEFINE s == Place(t, i)
  <2>1. t \in Nat /\ i \in Nat /\ s \in Slots
    BY <1>2, Constants, PlaceInRing DEF InBlock
  <2> HIDE DEF s
  <2>2. CASE ring'[s] = ring[s] /\ \A j \in InBlock : s # Place(W, j)
    <3>1. t \in written
      BY <1>2, <2>2 DEF s
    <3> QED BY <1>1, <2>2, <3>1 DEF Contents, s
  <2>3. CASE \E j \in InBlock : s = Place(W, j) /\ ring'[s] = Frame(run, W + j)
    <3>1. PICK j \in InBlock : s = Place(W, j) /\ ring'[s] = Frame(run, W + j)
      BY <2>3
    <3>2. j \in Nat /\ j < BlockFrames /\ i < BlockFrames /\ ring'[s].time = W + j
      BY <3>1, Constants DEF Frame, InBlock
    <3>3. t + i <= W + j
      <4>1. CASE t = W
        <5>1. ~(W + j < t + i)
          <6> SUFFICES ASSUME W + j < t + i PROVE FALSE
            OBVIOUS
          <6>1. W + j + RingFrames <= t + i
            BY <1>2, <2>1, <3>1, SamePlace DEF s
          <6> QED BY <1>2, <2>1, <3>2, <4>1, <6>1, Constants
        <5> QED BY <1>2, <2>1, <3>2, <5>1
      <4>2. CASE t # W
        <5>1. t \in Blocks /\ t < W
          BY <1>2, <4>2 DEF InOrder, W, IoTypeOK
        <5>2. t + BlockFrames <= W
          BY <1>2, <5>1, BlocksApart
        <5> QED BY <1>2, <2>1, <3>2, <5>2, Constants
      <4> QED BY <4>1, <4>2
    <3> QED BY <3>2, <3>3 DEF s
  <2> QED BY <2>1, <2>2, <2>3, Written DEF W, s
<1> QED BY <1>4, <1>5 DEF Contents

LEMMA ContentsStep ==
    ASSUME IoTypeOK, RingWhileRunning, InOrder, Contents, IoNext
    PROVE  Contents'
<1> USE DEF bufferVars, clockVars, cycleVars
<1>1. ASSUME NEW d \in Sides, StartIO(d) PROVE Contents'
  <2>1. CASE ring = NoRing
    <3>1. ring' = Cleared /\ written' = {}
      BY <1>1, <2>1 DEF StartIO
    <3> QED BY <3>1 DEF Contents, Cleared
  <2>2. CASE ring # NoRing
    BY <1>1, <2>2, Unmoved DEF StartIO
  <2> QED BY <2>1, <2>2
<1>2. ASSUME NEW d \in Sides, StopIO(d) PROVE Contents'
  <2>1. CASE ring' = NoRing
    BY <2>1 DEF Contents
  <2>2. CASE ring' = ring
    BY <1>2, <2>2, Unmoved DEF StopIO
  <2> QED BY <1>2, <2>1, <2>2 DEF StopIO
<1>3. ASSUME NEW t \in Blocks, ReadBegins(t) \/ WriteBegins(t) PROVE Contents'
  BY <1>3, Unmoved DEF ReadBegins, WriteBegins
<1>4. CASE \/ GetZeroTimeStamp \/ TimePasses \/ ReadCopies \/ ReadFlags
           \/ WriteStoresLast \/ WriteStoresFlag \/ SetMute \/ SetClockSource
  BY <1>4, Unmoved DEF GetZeroTimeStamp, TimePasses, ReadCopies, ReadFlags,
                       WriteStoresLast, WriteStoresFlag, SetMute, SetClockSource
<1>5. CASE ReadWipes
  <2>1. ring' = Cleared /\ written' = written /\ written \subseteq Nat
    BY <1>5, Constants DEF ReadWipes, IoTypeOK
  <2>2. \A t \in written, i \in InBlock : Place(t, i) \in Slots
    BY <2>1, PlaceInRing
  <2> QED BY <2>1, <2>2 DEF Contents, Cleared
<1>6. CASE WriteCopies
  BY <1>6, WriteKeepsContents
<1> QED BY <1>1, <1>2, <1>3, <1>4, <1>5, <1>6 DEF IoNext, IoStep

\* The flag.
LEMMA FlagStep ==
    ASSUME IoTypeOK, RingWhileRunning, FlagKept, IoNext
    PROVE  FlagKept'
<1> USE DEF FlagKept, Wiping, bufferVars, clockVars, cycleVars
<1>1. ASSUME NEW d \in Sides, StartIO(d) PROVE FlagKept'
  <2>1. CASE ring = NoRing
    BY <1>1, <2>1 DEF StartIO, Idle, Resting
  <2>2. CASE ring # NoRing
    BY <1>1, <2>2 DEF StartIO
  <2> QED BY <2>1, <2>2
<1>2. ASSUME NEW d \in Sides, StopIO(d) PROVE FlagKept'
  BY <1>2 DEF StopIO
<1>3. CASE GetZeroTimeStamp \/ TimePasses \/ SetMute \/ SetClockSource
  BY <1>3 DEF GetZeroTimeStamp, TimePasses, SetMute, SetClockSource
<1>4. ASSUME NEW t \in Blocks, ReadBegins(t) PROVE FlagKept'
  BY <1>4 DEF ReadBegins
<1>5. ASSUME NEW t \in Blocks, WriteBegins(t) PROVE FlagKept'
  BY <1>5 DEF WriteBegins
<1>6. CASE ReadCopies
  BY <1>6 DEF ReadCopies, IoTypeOK
<1>7. CASE ReadWipes
  BY <1>7 DEF ReadWipes, IoTypeOK, RingWhileRunning
<1>8. CASE ReadFlags
  BY <1>8 DEF ReadFlags, IoTypeOK
<1>9. CASE WriteCopies
  BY <1>9 DEF WriteCopies, IoTypeOK, RingWhileRunning
<1>10. CASE WriteStoresLast
  BY <1>10 DEF WriteStoresLast, IoTypeOK
<1>11. CASE WriteStoresFlag
  BY <1>11 DEF WriteStoresFlag, IoTypeOK
<1> QED BY <1>1, <1>2, <1>3, <1>4, <1>5, <1>6, <1>7, <1>8, <1>9, <1>10, <1>11
        DEF IoNext, IoStep

LEMMA StutterIoInv == IoInv /\ UNCHANGED ioVars => IoInv'
<1> SUFFICES ASSUME IoInv, UNCHANGED ioVars PROVE IoInv'
  OBVIOUS
<1> USE DEF IoInv, ioVars, bufferVars, clockVars, cycleVars
<1>1. IoTypeOK' /\ RingWhileRunning' /\ CyclesRun' /\ Clocked'
  BY DEF IoTypeOK, RingWhileRunning, NobodyRuns, CyclesRun, Clocked
<1>2. InOrder' /\ ReadsInTime' /\ FlagKept'
  BY DEF InOrder, ReadsInTime, FlagKept
<1> QED BY <1>1, <1>2, Unmoved

LEMMA IoInvStep == IoInv /\ [IoNext]_ioVars => IoInv'
BY StutterIoInv, TypeStep, RunningStep, ClockStepOK, OrderStep, ContentsStep, FlagStep
   DEF IoInv

-----------------------------------------------------------------------------
\* What an application hears: if the block was written, its frames are where
\* the reader looks, and no later lap can have reached them yet.
LEMMA HeardInTime == IoInv => HearsItsOwnTime
<1> SUFFICES ASSUME IoInv, reader.at = "copying", NEW i \in InBlock
             PROVE  \/ Heard(i) \in {Silence, Frame(run, reader.time + i)}
                    \/ reader.time \notin written /\ Heard(i).run = run
  BY DEF HearsItsOwnTime
<1> DEFINE t == reader.time
           s == Place(t, i)
<1>1. /\ t \in Nat /\ now < t + 2 * BlockFrames /\ now \in Nat
      /\ i \in Nat /\ i < BlockFrames
  BY Constants DEF IoInv, IoTypeOK, ReadsInTime, Blocks, InBlock
<1>2. s \in Slots /\ ring # NoRing
  BY <1>1, PlaceInRing DEF IoInv, RingWhileRunning
<1>3. CASE ring[s] = Silence
  BY <1>3 DEF Heard
<1>4. CASE ring[s] # Silence
  <2>1. PICK u \in written, j \in InBlock : ring[s] = Frame(run, u + j) /\ s = Place(u, j)
    BY <1>2, <1>4 DEF IoInv, Contents, OfABlock
  <2>2. Heard(i).run = run /\ ring[s].time = u + j
    BY <2>1 DEF Heard, Frame
  <2>3. CASE t \notin written
    BY <2>2, <2>3
  <2>4. CASE t \in written
    <3>1. t + i <= u + j
      BY <1>2, <1>4, <2>2, <2>4 DEF IoInv, Contents
    <3>2. u \in Nat /\ j \in Nat /\ j < BlockFrames /\ u <= now + BlockFrames
      <4>1. u \in Nat /\ u <= writer.time /\ writer.time <= now + BlockFrames
            /\ writer.time \in Nat
        BY <2>1, Constants DEF IoInv, InOrder, IoTypeOK
      <4> QED BY <1>1, <4>1, Constants DEF InBlock
    <3>3. ~(t + i + RingFrames <= u + j)
      BY <1>1, <3>2, Constants
    <3>4. t + i = u + j
      <4>1. ~(t + i < u + j)
        BY <1>1, <2>1, <3>2, <3>3, SamePlace
      <4> QED BY <1>1, <3>1, <3>2, <4>1
    <3> QED BY <2>1, <3>4 DEF Heard
  <2> QED BY <2>3, <2>4
<1> QED BY <1>3, <1>4

LEMMA SilentWhenClear == IoInv => ClearMeansSilent
BY DEF IoInv, FlagKept, ClearMeansSilent

\* Within a run only GetZeroTimeStamp moves the hands, both at once.
LEMMA HandsForward ==
    ASSUME IoInv, IoNext, run' = run
    PROVE  /\ stamps' - stamps \in {0, 1}
           /\ stamps' = stamps <=> previousTicks' = previousTicks
           /\ previousTicks' >= previousTicks
           /\ previousTicks' <= now'
<1>1. /\ stamps \in Nat /\ previousTicks \in Nat /\ now \in Nat /\ run \in Nat
      /\ previousTicks <= now /\ previousTicks' <= now'
  BY IoInvStep, Constants DEF IoInv, IoTypeOK, Clocked
<1>2. CASE UNCHANGED clockVars
  BY <1>1, <1>2 DEF clockVars
<1>3. CASE GetZeroTimeStamp
  <2>1. TicksPerRing \in Nat /\ TicksPerRing >= 1
    BY Constants DEF TicksPerRing
  <2> QED BY <1>1, <1>3, <2>1 DEF GetZeroTimeStamp, NextTickOffset
<1>4. ASSUME NEW d \in Sides, StartIO(d) PROVE UNCHANGED clockVars
  BY <1>1, <1>4 DEF StartIO, clockVars
<1>5. CASE IoNext /\ ~GetZeroTimeStamp /\ ~\E d \in Sides : StartIO(d)
  BY <1>2, <1>5
     DEF IoNext, IoStep, StopIO, TimePasses, ReadBegins, WriteBegins, ReadCopies,
         ReadWipes, ReadFlags, WriteCopies, WriteStoresLast, WriteStoresFlag,
         SetMute, SetClockSource, clockVars
<1> QED BY <1>2, <1>3, <1>4, <1>5

\* The audio path alone, before the settings of the driver are put on top.
THEOREM IoCorrect == IoSpec => [](IoInv /\ HearsItsOwnTime /\ ClearMeansSilent)
<1>1. IoInv /\ [IoNext]_ioVars => IoInv'
  BY IoInvStep
<1>2. IoInv => HearsItsOwnTime /\ ClearMeansSilent
  BY HeardInTime, SilentWhenClear
<1> QED BY InitIoInv, <1>1, <1>2, PTL DEF IoSpec

-----------------------------------------------------------------------------
(* The driver around it.                                                   *)
LEMMA Bounds == DefaultName \in Names /\ MaxRequests \in Nat /\ MaxRequests >= 1
BY DriverAssumption

\* The clock has never run where only the settings move.
ClockAtRest == part \notin {"audio", "clock"} => stamps = 0 /\ previousTicks = 0

\* The storage says what the box is.
StoredAsIs == (storage = {} => acquired) /\ (storage # {} => storage = {acquired})

\* Unless it is excused, the rate last asked for is the present one, or on
\* its way to it: in a change between its two locks, or in a request.
RateOnItsWay ==
    excused = "no" =>
      \/ requests["SetSampleRate"] > 0
      \/ changing = 0 /\ requested \in {0, rate}
      \/ changing # 0 /\ requested = changing

\* An answer that fits, and one that is all that was announced.
Fits(given, asked) == given.bytes <= asked /\ given.bytes # UnknownProperty
Complete(given, asked) ==
    /\ given.bytes = asked
    /\ {given.items[i] : i \in 1..Len(given.items)} \subseteq Objects
    /\ \A i, j \in 1..Len(given.items) : given.items[i] = given.items[j] => i = j

\* What a host is told of a property it asked for, if the box is acquired in
\* between or not.
GoodAnswer(o, s, asked, given, same) ==
    /\ asked \in Nat
    /\ Fits(given, asked)
    /\ WrongAnswer(o, s) \/ ~same \/ Complete(given, asked)

\* A question in progress is about a property there is; it has been told the
\* length for the box as it was then, and answered accordingly.
AskInv ==
    /\ ask.at # "none" =>
         /\ ask.object \in Objects /\ ask.scope \in Scopes
         /\ HasProperty(ask.object, ask.selector, ask.scope)
    /\ ask.at = "sized" =>
         /\ ask.acquired \in BOOLEAN
         /\ ask.asked = GetPropertyDataSize(ask.object, ask.selector, ask.scope, ask.acquired)
    /\ ask.at = "answered" =>
         GoodAnswer(ask.object, ask.selector, ask.asked, ask.answer, ask.acquired)

Inv ==
    /\ IoInv /\ TypeOK
    /\ ClockAtRest /\ StoredAsIs /\ RateOnItsWay /\ TicksMatchRate
    /\ OnlySiblingsStale
    /\ AskInv

-----------------------------------------------------------------------------
LEMMA InitInv == Init => Inv
<1> SUFFICES ASSUME Init PROVE Inv
  OBVIOUS
<1> USE DEF Init
<1>1. IoInv
  BY InitIoInv
<1>2. TypeOK
  <2>1. rate \in Rates /\ ticks \in Rates /\ adjustedTicks \in Rates \X Steps
    BY DEF Rates, Steps
  <2>2. requests \in [Changes -> 0..MaxRequests]
    BY Bounds
  <2>3. lastSet \in [Shared -> Controls] /\ DOMAIN heard = Observables
    BY DEF Shared, Controls, Volumes, Mutes
  <2>4. volume \in Steps /\ pitch \in Steps /\ active \in [Streams -> BOOLEAN]
    BY DEF Steps
  <2>5. acquired = TRUE /\ boxName \in Names /\ storage \in SUBSET BOOLEAN
    <3>1. storage = {} /\ acquired = AcquiredFrom(storage)
      OBVIOUS
    <3>2. AcquiredFrom(storage) = TRUE
      BY <3>1 DEF AcquiredFrom
    <3>3. boxName \in Names /\ storage \in SUBSET BOOLEAN
      BY Bounds
    <3> QED BY ONLY <3>1, <3>2, <3>3
  <2>6. IoTypeOK /\ requested \in Rates \cup {0} /\ changing \in Rates \cup {0}
        /\ ask.at \in {"none", "has", "sized", "answered"} /\ news \in SUBSET Observables
    BY <1>1 DEF IoInv, NoQuestion
  <2>7. part \in Varies /\ pitchEnabled = FALSE /\ excused = "no"
    OBVIOUS
  <2> QED BY ONLY <2>1, <2>2, <2>3, <2>4, <2>5, <2>6, <2>7 DEF TypeOK
<1>3. ClockAtRest /\ RateOnItsWay /\ TicksMatchRate
  BY DEF ClockAtRest, RateOnItsWay, TicksMatchRate, IoInit
<1>4. StoredAsIs
  <2>1. storage = {} /\ acquired = AcquiredFrom(storage)
    OBVIOUS
  <2>2. AcquiredFrom(storage) = TRUE
    BY <2>1 DEF AcquiredFrom
  <2> QED BY ONLY <2>1, <2>2 DEF StoredAsIs
<1>5. OnlySiblingsStale
  BY DEF OnlySiblingsStale
<1>6. AskInv
  BY DEF AskInv, NoQuestion
<1> QED BY <1>1, <1>2, <1>3, <1>4, <1>5, <1>6 DEF Inv

\* Of the audio path a step of the driver takes one step or none, unless the
\* host process starts again.
LEMMA NextIsIoNext == Next => [IoNext]_ioVars \/ (part = "box" /\ Initialize)
<1> SUFFICES ASSUME Next PROVE [IoNext]_ioVars \/ (part = "box" /\ Initialize)
  OBVIOUS
<1>1. CASE AudioStep \/ ClockStep
  BY <1>1 DEF AudioStep, ClockStep, IoNext, IoStep
<1>2. ASSUME NEW v \in 0..2, SetClockSourceTo(v) PROVE IoNext
  BY <1>2 DEF SetClockSourceTo, IoNext
<1>3. ASSUME NEW c \in Mutes, SetMuteOf(c) PROVE IoNext
  BY <1>3 DEF SetMuteOf, IoNext
<1>4. ASSUME NEW c \in Changes, PerformPitchControl(c) \/ Abort(c) PROVE UNCHANGED ioVars
  BY <1>4 DEF PerformPitchControl, Abort
<1>5. CASE RateStep
  BY <1>5 DEF RateStep, SetSampleRate, PerformReadsRate, PerformAppliesRate, SetPitch
<1>6. ASSUME NEW c \in Volumes, NEW v \in -1..3, SetVolume(c, v) PROVE UNCHANGED ioVars
  BY <1>6 DEF SetVolume
<1>7. ASSUME NEW s \in Streams, SetStreamActive(s) PROVE UNCHANGED ioVars
  BY <1>7 DEF SetStreamActive
<1>8. CASE part = "box" /\ BoxStep
  BY <1>8 DEF BoxStep, SetBoxName
<1>9. CASE Question
  BY <1>9 DEF Question, AskHas, AskSize, AskData
<1>10. ASSUME NEW v \in BOOLEAN, SetBoxAcquired(v) PROVE UNCHANGED ioVars
  BY <1>10 DEF SetBoxAcquired
<1>11. ASSUME NEW x \in Observables, PropertiesChanged(x) PROVE UNCHANGED ioVars
  BY <1>11 DEF PropertiesChanged
<1>12. "Mute_Input" \in Mutes
  BY DEF Mutes
<1> QED BY <1>1, <1>2, <1>3, <1>4, <1>5, <1>6, <1>7, <1>8, <1>9, <1>10, <1>11, <1>12
        DEF Next

\* A restart finds nobody running, hence no ring.
LEMMA RestartKeepsIo == IoInv /\ Initialize => IoInv'
<1> SUFFICES ASSUME IoInv, Initialize PROVE IoInv'
  OBVIOUS
<1> USE DEF IoInv, Initialize, cycleVars
<1>1. ring = NoRing /\ ring' = NoRing
  BY DEF RingWhileRunning
<1>2. IoTypeOK'
  <2>1. lastOutput' \in 0..(MaxTime + BlockFrames) /\ stamps' \in 0..MaxTime
        /\ previousTicks' \in 0..MaxTime /\ clockSource' \in 0..1
    BY Constants
  <2>2. isBufferClear' = TRUE /\ muted' = FALSE
    OBVIOUS
  <2>3. IoTypeOK /\ UNCHANGED <<running, ring, now, run, reader, writer, written, crossed>>
    OBVIOUS
  <2> QED BY ONLY <2>1, <2>2, <2>3 DEF IoTypeOK
<1>3. RingWhileRunning' /\ CyclesRun'
  BY DEF RingWhileRunning, CyclesRun, NobodyRuns
<1>4. Clocked'
  BY <1>2, Constants DEF Clocked, IoTypeOK
<1>5. InOrder' /\ ReadsInTime'
  BY DEF InOrder, ReadsInTime
<1>6. Contents' /\ FlagKept'
  BY <1>1 DEF Contents, FlagKept
<1> QED BY <1>2, <1>3, <1>4, <1>5, <1>6

LEMMA IoKept == IoInv /\ [Next]_vars => IoInv'
BY NextIsIoNext, RestartKeepsIo, IoInvStep DEF vars

-----------------------------------------------------------------------------
\* Each group of settings is moved by a few of the steps; the others leave it
\* alone.
LEMMA BoxMoves ==
    Next => \/ UNCHANGED <<boxName, acquired, storage>>
            \/ \E n \in Names : SetBoxName(n)
            \/ \E v \in BOOLEAN : SetBoxAcquired(v)
            \/ Initialize
<1> USE DEF Next, boxVars, driverVars
<1> QED
  BY DEF SetClockSourceTo, PerformPitchControl, Abort, RateStep, SetSampleRate,
         PerformReadsRate, PerformAppliesRate, SetPitch, SetVolume, SetMuteOf,
         SetStreamActive, BoxStep, Question, AskHas, AskSize, AskData, PropertiesChanged

LEMMA RateMoves ==
    Next => \/ UNCHANGED <<rate, requested, changing, excused, ticks, adjustedTicks, pitch,
                           requests, pitchEnabled>>
            \/ \E r \in Rates : SetSampleRate(r)
            \/ PerformReadsRate \/ PerformAppliesRate
            \/ \E v \in -1..3 : SetPitch(v)
            \/ \E v \in 0..2 : SetClockSourceTo(v)
            \/ \E c \in Changes : PerformPitchControl(c) \/ Abort(c)
            \/ Initialize
<1> USE DEF Next, rateVars, controlVars, driverVars
<1> QED
  BY DEF RateStep, SetVolume, SetMuteOf, SetStreamActive, BoxStep, SetBoxName,
         SetBoxAcquired, Question, AskHas, AskSize, AskData, PropertiesChanged

\* The part is chosen once.
LEMMA PartStays == Next => UNCHANGED part
BY DEF Next, driverVars, SetClockSourceTo, PerformPitchControl, Abort, RateStep,
       SetSampleRate, PerformReadsRate, PerformAppliesRate, SetPitch, SetVolume,
       SetMuteOf, SetStreamActive, BoxStep, SetBoxName, SetBoxAcquired, Initialize,
       Question, AskHas, AskSize, AskData, PropertiesChanged

-----------------------------------------------------------------------------
\* What Initialize finds is what the box was.
LEMMA FoundAgain ==
    ASSUME StoredAsIs, acquired \in BOOLEAN
    PROVE  AcquiredFrom(storage) = acquired
<1>1. CASE storage = {}
  <2>1. AcquiredFrom(storage) = TRUE /\ acquired = TRUE
    BY <1>1 DEF AcquiredFrom, StoredAsIs
  <2> QED BY <2>1
<1>2. CASE storage = {acquired}
  <2>1. TRUE \in storage <=> acquired = TRUE
    BY <1>2
  <2> QED BY <1>2, <2>1 DEF AcquiredFrom
<1> QED BY <1>1, <1>2 DEF StoredAsIs

LEMMA StorageKept == StoredAsIs /\ acquired \in BOOLEAN /\ Next => StoredAsIs'
<1> SUFFICES ASSUME StoredAsIs, acquired \in BOOLEAN, Next PROVE StoredAsIs'
  OBVIOUS
<1> USE DEF StoredAsIs
<1>1. CASE UNCHANGED <<boxName, acquired, storage>>
  BY <1>1
<1>2. ASSUME NEW n \in Names, SetBoxName(n) PROVE StoredAsIs'
  BY <1>2 DEF SetBoxName
<1>3. ASSUME NEW v \in BOOLEAN, SetBoxAcquired(v) PROVE StoredAsIs'
  BY <1>3 DEF SetBoxAcquired, Stores
<1>4. CASE Initialize
  <2>1. storage' = storage /\ acquired' = AcquiredFrom(storage)
    BY <1>4 DEF Initialize
  <2>2. AcquiredFrom(storage) = acquired
    BY FoundAgain
  <2> QED BY ONLY <2>1, <2>2, StoredAsIs DEF StoredAsIs
<1> QED BY <1>1, <1>2, <1>3, <1>4, BoxMoves

LEMMA RatesKept ==
    ASSUME requests \in [Changes -> Nat], rate \in Rates, requested \in Rates \cup {0},
           changing \in Rates \cup {0}, RateOnItsWay, TicksMatchRate, Next
    PROVE  RateOnItsWay' /\ TicksMatchRate'
<1> USE DEF RateOnItsWay, TicksMatchRate, Rates
<1>1. CASE UNCHANGED <<rate, requested, changing, excused, ticks, adjustedTicks, pitch,
                       requests, pitchEnabled>>
  BY <1>1
<1>2. ASSUME NEW r \in Rates, SetSampleRate(r) PROVE RateOnItsWay' /\ TicksMatchRate'
  BY <1>2 DEF SetSampleRate, NewRate, controlVars, Changes
<1>3. CASE PerformReadsRate
  BY <1>3 DEF PerformReadsRate, controlVars, Changes
<1>4. CASE PerformAppliesRate
  BY <1>4 DEF PerformAppliesRate, Recalculated, controlVars
<1>5. ASSUME NEW v \in -1..3, SetPitch(v) PROVE RateOnItsWay' /\ TicksMatchRate'
  BY <1>5 DEF SetPitch
<1>6. ASSUME NEW v \in 0..2, SetClockSourceTo(v) PROVE RateOnItsWay' /\ TicksMatchRate'
  BY <1>6 DEF SetClockSourceTo, controlVars, Changes
<1>7. ASSUME NEW c \in Changes, PerformPitchControl(c) PROVE RateOnItsWay' /\ TicksMatchRate'
  BY <1>7 DEF PerformPitchControl, controlVars, Changes
<1>8. ASSUME NEW c \in Changes, Abort(c) PROVE RateOnItsWay' /\ TicksMatchRate'
  BY <1>8 DEF Abort, controlVars, Changes
<1>9. CASE Initialize
  BY <1>9 DEF Initialize
<1> QED BY <1>1, <1>2, <1>3, <1>4, <1>5, <1>6, <1>7, <1>8, <1>9, RateMoves

-----------------------------------------------------------------------------
LEMMA ClockKeptAtRest == ClockAtRest /\ Next => ClockAtRest'
<1> SUFFICES ASSUME ClockAtRest, Next PROVE ClockAtRest'
  OBVIOUS
<1>1. part' = part
  BY PartStays
<1>2. CASE part \in {"audio", "clock"}
  BY <1>1, <1>2 DEF ClockAtRest
<1>3. CASE part \notin {"audio", "clock"}
  <2>1. UNCHANGED clockVars \/ (stamps' = 0 /\ previousTicks' = 0)
    BY <1>3
       DEF Next, ioVars, RateStep, SetSampleRate, PerformReadsRate, PerformAppliesRate,
           SetPitch, Abort, SetVolume, SetMuteOf, SetMute, SetStreamActive, BoxStep,
           SetBoxName, SetBoxAcquired, Initialize, Question, AskHas, AskSize, AskData,
           PropertiesChanged
  <2> QED BY <1>1, <1>3, <2>1 DEF ClockAtRest, clockVars
<1> QED BY <1>2, <1>3

\* Which observable is which.
LEMMA ObservableKinds ==
    ASSUME NEW x \in Observables
    PROVE  \/ x \in {<<"Box", "Name">>, <<"Box", "Acquired">>, <<"Box", "DeviceList">>,
                     <<"PlugIn", "DeviceList">>}
           \/ x = <<"Pitch", "StereoPanValue">>
           \/ x = <<"ClockSource", "CurrentItem">>
           \/ x[1] \in Volumes /\ x \in {x[1]} \X Levels
           \/ x[1] \in Mutes /\ x \in {x[1]} \X {"BooleanValue"}
           \/ x[1] \in Streams /\ x \in {x[1]} \X {"IsActive"}
BY DEF Observables, Volumes, Mutes, Streams, Levels

LEMMA Values ==
    ASSUME NEW x \in Observables
    PROVE  /\ x = <<"Box", "Name">> => Value(x) = boxName
           /\ x \in {<<"Box", "Acquired">>, <<"Box", "DeviceList">>, <<"PlugIn", "DeviceList">>}
                => Value(x) = acquired
           /\ x[1] \in Volumes => Value(x) = volume
           /\ x[1] \in Mutes => Value(x) = muted
           /\ x[1] \in Streams => Value(x) = active[x[1]]
           /\ x = <<"Pitch", "StereoPanValue">> => Value(x) = pitch
           /\ x = <<"ClockSource", "CurrentItem">> => Value(x) = clockSource
BY DEF Value, Volumes, Mutes, Streams

\* A listener on x is up to date, or will be, or sits on the other control.
UpToDate(x) ==
    \/ heard[x] = Value(x)
    \/ x \in news
    \/ x[1] \in Volumes \ {lastSet["volume"]}
    \/ x[1] \in Mutes \ {lastSet["mute"]}

\* A step that keeps the value of x, and the control it was set through, and
\* takes no news away keeps its listener so.
LEMMA ValueStays ==
    ASSUME NEW x \in Observables, UpToDate(x), Value(x)' = Value(x),
           heard' = heard, news \subseteq news', lastSet' = lastSet
    PROVE  UpToDate(x)'
BY DEF UpToDate

LEMMA VolumeUpToDate ==
    ASSUME NEW x \in Observables, UpToDate(x), NEW c \in Volumes, NEW v \in -1..3,
           SetVolume(c, v), lastSet \in [Shared -> Controls]
    PROVE  UpToDate(x)'
<1>1. /\ lastSet'["volume"] = c /\ lastSet'["mute"] = lastSet["mute"]
      /\ news' = news \cup ({c} \X Levels) /\ heard' = heard
      /\ UNCHANGED <<boxName, acquired, muted, active, pitch, clockSource>>
  BY DEF SetVolume, Announced, Shared, boxVars, ioVars, listenerVars
<1>2. CASE x[1] \in Volumes
  <2>1. CASE x[1] = c
    BY <1>1, <1>2, <2>1, ObservableKinds DEF UpToDate, Volumes, Mutes, Streams
  <2>2. CASE x[1] # c
    BY <1>1, <1>2, <2>2 DEF UpToDate
  <2> QED BY <2>1, <2>2
<1>3. CASE x[1] \notin Volumes
  <2>1. Value(x)' = Value(x)
    BY <1>1, <1>3, ObservableKinds DEF Value, Volumes, Mutes, Streams
  <2> QED BY <1>1, <1>3, <2>1 DEF UpToDate
<1> QED BY <1>2, <1>3

LEMMA MuteUpToDate ==
    ASSUME NEW x \in Observables, UpToDate(x), NEW c \in Mutes,
           SetMuteOf(c), lastSet \in [Shared -> Controls]
    PROVE  UpToDate(x)'
<1>1. /\ lastSet'["mute"] = c /\ lastSet'["volume"] = lastSet["volume"]
      /\ news' = news \cup ({c} \X {"BooleanValue"}) /\ heard' = heard
      /\ UNCHANGED <<boxName, acquired, volume, active, pitch, clockSource>>
  BY DEF SetMuteOf, SetMute, Announced, Shared, boxVars
<1>2. CASE x[1] \in Mutes
  <2>1. CASE x[1] = c
    BY <1>1, <1>2, <2>1, ObservableKinds DEF UpToDate, Volumes, Mutes, Streams
  <2>2. CASE x[1] # c
    BY <1>1, <1>2, <2>2 DEF UpToDate
  <2> QED BY <2>1, <2>2
<1>3. CASE x[1] \notin Mutes
  <2>1. Value(x)' = Value(x)
    BY <1>1, <1>3, ObservableKinds DEF Value, Volumes, Mutes, Streams
  <2> QED BY <1>1, <1>3, <2>1 DEF UpToDate
<1> QED BY <1>2, <1>3

\* The other settings announce what they change.
LEMMA OthersUpToDate ==
    ASSUME NEW x \in Observables, UpToDate(x), active \in [Streams -> BOOLEAN],
           \/ \E n \in Names : SetBoxName(n)
           \/ \E v \in BOOLEAN : SetBoxAcquired(v)
           \/ \E v \in -1..3 : SetPitch(v)
           \/ \E v \in 0..2 : SetClockSourceTo(v)
           \/ \E s \in Streams : SetStreamActive(s)
    PROVE  UpToDate(x)'
<1> USE ObservableKinds, Values, ValueStays
    DEF boxVars, controlVars, ioVars, listenerVars, Announced
<1>1. ASSUME NEW n \in Names, SetBoxName(n) PROVE UpToDate(x)'
  <2>1. CASE x = <<"Box", "Name">>
    BY <1>1, <2>1 DEF SetBoxName, UpToDate
  <2>2. CASE x # <<"Box", "Name">>
    <3>1. Value(x)' = Value(x)
      BY <1>1, <2>2 DEF SetBoxName, Value
    <3> QED BY <1>1, <3>1 DEF SetBoxName
  <2> QED BY <2>1, <2>2
<1>2. ASSUME NEW v \in BOOLEAN, SetBoxAcquired(v) PROVE UpToDate(x)'
  <2> DEFINE B == {<<"Box", "Acquired">>, <<"Box", "DeviceList">>, <<"PlugIn", "DeviceList">>}
  <2>1. CASE x \in B
    BY <1>2, <2>1 DEF SetBoxAcquired, UpToDate
  <2>2. CASE x \notin B
    <3>1. Value(x)' = Value(x)
      BY <1>2, <2>2 DEF SetBoxAcquired, Value
    <3> QED BY <1>2, <3>1 DEF SetBoxAcquired
  <2> QED BY <2>1, <2>2
<1>3. ASSUME NEW v \in -1..3, SetPitch(v) PROVE UpToDate(x)'
  <2>1. CASE x = <<"Pitch", "StereoPanValue">>
    BY <1>3, <2>1 DEF SetPitch, UpToDate
  <2>2. CASE x # <<"Pitch", "StereoPanValue">>
    <3>1. Value(x)' = Value(x)
      BY <1>3, <2>2 DEF SetPitch, Value, Volumes, Mutes, Streams
    <3> QED BY <1>3, <3>1 DEF SetPitch
  <2> QED BY <2>1, <2>2
<1>4. ASSUME NEW v \in 0..2, SetClockSourceTo(v) PROVE UpToDate(x)'
  <2>1. CASE x = <<"ClockSource", "CurrentItem">>
    BY <1>4, <2>1 DEF SetClockSourceTo, UpToDate
  <2>2. CASE x # <<"ClockSource", "CurrentItem">>
    <3>1. Value(x)' = Value(x)
      BY <1>4, <2>2 DEF SetClockSourceTo, SetClockSource, Value, Volumes, Mutes, Streams
    <3> QED BY <1>4, <3>1 DEF SetClockSourceTo
  <2> QED BY <2>1, <2>2
<1>5. ASSUME NEW s \in Streams, SetStreamActive(s) PROVE UpToDate(x)'
  <2>1. CASE x[1] = s
    BY <1>5, <2>1 DEF SetStreamActive, UpToDate, Volumes, Mutes, Streams
  <2>2. CASE x[1] # s
    <3>1. Value(x)' = Value(x)
      BY <1>5, <2>2 DEF SetStreamActive, Value, Volumes, Mutes, Streams
    <3> QED BY <1>5, <3>1 DEF SetStreamActive
  <2> QED BY <2>1, <2>2
<1> QED BY <1>1, <1>2, <1>3, <1>4, <1>5

\* The steps that move a control or what a listener knows.
LEMMA ControlMoves ==
    Next => \/ UNCHANGED <<boxName, acquired, volume, muted, active, pitch, clockSource,
                           heard, news, lastSet>>
            \/ \E n \in Names : SetBoxName(n)
            \/ \E v \in BOOLEAN : SetBoxAcquired(v)
            \/ \E v \in -1..3 : SetPitch(v)
            \/ \E v \in 0..2 : SetClockSourceTo(v)
            \/ \E s \in Streams : SetStreamActive(s)
            \/ \E c \in Volumes, v \in -1..3 : SetVolume(c, v)
            \/ \E c \in Mutes : SetMuteOf(c)
            \/ Initialize
            \/ \E x \in Observables : PropertiesChanged(x)
<1> SUFFICES ASSUME Next PROVE ControlMoves!2
  OBVIOUS
<1> USE DEF driverVars, boxVars, controlVars, listenerVars, ioVars, Mutes
<1>1. CASE AudioStep /\ UNCHANGED driverVars
  BY <1>1 DEF AudioStep, StartIO, StopIO, TimePasses, ReadBegins, WriteBegins, ReadCopies,
              ReadWipes, ReadFlags, WriteCopies, WriteStoresLast, WriteStoresFlag
<1>2. CASE ClockStep /\ UNCHANGED driverVars
  BY <1>2 DEF ClockStep, StartIO, StopIO, TimePasses, GetZeroTimeStamp
<1>3. CASE RateStep
  BY <1>3 DEF RateStep, SetSampleRate, PerformReadsRate, PerformAppliesRate
<1>4. ASSUME NEW c \in Changes, PerformPitchControl(c) \/ Abort(c) PROVE ControlMoves!2
  BY <1>4 DEF PerformPitchControl, Abort
<1>5. CASE BoxStep
  BY <1>5 DEF BoxStep
<1>6. CASE Question
  BY <1>6 DEF Question, AskHas, AskSize, AskData
<1> QED BY <1>1, <1>2, <1>3, <1>4, <1>5, <1>6 DEF Next

LEMMA ListenersKept ==
    ASSUME TypeOK, OnlySiblingsStale, Next
    PROVE  OnlySiblingsStale'
<1> SUFFICES ASSUME NEW x \in Observables PROVE UpToDate(x)'
  BY DEF OnlySiblingsStale, UpToDate
<1>1. UpToDate(x) /\ lastSet \in [Shared -> Controls] /\ active \in [Streams -> BOOLEAN]
      /\ DOMAIN heard = Observables
  BY DEF OnlySiblingsStale, UpToDate, TypeOK
<1>2. CASE UNCHANGED <<boxName, acquired, volume, muted, active, pitch, clockSource,
                       heard, news, lastSet>>
  <2>1. Value(x)' = Value(x)
    BY <1>2 DEF Value
  <2> QED BY <1>1, <1>2, <2>1, ValueStays
<1>3. CASE \/ \E n \in Names : SetBoxName(n)
           \/ \E v \in BOOLEAN : SetBoxAcquired(v)
           \/ \E v \in -1..3 : SetPitch(v)
           \/ \E v \in 0..2 : SetClockSourceTo(v)
           \/ \E s \in Streams : SetStreamActive(s)
  BY <1>1, <1>3, OthersUpToDate
<1>4. CASE \E c \in Volumes, v \in -1..3 : SetVolume(c, v)
  BY <1>1, <1>4, VolumeUpToDate
<1>5. CASE \E c \in Mutes : SetMuteOf(c)
  BY <1>1, <1>5, MuteUpToDate
<1>6. CASE Initialize
  <2>1. heard'[x] = Value(x)'
    BY <1>6 DEF Initialize
  <2> QED BY <2>1 DEF UpToDate
<1>7. ASSUME NEW y \in Observables, PropertiesChanged(y) PROVE UpToDate(x)'
  <2>1. /\ heard' = [heard EXCEPT ![y] = Value(y)] /\ news' = news \ {y}
        /\ lastSet' = lastSet /\ Value(x)' = Value(x)
    BY <1>7 DEF PropertiesChanged, Value, boxVars, controlVars, ioVars
  <2>2. CASE x = y
    BY <1>1, <2>1, <2>2 DEF UpToDate
  <2>3. CASE x # y
    BY <1>1, <2>1, <2>3 DEF UpToDate
  <2> QED BY <2>2, <2>3
<1> QED BY <1>2, <1>3, <1>4, <1>5, <1>6, <1>7, ControlMoves

-----------------------------------------------------------------------------
\* Types.
RateTypes ==
    /\ rate \in Rates /\ requested \in Rates \cup {0} /\ changing \in Rates \cup {0}
    /\ requests \in [Changes -> 0..MaxRequests] /\ pitchEnabled \in BOOLEAN
    /\ ticks \in Rates /\ adjustedTicks \in Rates \X Steps /\ pitch \in Steps
    /\ excused \in {"no", "aborted", "overtaken"}

LEMMA RateTypesKept == RateTypes /\ Next => RateTypes'
<1> SUFFICES ASSUME RateTypes, Next PROVE RateTypes'
  OBVIOUS
<1> USE Bounds DEF Steps, Rates, RateTypes
<1>1. CASE UNCHANGED <<rate, requested, changing, excused, ticks, adjustedTicks, pitch,
                       requests, pitchEnabled>>
  BY <1>1
<1>2. ASSUME NEW r \in Rates, SetSampleRate(r) PROVE RateTypes'
  BY <1>2 DEF SetSampleRate, controlVars, Changes
<1>3. CASE PerformReadsRate
  BY <1>3 DEF PerformReadsRate, controlVars, Changes
<1>4. CASE PerformAppliesRate
  BY <1>4 DEF PerformAppliesRate, Recalculated, controlVars
<1>5. ASSUME NEW v \in -1..3, SetPitch(v) PROVE RateTypes'
  BY <1>5 DEF SetPitch, Clamped
<1>6. ASSUME NEW v \in 0..2, SetClockSourceTo(v) PROVE RateTypes'
  BY <1>6 DEF SetClockSourceTo, controlVars, Changes
<1>7. ASSUME NEW c \in Changes, PerformPitchControl(c) PROVE RateTypes'
  BY <1>7 DEF PerformPitchControl, controlVars, Changes
<1>8. ASSUME NEW c \in Changes, Abort(c) PROVE RateTypes'
  BY <1>8 DEF Abort, controlVars, Changes
<1>9. CASE Initialize
  <2>1. /\ rate' = 48000 /\ requested' = 0 /\ changing' = 0 /\ ticks' = 48000
        /\ pitch' = 1 /\ adjustedTicks' = <<48000, 1>> /\ pitchEnabled' = FALSE
        /\ excused' = "no"
    BY <1>9 DEF Initialize
  <2>2. requests' \in [Changes -> 0..MaxRequests]
    BY <1>9 DEF Initialize
  <2>3. adjustedTicks' \in Rates \X Steps /\ ticks' \in Rates /\ pitch' \in Steps
    BY <2>1
  <2>4. rate' \in Rates /\ requested' \in Rates \cup {0} /\ changing' \in Rates \cup {0}
    BY <2>1
  <2>5. pitchEnabled' \in BOOLEAN /\ excused' \in {"no", "aborted", "overtaken"}
    <3>1. (pitchEnabled = FALSE)'
      BY <2>1
    <3>2. pitchEnabled' \in BOOLEAN
      BY ONLY <3>1
    <3> QED BY <2>1, <3>2
  <2> QED BY ONLY <2>2, <2>3, <2>4, <2>5 DEF RateTypes
<1> QED BY <1>1, <1>2, <1>3, <1>4, <1>5, <1>6, <1>7, <1>8, <1>9, RateMoves

ControlTypes ==
    /\ volume \in Steps /\ active \in [Streams -> BOOLEAN]
    /\ lastSet \in [Shared -> Controls]
    /\ DOMAIN heard = Observables /\ news \in SUBSET Observables

LEMMA ControlTypesKept == ControlTypes /\ Next => ControlTypes'
<1> SUFFICES ASSUME ControlTypes, Next PROVE ControlTypes'
  OBVIOUS
<1> USE DEF ControlTypes, Announced, listenerVars
<1>1. CASE UNCHANGED <<boxName, acquired, volume, muted, active, pitch, clockSource,
                       heard, news, lastSet>>
  BY <1>1
<1>2. ASSUME NEW n \in Names, SetBoxName(n) PROVE ControlTypes'
  BY <1>2 DEF SetBoxName, Observables, controlVars
<1>3. ASSUME NEW v \in BOOLEAN, SetBoxAcquired(v) PROVE ControlTypes'
  BY <1>3 DEF SetBoxAcquired, Observables, controlVars
<1>4. ASSUME NEW v \in -1..3, SetPitch(v) PROVE ControlTypes'
  BY <1>4 DEF SetPitch, Observables
<1>5. ASSUME NEW v \in 0..2, SetClockSourceTo(v) PROVE ControlTypes'
  BY <1>5 DEF SetClockSourceTo, Observables, controlVars
<1>6. ASSUME NEW s \in Streams, SetStreamActive(s) PROVE ControlTypes'
  <2>1. {s} \X {"IsActive"} \subseteq Observables
    BY DEF Observables
  <2>2. active' \in [Streams -> BOOLEAN]
    BY <1>6 DEF SetStreamActive
  <2> QED BY <1>6, <2>1, <2>2 DEF SetStreamActive
<1>7. ASSUME NEW c \in Volumes, NEW v \in -1..3, SetVolume(c, v) PROVE ControlTypes'
  <2>1. {c} \X Levels \subseteq Observables /\ c \in Controls
    BY DEF Observables, Controls
  <2>2. volume' \in Steps
    BY <1>7 DEF SetVolume, Clamped, Steps
  <2> QED BY <1>7, <2>1, <2>2 DEF SetVolume
<1>8. ASSUME NEW c \in Mutes, SetMuteOf(c) PROVE ControlTypes'
  <2>1. {c} \X {"BooleanValue"} \subseteq Observables /\ c \in Controls
    BY DEF Observables, Controls
  <2> QED BY <1>8, <2>1 DEF SetMuteOf
<1>9. CASE Initialize
  BY <1>9 DEF Initialize, Steps
<1>10. ASSUME NEW x \in Observables, PropertiesChanged(x) PROVE ControlTypes'
  BY <1>10 DEF PropertiesChanged, controlVars
<1> QED BY <1>1, <1>2, <1>3, <1>4, <1>5, <1>6, <1>7, <1>8, <1>9, <1>10, ControlMoves

BoxTypes ==
    /\ part \in Varies /\ acquired \in BOOLEAN /\ boxName \in Names
    /\ storage \in SUBSET BOOLEAN

LEMMA BoxTypesKept == BoxTypes /\ StoredAsIs /\ Next => BoxTypes'
<1> SUFFICES ASSUME BoxTypes, StoredAsIs, Next PROVE BoxTypes'
  OBVIOUS
<1> USE Bounds, PartStays DEF BoxTypes
<1>1. CASE UNCHANGED <<boxName, acquired, storage>>
  BY <1>1
<1>2. ASSUME NEW n \in Names, SetBoxName(n) PROVE BoxTypes'
  BY <1>2 DEF SetBoxName
<1>3. ASSUME NEW v \in BOOLEAN, SetBoxAcquired(v) PROVE BoxTypes'
  BY <1>3 DEF SetBoxAcquired, Stores
<1>4. CASE Initialize
  <2>1. storage' = storage /\ acquired' = acquired /\ boxName' = DefaultName
    BY <1>4, FoundAgain DEF Initialize
  <2> QED BY <2>1
<1> QED BY <1>1, <1>2, <1>3, <1>4, BoxMoves

AskTypes == ask.at \in {"none", "has", "sized", "answered"}

LEMMA AskTypesKept == AskTypes /\ Next => AskTypes'
<1> SUFFICES ASSUME AskTypes, Next PROVE AskTypes'
  OBVIOUS
<1>1. \/ UNCHANGED ask \/ ask' = NoQuestion \/ Question
  BY DEF Next, driverVars, SetClockSourceTo, PerformPitchControl, Abort, RateStep,
         SetSampleRate, PerformReadsRate, PerformAppliesRate, SetPitch, SetVolume,
         SetMuteOf, SetStreamActive, BoxStep, SetBoxName, SetBoxAcquired, Initialize,
         PropertiesChanged
<1>2. CASE Question
  BY <1>2 DEF Question, AskHas, AskSize, AskData, AskTypes
<1> QED BY <1>1, <1>2 DEF AskTypes, NoQuestion

LEMMA TypesSplit == TypeOK <=> IoTypeOK /\ BoxTypes /\ RateTypes /\ ControlTypes /\ AskTypes
BY DEF TypeOK, BoxTypes, RateTypes, ControlTypes, AskTypes

-----------------------------------------------------------------------------
\* The answers.  First what Only keeps of a list of three or four.

\* One step of Only.
Add(list, x, S) == IF x \in S THEN Append(list, x) ELSE list

\* The function by which Only is defined.
Keeps(f, list, S) ==
    f = [n \in 0 .. Len(list) |->
           IF n = 0 THEN <<>>
           ELSE IF list[n] \in S THEN Append(f[n - 1], list[n]) ELSE f[n - 1]]

LEMMA KeepsAt ==
    ASSUME NEW f, NEW list, NEW S, Keeps(f, list, S), NEW n \in 0 .. Len(list)
    PROVE  f[n] = IF n = 0 THEN <<>> ELSE Add(f[n - 1], list[n], S)
<1> DEFINE Body(j) == IF j = 0 THEN <<>>
                      ELSE IF list[j] \in S THEN Append(f[j - 1], list[j]) ELSE f[j - 1]
           h == [j \in 0 .. Len(list) |-> Body(j)]
<1>1. f = h
  BY DEF Keeps
<1>2. h[n] = Body(n)
  <2> HIDE DEF Body
  <2> QED OBVIOUS
<1> HIDE DEF h
<1>3. f[n] = Body(n)
  BY <1>1, <1>2
<1> QED BY <1>3 DEF Add

\* So it is one, for the lists of the devices.
LEMMA OnlyKeeps ==
    ASSUME NEW list, NEW S, Len(list) \in {3, 4}
    PROVE  \E f : Keeps(f, list, S) /\ Only(list, S) = f[Len(list)]
<1> DEFINE one == Add(<<>>, list[1], S)
           two == Add(one, list[2], S)
           three == Add(two, list[3], S)
           f == [n \in 0 .. Len(list) |->
                   IF n = 0 THEN <<>> ELSE IF n = 1 THEN one ELSE IF n = 2 THEN two
                   ELSE IF n = 3 THEN three ELSE Add(three, list[4], S)]
           kept == CHOOSE g : Keeps(g, list, S)
<1>1. ASSUME NEW n \in 0 .. Len(list)
      PROVE  f[n] = IF n = 0 THEN <<>>
                    ELSE IF list[n] \in S THEN Append(f[n - 1], list[n]) ELSE f[n - 1]
  <2> HIDE DEF one, two, three
  <2>1. n = 0 \/ n = 1 \/ n = 2 \/ n = 3 \/ n = 4
    <3> HIDE DEF f, kept
    <3>1. CASE Len(list) = 3
      BY <3>1
    <3>2. CASE Len(list) = 4
      BY <3>2
    <3> QED BY <3>1, <3>2
  <2>2. (n # 0 => n - 1 \in 0 .. Len(list)) /\ f[0] = <<>>
    BY <2>1
  <2>3. CASE n = 0
    BY <2>3
  <2>4. CASE n = 1
    BY <2>2, <2>4 DEF Add, one
  <2>5. CASE n = 2
    BY <2>2, <2>5 DEF Add, two
  <2>6. CASE n = 3
    BY <2>2, <2>6 DEF Add, three
  <2>7. CASE n = 4
    BY <2>2, <2>7 DEF Add
  <2> QED BY <2>1, <2>3, <2>4, <2>5, <2>6, <2>7
<1>2. Keeps(f, list, S)
  <2>1. f = [n \in 0 .. Len(list) |-> f[n]]
    OBVIOUS
  <2> HIDE DEF f
  <2> QED BY <1>1, <2>1 DEF Keeps
<1>3. Keeps(kept, list, S)
  BY <1>2
<1>4. Only(list, S) = kept[Len(list)]
  BY DEF Only, Keeps
<1> QED BY <1>3, <1>4

LEMMA OnlyOfThree ==
    ASSUME NEW list, NEW S, Len(list) = 3
    PROVE  Only(list, S) = Add(Add(Add(<<>>, list[1], S), list[2], S), list[3], S)
<1>1. PICK f : Keeps(f, list, S) /\ Only(list, S) = f[3]
  BY OnlyKeeps
<1>2. ASSUME NEW n \in 0 .. 3
      PROVE  f[n] = IF n = 0 THEN <<>> ELSE Add(f[n - 1], list[n], S)
  BY <1>1, KeepsAt
<1>3. f[0] = <<>> /\ f[1] = Add(f[0], list[1], S) /\ f[2] = Add(f[1], list[2], S)
      /\ f[3] = Add(f[2], list[3], S)
  BY <1>2
<1> QED BY <1>1, <1>3

LEMMA OnlyOfFour ==
    ASSUME NEW list, NEW S, Len(list) = 4
    PROVE  Only(list, S)
             = Add(Add(Add(Add(<<>>, list[1], S), list[2], S), list[3], S), list[4], S)
<1>1. PICK f : Keeps(f, list, S) /\ Only(list, S) = f[4]
  BY OnlyKeeps
<1>2. ASSUME NEW n \in 0 .. 4
      PROVE  f[n] = IF n = 0 THEN <<>> ELSE Add(f[n - 1], list[n], S)
  BY <1>1, KeepsAt
<1>3. f[0] = <<>> /\ f[1] = Add(f[0], list[1], S) /\ f[2] = Add(f[1], list[2], S)
      /\ f[3] = Add(f[2], list[3], S) /\ f[4] = Add(f[3], list[4], S)
  BY <1>2
<1> QED BY <1>1, <1>3

\* What Append makes of lists that are written out.
LEMMA AppendToOne == ASSUME NEW a, NEW b PROVE Append(<<a>>, b) = <<a, b>>
<1> DEFINE S == {a, b}
           t == Append(<<a>>, b)
<1>1. <<a>> \in Seq(S) /\ <<a, b>> \in Seq(S) /\ Len(<<a>>) = 1 /\ Len(<<a, b>>) = 2
  OBVIOUS
<1>2. t \in Seq(S) /\ Len(t) = 2 /\ t[2] = b /\ t[1] = a
  BY <1>1, AppendProperties
<1> HIDE DEF t
<1>3. t = <<a, b>>
  BY <1>1, <1>2, SeqEqual
<1> QED BY <1>3 DEF t

LEMMA AppendToTwo == ASSUME NEW a, NEW b, NEW c PROVE Append(<<a, b>>, c) = <<a, b, c>>
<1> DEFINE S == {a, b, c}
           t == Append(<<a, b>>, c)
<1>1. /\ <<a, b>> \in Seq(S) /\ <<a, b, c>> \in Seq(S)
      /\ Len(<<a, b>>) = 2 /\ Len(<<a, b, c>>) = 3
  OBVIOUS
<1>2. t \in Seq(S) /\ Len(t) = 3 /\ t[3] = c /\ t[1] = a /\ t[2] = b
  BY <1>1, AppendProperties
<1> HIDE DEF t
<1>3. t = <<a, b, c>>
  BY <1>1, <1>2, SeqEqual
<1> QED BY <1>3 DEF t

LEMMA AppendToThree ==
    ASSUME NEW a, NEW b, NEW c, NEW d
    PROVE  Append(<<a, b, c>>, d) = <<a, b, c, d>>
<1> DEFINE S == {a, b, c, d}
           t == Append(<<a, b, c>>, d)
<1>1. /\ <<a, b, c>> \in Seq(S) /\ <<a, b, c, d>> \in Seq(S)
      /\ Len(<<a, b, c>>) = 3 /\ Len(<<a, b, c, d>>) = 4
  OBVIOUS
<1>2. t \in Seq(S) /\ Len(t) = 4 /\ t[4] = d /\ t[1] = a /\ t[2] = b /\ t[3] = c
  BY <1>1, AppendProperties
<1> HIDE DEF t
<1>3. t = <<a, b, c, d>>
  BY <1>1, <1>2, SeqEqual
<1> QED BY <1>3 DEF t

LEMMA AddIn ==
    ASSUME NEW list, NEW S, NEW x \in S
    PROVE  Add(list, x, S) = Append(list, x)
BY DEF Add

LEMMA AddOut ==
    ASSUME NEW list, NEW S, NEW x, x \notin S
    PROVE  Add(list, x, S) = list
BY DEF Add

\* What is left of three, where the last two are of one kind.
LEMMA AddThree ==
    ASSUME NEW a, NEW b, NEW c, NEW S, b \in S <=> c \in S
    PROVE  Add(Add(Add(<<>>, a, S), b, S), c, S) =
             IF a \in S THEN IF b \in S THEN <<a, b, c>> ELSE <<a>>
             ELSE IF b \in S THEN <<b, c>> ELSE <<>>
<1> DEFINE one == Add(<<>>, a, S)
           two == Add(one, b, S)
<1>1. one = IF a \in S THEN <<a>> ELSE <<>>
  BY DEF Add
<1> HIDE DEF one
<1>2. two = IF a \in S THEN IF b \in S THEN <<a, b>> ELSE <<a>>
            ELSE IF b \in S THEN <<b>> ELSE <<>>
  <2>1. CASE a \in S
    <3>1. one = <<a>>
      BY <1>1, <2>1
    <3>2. Append(one, b) = <<a, b>>
      BY <3>1, AppendToOne, Zenon
    <3> QED BY <2>1, <3>1, <3>2 DEF Add
  <2>2. CASE a \notin S
    <3>1. one = <<>>
      BY <1>1, <2>2
    <3>2. Append(one, b) = <<b>>
      BY <3>1
    <3> QED BY <2>2, <3>1, <3>2 DEF Add
  <2> QED BY <2>1, <2>2
<1> HIDE DEF two
<1>3. CASE b \notin S
  <2>1. Add(two, c, S) = two
    BY <1>3, AddOut
  <2> QED BY <1>2, <1>3, <2>1 DEF two, one
<1>4. CASE b \in S
  <2>1. Add(two, c, S) = Append(two, c)
    BY <1>4, AddIn
  <2>2. CASE a \in S
    <3>1. two = <<a, b>>
      BY <1>2, <1>4, <2>2
    <3>2. Append(two, c) = <<a, b, c>>
      BY <3>1, AppendToTwo, Zenon
    <3> QED BY <1>4, <2>1, <2>2, <3>2 DEF two, one
  <2>3. CASE a \notin S
    <3>1. two = <<b>>
      BY <1>2, <1>4, <2>3
    <3>2. Append(two, c) = <<b, c>>
      BY <3>1, AppendToOne, Zenon
    <3> QED BY <1>4, <2>1, <2>3, <3>2 DEF two, one
  <2> QED BY <2>2, <2>3
<1> QED BY <1>3, <1>4

LEMMA KeptOfThree ==
    ASSUME NEW list, NEW S, Len(list) = 3, list[2] \in S <=> list[3] \in S
    PROVE  Only(list, S) =
             IF list[1] \in S THEN IF list[2] \in S THEN <<list[1], list[2], list[3]>> ELSE <<list[1]>>
             ELSE IF list[2] \in S THEN <<list[2], list[3]>> ELSE <<>>
BY OnlyOfThree, AddThree

LEMMA KeptOfFour ==
    ASSUME NEW list, NEW S, Len(list) = 4, list[2] \in S <=> list[3] \in S
    PROVE  /\ list[4] \notin S => Only(list, S) =
                IF list[1] \in S THEN IF list[2] \in S THEN <<list[1], list[2], list[3]>> ELSE <<list[1]>>
                ELSE IF list[2] \in S THEN <<list[2], list[3]>> ELSE <<>>
           /\ list[4] \in S /\ list[2] \in S => Only(list, S) =
                IF list[1] \in S THEN <<list[1], list[2], list[3], list[4]>>
                ELSE <<list[2], list[3], list[4]>>
<1> DEFINE three == Add(Add(Add(<<>>, list[1], S), list[2], S), list[3], S)
<1>1. Only(list, S) = Add(three, list[4], S)
  BY OnlyOfFour
<1>2. three =
        IF list[1] \in S THEN IF list[2] \in S THEN <<list[1], list[2], list[3]>> ELSE <<list[1]>>
        ELSE IF list[2] \in S THEN <<list[2], list[3]>> ELSE <<>>
  BY AddThree
<1> HIDE DEF three
<1>3. CASE list[4] \notin S
  <2>1. Only(list, S) = three
    BY <1>1, <1>3, AddOut
  <2> QED BY <1>2, <1>3, <2>1
<1>4. CASE list[4] \in S /\ list[2] \in S
  <2>1. Only(list, S) = Append(three, list[4])
    BY <1>1, <1>4, AddIn
  <2>2. CASE list[1] \in S
    <3>1. three = <<list[1], list[2], list[3]>>
      BY <1>2, <1>4, <2>2
    <3>2. Only(list, S) = <<list[1], list[2], list[3], list[4]>>
      BY <2>1, <3>1, AppendToThree, Zenon
    <3> QED BY <1>4, <2>2, <3>2
  <2>3. CASE list[1] \notin S
    <3>1. three = <<list[2], list[3]>>
      BY <1>2, <1>4, <2>3
    <3>2. Only(list, S) = <<list[2], list[3], list[4]>>
      BY <2>1, <3>1, AppendToTwo, Zenon
    <3> QED BY <1>4, <2>3, <3>2
  <2> QED BY <2>2, <2>3
<1> QED BY <1>3, <1>4

LEMMA IdsOf ==
    \A a, b, c, d : /\ Ids(<<>>) = <<>> /\ Ids(<<a>>) = <<a.id>>
                    /\ Ids(<<a, b>>) = <<a.id, b.id>> /\ Ids(<<a, b, c>>) = <<a.id, b.id, c.id>>
                    /\ Ids(<<a, b, c, d>>) = <<a.id, b.id, c.id, d.id>>
BY DEF Ids

\* Which objects of the devices are in a scope, and of which type.
LEMMA Entries ==
    ASSUME NEW scope \in Scopes, NEW i \in 1 .. 4
    PROVE  /\ LET x == ObjectList("Device")[i]
              IN  /\ x \in InScope(scope) <=> scope = "Global" \/ (scope = "Input" /\ i # 4)
                  /\ x \in OfType("Stream") <=> i = 1
                  /\ x \in OfType("Control") <=> i # 1
           /\ i # 4 =>
              LET x == ObjectList("Device2")[i]
              IN  /\ x \in InScope(scope) <=> scope # "Input"
                  /\ x \in OfType("Stream") <=> i = 1
                  /\ x \in OfType("Control") <=> i # 1
<1>1. /\ ObjectList("Device")[i] \in DeviceObject
      /\ i # 4 => ObjectList("Device2")[i] \in DeviceObject
  BY DEF ObjectList, DeviceObject, Streams, Controls, Volumes, Mutes, Scopes
<1>2. /\ ObjectList("Device")[i].scope = IF i = 4 THEN "Global" ELSE "Input"
      /\ ObjectList("Device")[i].type = IF i = 1 THEN "Stream" ELSE "Control"
      /\ i # 4 => /\ ObjectList("Device2")[i].scope = "Output"
                  /\ ObjectList("Device2")[i].type = IF i = 1 THEN "Stream" ELSE "Control"
  BY DEF ObjectList
<1> HIDE DEF ObjectList
<1> QED BY <1>1, <1>2 DEF InScope, OfType, Scopes

\* The lists of the microphone ...
LEMMA ListsOfDevice ==
    ASSUME NEW scope \in Scopes
    PROVE  /\ ObjectsInScope("Device", scope) =
                CASE scope = "Global" -> <<"Stream_Input", "Volume_Input", "Mute_Input", "ClockSource">>
                  [] scope = "Input" -> <<"Stream_Input", "Volume_Input", "Mute_Input">>
                  [] scope = "Output" -> <<>>
           /\ TypedInScope("Device", "Stream", scope) =
                IF scope = "Output" THEN <<>> ELSE <<"Stream_Input">>
           /\ TypedInScope("Device", "Control", scope) =
                CASE scope = "Global" -> <<"Volume_Input", "Mute_Input", "ClockSource">>
                  [] scope = "Input" -> <<"Volume_Input", "Mute_Input">>
                  [] scope = "Output" -> <<>>
<1> DEFINE list == ObjectList("Device")
<1>1. /\ Len(list) = 4 /\ list[1].id = "Stream_Input" /\ list[2].id = "Volume_Input"
      /\ list[3].id = "Mute_Input" /\ list[4].id = "ClockSource"
  BY DEF ObjectList
<1>2. /\ list[1] \in OfType("Stream") /\ list[1] \notin OfType("Control")
      /\ \A i \in {2, 3, 4} : list[i] \notin OfType("Stream") /\ list[i] \in OfType("Control")
      /\ \A i \in 1 .. 4 : list[i] \in InScope(scope)
                             <=> scope = "Global" \/ (scope = "Input" /\ i # 4)
  BY Entries
<1>3. scope = "Global" \/ scope = "Input" \/ scope = "Output"
  BY DEF Scopes
<1> HIDE DEF list
<1>4. Only(list, InScope(scope)) =
        CASE scope = "Global" -> <<list[1], list[2], list[3], list[4]>>
          [] scope = "Input" -> <<list[1], list[2], list[3]>>
          [] scope = "Output" -> <<>>
  BY <1>1, <1>2, <1>3, KeptOfFour
<1>5. Only(list, OfType("Stream") \cap InScope(scope)) =
        IF scope = "Output" THEN <<>> ELSE <<list[1]>>
  BY <1>1, <1>2, <1>3, KeptOfFour
<1>6. Only(list, OfType("Control") \cap InScope(scope)) =
        CASE scope = "Global" -> <<list[2], list[3], list[4]>>
          [] scope = "Input" -> <<list[2], list[3]>>
          [] scope = "Output" -> <<>>
  <2> DEFINE S == OfType("Control") \cap InScope(scope)
  <2>1. /\ list[1] \notin S
        /\ list[4] \in S <=> scope = "Global"
        /\ list[2] \in S <=> scope # "Output"
        /\ list[3] \in S <=> scope # "Output"
    BY <1>2, <1>3
  <2> HIDE DEF S
  <2>2. Only(list, S) =
          CASE scope = "Global" -> <<list[2], list[3], list[4]>>
            [] scope = "Input" -> <<list[2], list[3]>>
            [] scope = "Output" -> <<>>
    BY <1>1, <1>3, <2>1, KeptOfFour
  <2> QED BY <2>2 DEF S
<1>7. /\ Ids(<<>>) = <<>>
      /\ Ids(<<list[1]>>) = <<"Stream_Input">>
      /\ Ids(<<list[2], list[3]>>) = <<"Volume_Input", "Mute_Input">>
      /\ Ids(<<list[1], list[2], list[3]>>) = <<"Stream_Input", "Volume_Input", "Mute_Input">>
      /\ Ids(<<list[2], list[3], list[4]>>) = <<"Volume_Input", "Mute_Input", "ClockSource">>
      /\ Ids(<<list[1], list[2], list[3], list[4]>>)
            = <<"Stream_Input", "Volume_Input", "Mute_Input", "ClockSource">>
  BY <1>1, IdsOf
<1>8. CASE scope = "Global"
  BY <1>4, <1>5, <1>6, <1>7, <1>8 DEF ObjectsInScope, TypedInScope, list
<1>9. CASE scope = "Input"
  BY <1>4, <1>5, <1>6, <1>7, <1>9 DEF ObjectsInScope, TypedInScope, list
<1>10. CASE scope = "Output"
  BY <1>4, <1>5, <1>6, <1>7, <1>10 DEF ObjectsInScope, TypedInScope, list
<1> QED BY <1>3, <1>8, <1>9, <1>10

\* ... and of the feed.
LEMMA ListsOfDevice2 ==
    ASSUME NEW scope \in Scopes
    PROVE  /\ ObjectsInScope("Device2", scope) =
                IF scope = "Input" THEN <<>>
                ELSE <<"Stream_Output", "Volume_Output", "Mute_Output">>
           /\ TypedInScope("Device2", "Stream", scope) =
                IF scope = "Input" THEN <<>> ELSE <<"Stream_Output">>
           /\ TypedInScope("Device2", "Control", scope) =
                IF scope = "Input" THEN <<>> ELSE <<"Volume_Output", "Mute_Output">>
<1> DEFINE list == ObjectList("Device2")
<1>1. /\ Len(list) = 3 /\ list[1].id = "Stream_Output" /\ list[2].id = "Volume_Output"
      /\ list[3].id = "Mute_Output"
  BY DEF ObjectList
<1>2. /\ list[1] \in OfType("Stream") /\ list[1] \notin OfType("Control")
      /\ \A i \in {2, 3} : list[i] \notin OfType("Stream") /\ list[i] \in OfType("Control")
      /\ \A i \in 1 .. 3 : list[i] \in InScope(scope) <=> scope # "Input"
  BY Entries
<1> HIDE DEF list
<1>3. Only(list, InScope(scope)) =
        IF scope = "Input" THEN <<>> ELSE <<list[1], list[2], list[3]>>
  BY <1>1, <1>2, KeptOfThree
<1>4. Only(list, OfType("Stream") \cap InScope(scope)) =
        IF scope = "Input" THEN <<>> ELSE <<list[1]>>
  BY <1>1, <1>2, KeptOfThree
<1>5. Only(list, OfType("Control") \cap InScope(scope)) =
        IF scope = "Input" THEN <<>> ELSE <<list[2], list[3]>>
  <2> DEFINE S == OfType("Control") \cap InScope(scope)
  <2>1. /\ list[1] \notin S
        /\ list[2] \in S <=> scope # "Input"
        /\ list[3] \in S <=> scope # "Input"
    BY <1>2
  <2> HIDE DEF S
  <2>2. Only(list, S) = IF scope = "Input" THEN <<>> ELSE <<list[2], list[3]>>
    BY <1>1, <2>1, KeptOfThree
  <2> QED BY <2>2 DEF S
<1>6. /\ Ids(<<>>) = <<>>
      /\ Ids(<<list[1]>>) = <<"Stream_Output">>
      /\ Ids(<<list[2], list[3]>>) = <<"Volume_Output", "Mute_Output">>
      /\ Ids(<<list[1], list[2], list[3]>>) = <<"Stream_Output", "Volume_Output", "Mute_Output">>
  BY <1>1, IdsOf
<1> QED BY <1>3, <1>4, <1>5, <1>6 DEF ObjectsInScope, TypedInScope, list

\* The places of the controls, by which both devices find theirs.
LEMMA PlacesOfControls ==
    Only([i \in 1 .. Len(ObjectList("Device")) |-> i], {2, 3, 4}) = <<2, 3, 4>>
<1> DEFINE list == [i \in 1 .. Len(ObjectList("Device")) |-> i]
<1>1. Len(list) = 4 /\ list[1] = 1 /\ list[2] = 2 /\ list[3] = 3 /\ list[4] = 4
  BY DEF ObjectList
<1> DEFINE S == {2, 3, 4}
<1>2. list[1] \notin S /\ list[2] \in S /\ list[3] \in S /\ list[4] \in S
  BY <1>1
<1> HIDE DEF list, S
<1>3. Only(list, S) = <<list[2], list[3], list[4]>>
  BY <1>1, <1>2, KeptOfFour
<1>4. Only(list, S) = <<2, 3, 4>>
  BY <1>1, <1>3
<1> QED BY <1>4 DEF list, S

\* Values of a fixed length.
LEMMA FixedFits ==
    ASSUME NEW bytes \in Nat, NEW asked \in Nat
    PROVE  /\ Fits(FixedLength(bytes, asked), asked)
           /\ asked = bytes => Complete(FixedLength(bytes, asked), asked)
BY DEF FixedLength, Answered, Fits, Complete, BadPropertySize, UnknownProperty

\* As many ranges as fit.
LEMMA RangesFit ==
    ASSUME NEW bytes \in Nat \ {0}, NEW asked \in Nat
    PROVE  /\ Fits(RangesThatFit(asked, bytes), asked)
           /\ asked = RateCount * bytes => Complete(RangesThatFit(asked, bytes), asked)
<1> DEFINE n == asked \div bytes
<1>1. n \in Nat /\ n * bytes <= asked
  <2>1. n \in Int /\ asked = bytes * n + (asked % bytes) /\ 0 <= asked % bytes /\ asked % bytes \in Int
        /\ asked % bytes < bytes
    OBVIOUS
  <2> HIDE DEF n
  <2> DEFINE r == asked % bytes
  <2>2. r \in Int /\ asked = bytes * n + r /\ 0 <= r /\ r < bytes
    BY <2>1
  <2> HIDE DEF r
  <2>3. n * bytes = bytes * n
    BY <2>1
  <2>4. n * bytes <= asked
    BY <2>1, <2>2, <2>3
  <2>5. n >= 0
    <3> SUFFICES ASSUME n <= -1 PROVE FALSE
      BY <2>1
    <3>1. bytes * n <= bytes * (-1)
      BY <2>1
    <3> QED BY <3>1, <2>2, <2>1
  <2> QED BY <2>1, <2>4, <2>5
<1>2. asked = RateCount * bytes => n = 2
  BY DEF RateCount
<1> HIDE DEF n
<1>3. RangesThatFit(asked, bytes) = Answered(Fewer(n, RateCount) * bytes)
  BY DEF RangesThatFit, n
<1>4. Fewer(n, RateCount) * bytes <= asked /\ Fewer(n, RateCount) * bytes >= 0
      /\ (n = 2 => Fewer(n, RateCount) = 2)
  BY <1>1 DEF Fewer, RateCount
<1> QED BY <1>2, <1>3, <1>4 DEF Answered, Fits, Complete, UnknownProperty, RateCount

\* Lists of objects.
LEMMA ListFits ==
    ASSUME NEW list \in Seq(Objects), NEW asked \in Nat,
           \A i, j \in 1 .. Len(list) : list[i] = list[j] => i = j
    PROVE  /\ Fits(Listed(FirstItems(list, asked)), asked)
           /\ asked = UInt32 * Len(list) => Complete(Listed(FirstItems(list, asked)), asked)
<1> DEFINE n == asked \div UInt32
           m == Fewer(n, Len(list))
           items == FirstItems(list, asked)
<1>1. n \in Nat /\ 4 * n <= asked /\ (asked = 4 * Len(list) => n = Len(list))
  BY DEF UInt32
<1>2. Len(list) \in Nat /\ m \in 0 .. Len(list) /\ m <= n
  BY <1>1 DEF Fewer
<1>3. items = SubSeq(list, 1, m)
  BY DEF FirstItems
<1>4. Len(items) = m /\ \A i \in 1 .. m : items[i] = list[i]
  <2> HIDE DEF m, items
  <2> QED BY <1>2, <1>3
<1>5. n = Len(list) => m = Len(list)
  BY DEF Fewer
<1> HIDE DEF n, m, items
<1>6. Listed(items).bytes = 4 * m /\ Listed(items).items = items
  BY <1>4 DEF Listed, UInt32
<1>7. Fits(Listed(items), asked)
  BY <1>1, <1>2, <1>6 DEF Fits, UnknownProperty
<1>8. ASSUME asked = UInt32 * Len(list) PROVE Complete(Listed(items), asked)
  <2>1. m = Len(list)
    BY <1>1, <1>5, <1>8 DEF UInt32
  <2> QED BY <1>2, <1>4, <1>6, <1>8, <2>1 DEF Complete, UInt32
<1> QED BY <1>7, <1>8 DEF items

\* A read that refuses every buffer, or leaves the length to the caller.
LEMMA NothingFits ==
    ASSUME NEW n \in {BadPropertySize, Untold}, NEW asked \in Nat
    PROVE  Fits(Answered(n), asked)
BY DEF Fits, Answered, BadPropertySize, Untold, UnknownProperty

LEMMA EmptyList ==
    ASSUME NEW asked \in Nat
    PROVE  Fits(Listed(<<>>), asked) /\ (asked = 0 => Complete(Listed(<<>>), asked))
BY DEF Fits, Complete, Listed, UInt32, UnknownProperty

\* The lists of the plug-in and the box.
LEMMA DeviceListFits ==
    ASSUME NEW asked \in Nat, NEW is \in BOOLEAN
    PROVE  /\ Fits(Listed(DeviceListItems(asked, is)), asked)
           /\ asked = (IF is THEN 2 ELSE 0) * UInt32
                => Complete(Listed(DeviceListItems(asked, is)), asked)
<1> DEFINE list == IF is THEN <<"Device", "Device2">> ELSE <<>>
<1>1. /\ list \in Seq(Objects) /\ Len(list) = IF is THEN 2 ELSE 0
      /\ \A i, j \in 1 .. Len(list) : list[i] = list[j] => i = j
  <2>1. CASE is
    BY <2>1 DEF Objects, Devices
  <2>2. CASE ~is
    BY <2>2
  <2> QED BY <2>1, <2>2
<1>2. DeviceListItems(asked, is) = FirstItems(list, asked)
  BY DEF DeviceListItems
<1>3. (IF is THEN 2 ELSE 0) * UInt32 = UInt32 * Len(list)
  BY <1>1 DEF UInt32
<1> HIDE DEF list
<1> QED BY <1>1, <1>2, <1>3, ListFits

LEMMA BoxListFits ==
    ASSUME NEW asked \in Nat
    PROVE  /\ Fits(Listed(FirstItems(<<"Box">>, asked)), asked)
           /\ asked = UInt32 => Complete(Listed(FirstItems(<<"Box">>, asked)), asked)
<1> DEFINE list == <<"Box">>
<1>1. /\ list \in Seq(Objects) /\ UInt32 = UInt32 * Len(list)
      /\ \A i, j \in 1 .. Len(list) : list[i] = list[j] => i = j
  BY DEF Objects, UInt32
<1> HIDE DEF list
<1>2. /\ Fits(Listed(FirstItems(list, asked)), asked)
      /\ asked = UInt32 => Complete(Listed(FirstItems(list, asked)), asked)
  BY <1>1, ListFits
<1> QED BY <1>2 DEF list

LEMMA PlugInAnswers ==
    ASSUME NEW s, HasPlugInProperty(s), NEW was \in BOOLEAN, NEW is \in BOOLEAN
    PROVE  GoodAnswer("PlugIn", s, PlugInSize(s, was),
                      PlugInData(s, PlugInSize(s, was), is), was = is)
<1> DEFINE asked == PlugInSize(s, was)
           given == PlugInData(s, asked, is)
<1>1. CASE s = "OwnedObjects"
  <2>1. asked = IF was THEN 8 ELSE 4
    BY <1>1 DEF PlugInSize, UInt32
  <2>2. given = PlugInOwned(asked, is)
    BY <1>1 DEF PlugInData
  <2>3. /\ asked \in Nat
        /\ given.bytes \in {0, 4, 8} /\ given.bytes <= asked
    BY <2>1, <2>2 DEF PlugInOwned, Listed, UInt32, Fewer
  <2>4. WrongAnswer("PlugIn", s)
    BY <1>1 DEF WrongAnswer
  <2> QED BY <2>3, <2>4 DEF GoodAnswer, Fits, UnknownProperty
<1>2. CASE s = "DeviceList"
  <2>1. asked = (IF was THEN 2 ELSE 0) * UInt32 /\ asked \in Nat
    BY <1>2 DEF PlugInSize, UInt32
  <2>2. given = Listed(DeviceListItems(asked, is))
    BY <1>2 DEF PlugInData
  <2> HIDE DEF asked, given
  <2>3. GoodAnswer("PlugIn", s, asked, given, was = is)
    BY <2>1, <2>2, DeviceListFits DEF GoodAnswer
  <2> QED BY <2>3 DEF asked, given
<1>3. CASE s = "BoxList"
  <2>1. asked = UInt32 /\ asked \in Nat
    BY <1>3 DEF PlugInSize, UInt32
  <2>2. given = Listed(FirstItems(<<"Box">>, asked))
    BY <1>3 DEF PlugInData
  <2> HIDE DEF asked, given
  <2>3. GoodAnswer("PlugIn", s, asked, given, was = is)
    BY <2>1, <2>2, BoxListFits DEF GoodAnswer
  <2> QED BY <2>3 DEF asked, given
<1>4. CASE s \in {"TranslateUIDToBox", "TranslateUIDToDevice"}
  <2>1. asked \in Nat
    BY <1>4 DEF PlugInSize, UInt32
  <2>2. given = Answered(BadPropertySize)
    BY <1>4 DEF PlugInData, TranslateUID
  <2>3. WrongAnswer("PlugIn", s)
    BY <1>4 DEF WrongAnswer
  <2> QED BY <2>1, <2>2, <2>3, NothingFits DEF GoodAnswer
<1>5. CASE s = "ResourceBundle"
  BY <1>5 DEF GoodAnswer, PlugInSize, PlugInData, Answered, Fits, Complete, Pointer, UInt32,
              BadPropertySize, UnknownProperty
<1>6. CASE s = "Manufacturer"
  <2>1. asked = Pointer /\ given = FixedLength(Pointer, asked)
    BY <1>6 DEF PlugInSize, PlugInData
  <2> QED BY <2>1, FixedFits DEF GoodAnswer, Pointer
<1>7. CASE s \in {"BaseClass", "Class", "Owner"}
  <2>1. asked = UInt32 /\ given = FixedLength(UInt32, asked)
    BY <1>7 DEF PlugInSize, PlugInData
  <2> QED BY <2>1, FixedFits DEF GoodAnswer, UInt32
<1> QED BY <1>1, <1>2, <1>3, <1>4, <1>5, <1>6, <1>7 DEF HasPlugInProperty

LEMMA BoxAnswers ==
    ASSUME NEW s, HasBoxProperty(s), NEW was \in BOOLEAN, NEW is \in BOOLEAN
    PROVE  GoodAnswer("Box", s, BoxSize(s, was), BoxData(s, BoxSize(s, was), is), was = is)
<1> DEFINE asked == BoxSize(s, was)
           given == BoxData(s, asked, is)
<1>1. CASE s = "OwnedObjects"
  <2>1. asked = 0
    BY <1>1 DEF BoxSize, BoxNames, BoxFlags
  <2>2. given = BoxIdentity(s, asked)
    BY <1>1 DEF BoxData
  <2>3. BoxIdentity(s, asked) = Listed(<<>>)
    BY <1>1 DEF BoxIdentity
  <2> QED BY <2>1, <2>2, <2>3, EmptyList DEF GoodAnswer
<1>2. CASE s = "DeviceList"
  <2>1. asked = (IF was THEN 2 ELSE 0) * UInt32 /\ asked \in Nat
    BY <1>2 DEF BoxSize, BoxNames, BoxFlags, UInt32
  <2>2. given = IF is /\ asked < UInt32 THEN Answered(BadPropertySize)
                ELSE Listed(DeviceListItems(asked, is))
    <3>1. given = BoxDeviceList(asked, is)
      BY <1>2 DEF BoxData
    <3> HIDE DEF asked, given
    <3> QED BY <3>1 DEF BoxDeviceList
  <2>3. is /\ asked < UInt32 => ~(was = is)
    <3>1. CASE was = is /\ is
      <4>1. asked = 2 * UInt32
        BY <2>1, <3>1
      <4> QED BY <4>1 DEF UInt32
    <3> QED BY <3>1
  <2> HIDE DEF asked, given
  <2>4. GoodAnswer("Box", s, asked, given, was = is)
    BY <2>1, <2>2, <2>3, DeviceListFits, NothingFits DEF GoodAnswer
  <2> QED BY <2>4 DEF asked, given
<1>3. CASE s = "BoxUID"
  <2>1. asked = Pointer
    BY <1>3 DEF BoxSize, BoxNames, BoxFlags
  <2>2. given = Answered(Untold)
    <3>1. given = BoxAbout(s, asked)
      BY <1>3 DEF BoxData, HasBoxProperty, BoxNames
    <3>2. asked = 8
      BY <2>1 DEF Pointer
    <3> HIDE DEF asked, given
    <3>3. BoxAbout(s, asked) = Answered(IF asked < Pointer THEN BadPropertySize ELSE Untold)
      BY <1>3 DEF BoxAbout
    <3> QED BY <3>1, <3>2, <3>3 DEF Pointer
  <2>3. WrongAnswer("Box", s)
    BY <1>3 DEF WrongAnswer
  <2> QED BY <2>1, <2>2, <2>3, NothingFits DEF GoodAnswer, Pointer
<1>4. CASE s \in BoxNames \ {"BoxUID"}
  <2>1. asked = Pointer
    BY <1>4 DEF BoxSize, BoxNames, BoxFlags
  <2>2. given = FixedLength(Pointer, asked)
    BY <1>4 DEF BoxData, BoxIdentity, BoxAbout, HasBoxProperty, BoxNames
  <2> QED BY <2>1, <2>2, FixedFits DEF GoodAnswer, Pointer
<1>5. CASE s \in BoxFlags \cup {"BaseClass", "Class", "Owner"}
  <2>1. asked = UInt32
    BY <1>5 DEF BoxSize, BoxNames, BoxFlags
  <2>2. given = FixedLength(UInt32, asked)
    BY <1>5 DEF BoxData, BoxIdentity, BoxAbout, HasBoxProperty, BoxNames, BoxFlags
  <2> QED BY <2>1, <2>2, FixedFits DEF GoodAnswer, UInt32
<1> QED BY <1>1, <1>2, <1>3, <1>4, <1>5 DEF HasBoxProperty, BoxNames, BoxFlags

\* The devices.
\* Their lists are of different objects.
LEMMA ListsDiffer ==
    ASSUME NEW d \in Devices, NEW scope \in Scopes,
           NEW list \in {ObjectsInScope(d, scope), TypedInScope(d, "Stream", scope),
                         TypedInScope(d, "Control", scope)}
    PROVE  /\ list \in Seq(Objects)
           /\ \A i, j \in 1 .. Len(list) : list[i] = list[j] => i = j
<1>1. list \in {<<>>, <<"Stream_Input", "Volume_Input", "Mute_Input", "ClockSource">>,
                <<"Stream_Input", "Volume_Input", "Mute_Input">>, <<"Stream_Input">>,
                <<"Volume_Input", "Mute_Input", "ClockSource">>, <<"Volume_Input", "Mute_Input">>,
                <<"Stream_Output", "Volume_Output", "Mute_Output">>, <<"Stream_Output">>,
                <<"Volume_Output", "Mute_Output">>}
  <2>1. scope = "Global" \/ scope = "Input" \/ scope = "Output"
    BY DEF Scopes
  <2>2. CASE d = "Device"
    BY <2>1, <2>2, ListsOfDevice
  <2>3. CASE d = "Device2"
    BY <2>1, <2>3, ListsOfDevice2
  <2> QED BY <2>2, <2>3 DEF Devices
<1>2. {"Stream_Input", "Volume_Input", "Mute_Input", "ClockSource", "Stream_Output",
       "Volume_Output", "Mute_Output"} \subseteq Objects
  BY DEF Objects, Streams, Controls, Volumes, Mutes
<1>3. CASE list = <<>>
  BY <1>3
<1>4. CASE list = <<"Stream_Input", "Volume_Input", "Mute_Input", "ClockSource">>
  BY <1>2, <1>4
<1>5. CASE list = <<"Stream_Input", "Volume_Input", "Mute_Input">>
  BY <1>2, <1>5
<1>6. CASE list = <<"Stream_Input">>
  BY <1>2, <1>6
<1>7. CASE list = <<"Volume_Input", "Mute_Input", "ClockSource">>
  BY <1>2, <1>7
<1>8. CASE list = <<"Volume_Input", "Mute_Input">>
  BY <1>2, <1>8
<1>9. CASE list = <<"Stream_Output", "Volume_Output", "Mute_Output">>
  BY <1>2, <1>9
<1>10. CASE list = <<"Stream_Output">>
  BY <1>2, <1>10
<1>11. CASE list = <<"Volume_Output", "Mute_Output">>
  BY <1>2, <1>11
<1> QED BY <1>1, <1>3, <1>4, <1>5, <1>6, <1>7, <1>8, <1>9, <1>10, <1>11

\* Each finds its controls at places of the microphone's list.
LEMMA ControlsFit ==
    ASSUME NEW d \in Devices, NEW scope \in Scopes, NEW pitchOn \in BOOLEAN, NEW asked \in Nat
    PROVE  /\ Fits(Listed(ControlItems(d, scope, asked, pitchOn)), asked)
           /\ asked = device_control_list_size(scope, d) * UInt32
                => Complete(Listed(ControlItems(d, scope, asked, pitchOn)), asked)
<1> DEFINE size == device_control_list_size(scope, d)
           n == Fewer(asked \div UInt32, size)
           mine == ObjectList("Device")
           shown(i) == /\ mine[i].type = "Control"
                       /\ ~(~pitchOn /\ mine[i].id = "Pitch")
           places == Only([i \in 1..Len(mine) |-> i], {i \in 1..Len(mine) : shown(i)})
           items == ControlItems(d, scope, asked, pitchOn)
<1>1. places = <<2, 3, 4>>
  <2>1. {i \in 1 .. Len(mine) : shown(i)} = {2, 3, 4}
    <3>1. Len(mine) = 4 /\ 1 .. 4 = {1, 2, 3, 4}
      BY DEF ObjectList
    <3>2. ~shown(1) /\ shown(2) /\ shown(3) /\ shown(4)
      BY DEF ObjectList
    <3> HIDE DEF mine, shown
    <3> QED BY <3>1, <3>2
  <2> QED BY <2>1, PlacesOfControls
<1>2. size \in Nat /\ size <= 3 /\ (d = "Device2" => size <= 2)
  <2>1. scope = "Global" \/ scope = "Input" \/ scope = "Output"
    BY DEF Scopes
  <2>2. CASE d = "Device"
    <3>1. TypedInScope("Device", "Control", scope)
            \in {<<"Volume_Input", "Mute_Input", "ClockSource">>, <<"Volume_Input", "Mute_Input">>, <<>>}
      BY <2>1, ListsOfDevice
    <3>2. size = Len(TypedInScope("Device", "Control", scope))
      BY <2>2 DEF device_control_list_size
    <3> HIDE DEF size
    <3>3. size \in {3, 2, 0}
      BY <3>1, <3>2
    <3> QED BY <2>2, <3>3
  <2>3. CASE d = "Device2"
    <3>1. TypedInScope("Device2", "Control", scope) \in {<<"Volume_Output", "Mute_Output">>, <<>>}
      BY <2>1, ListsOfDevice2
    <3>2. size = Len(TypedInScope("Device2", "Control", scope))
      BY <2>3 DEF device_control_list_size
    <3> HIDE DEF size
    <3>3. size \in {2, 0}
      BY <3>1, <3>2
    <3> QED BY <3>3
  <2> QED BY <2>2, <2>3 DEF Devices
<1>3. items = [k \in 1 .. n |-> ObjectList(d)[places[k]].id]
  BY DEF ControlItems
<1>4. n \in Nat /\ n <= size /\ 4 * n <= asked /\ (asked = size * UInt32 => n = size /\ asked = 4 * n)
  <2> HIDE DEF size
  <2> QED BY <1>2 DEF Fewer, UInt32
<1>5. ASSUME NEW k \in 1 .. n PROVE items[k] = ObjectList(d)[k + 1].id
  <2>1. k \in {1, 2, 3}
    BY <1>2, <1>4
  <2>2. places[k] = k + 1
    BY <1>1, <2>1
  <2> HIDE DEF places, items
  <2> QED BY <1>3, <2>2
<1>6. Len(items) = n
  <2> HIDE DEF places, n
  <2> QED BY <1>3, <1>4
<1> HIDE DEF size, n, mine, places, items
<1>7. ASSUME NEW k \in 1 .. n
      PROVE  /\ items[k] \in Objects
             /\ \A j \in 1 .. n : items[k] = items[j] => k = j
  <2> USE DEF ObjectList, Objects, Controls, Volumes, Mutes
  <2>1. CASE d = "Device"
    BY <1>2, <1>4, <1>5, <2>1
  <2>2. CASE d = "Device2"
    BY <1>2, <1>4, <1>5, <2>2
  <2> QED BY <2>1, <2>2 DEF Devices
<1>8. Listed(items).bytes = 4 * n /\ Listed(items).items = items
  BY <1>6 DEF Listed, UInt32
<1>9. Fits(Listed(items), asked)
  BY <1>4, <1>8 DEF Fits, UnknownProperty
<1>10. asked = size * UInt32 => Complete(Listed(items), asked)
  BY <1>4, <1>6, <1>7, <1>8 DEF Complete
<1> QED BY <1>9, <1>10 DEF items, size

\* A list of the length that was announced.
LEMMA ListAnswer ==
    ASSUME NEW o, NEW s, NEW list \in Seq(Objects), NEW asked, NEW given, NEW same,
           \A i, j \in 1 .. Len(list) : list[i] = list[j] => i = j,
           asked = UInt32 * Len(list), given = Listed(FirstItems(list, asked))
    PROVE  GoodAnswer(o, s, asked, given, same)
<1>1. asked \in Nat
  BY DEF UInt32
<1> QED BY <1>1, ListFits DEF GoodAnswer

\* A value whose length is known.
LEMMA FixedAnswer ==
    ASSUME NEW o, NEW s, NEW bytes \in Nat, NEW asked, NEW given, NEW same,
           asked = bytes, given = FixedLength(bytes, asked)
    PROVE  GoodAnswer(o, s, asked, given, same)
BY FixedFits DEF GoodAnswer

LEMMA DeviceAnswers ==
    ASSUME NEW d \in Devices, NEW s, NEW scope \in Scopes, HasDeviceProperty(s, scope),
           NEW pitchOn \in BOOLEAN, NEW same
    PROVE  GoodAnswer(d, s, DeviceSize(d, s, scope),
                      DeviceData(d, s, scope, DeviceSize(d, s, scope), pitchOn), same)
<1> DEFINE asked == DeviceSize(d, s, scope)
           given == DeviceData(d, s, scope, asked, pitchOn)
<1>1. CASE s = "OwnedObjects"
  <2> DEFINE list == ObjectsInScope(d, scope)
  <2>1. list \in Seq(Objects) /\ \A i, j \in 1 .. Len(list) : list[i] = list[j] => i = j
    BY ListsDiffer
  <2>2. asked = Len(list) * UInt32
    BY <1>1 DEF DeviceSize, DeviceStrings, DeviceWords, DeviceScopedWords, device_object_list_size
  <2>3. given = Listed(FirstItems(list, asked))
    BY <1>1 DEF DeviceData, OwnedItems, DeviceRates, PreferredChannels
  <2> HIDE DEF list, asked, given
  <2>4. asked = UInt32 * Len(list)
    BY <2>1, <2>2 DEF UInt32
  <2>5. GoodAnswer(d, s, asked, given, same)
    BY <2>1, <2>3, <2>4, ListAnswer
  <2> QED BY <2>5 DEF asked, given
<1>2. CASE s = "Streams"
  <2> DEFINE list == TypedInScope(d, "Stream", scope)
  <2>1. list \in Seq(Objects) /\ \A i, j \in 1 .. Len(list) : list[i] = list[j] => i = j
    BY ListsDiffer
  <2>2. asked = Len(list) * UInt32
    BY <1>2 DEF DeviceSize, DeviceStrings, DeviceWords, DeviceScopedWords, device_stream_list_size
  <2>3. given = Listed(FirstItems(list, asked))
    BY <1>2 DEF DeviceData, StreamItems, DeviceRates, PreferredChannels
  <2> HIDE DEF list, asked, given
  <2>4. asked = UInt32 * Len(list)
    BY <2>1, <2>2 DEF UInt32
  <2>5. GoodAnswer(d, s, asked, given, same)
    BY <2>1, <2>3, <2>4, ListAnswer
  <2> QED BY <2>5 DEF asked, given
<1>3. CASE s = "ControlList"
  <2> DEFINE list == TypedInScope(d, "Control", scope)
  <2>1. list \in Seq(Objects) /\ Len(list) * UInt32 \in Nat
    BY ListsDiffer DEF UInt32
  <2>2. asked = device_control_list_size(scope, d) * UInt32
    BY <1>3 DEF DeviceSize, DeviceStrings, DeviceWords, DeviceScopedWords
  <2>3. given = Listed(ControlItems(d, scope, asked, pitchOn))
    BY <1>3 DEF DeviceData, DeviceRates, PreferredChannels
  <2>4. asked \in Nat
    BY <2>1, <2>2 DEF device_control_list_size
  <2> HIDE DEF asked, given
  <2>5. GoodAnswer(d, s, asked, given, same)
    BY <2>2, <2>3, <2>4, ControlsFit DEF GoodAnswer
  <2> QED BY <2>5 DEF asked, given
<1>4. CASE s = "RelatedDevices"
  <2> DEFINE list == <<d>>
  <2>1. /\ list \in Seq(Objects) /\ Len(list) = 1
        /\ \A i, j \in 1 .. Len(list) : list[i] = list[j] => i = j
    BY DEF Objects
  <2>2. asked = UInt32
    BY <1>4 DEF DeviceSize, DeviceStrings, DeviceWords
  <2>3. given = Listed(FirstItems(list, asked))
    BY <1>4 DEF DeviceData, RelatedDevices, DeviceRates, PreferredChannels
  <2> HIDE DEF list, asked, given
  <2>4. asked = UInt32 * Len(list)
    BY <2>1, <2>2 DEF UInt32
  <2>5. GoodAnswer(d, s, asked, given, same)
    BY <2>1, <2>3, <2>4, ListAnswer
  <2> QED BY <2>5 DEF asked, given
<1>5. CASE s = "AvailableNominalSampleRates"
  <2>1. asked = RateCount * ValueRange /\ asked \in Nat
    BY <1>5 DEF DeviceSize, DeviceStrings, DeviceWords, DeviceScopedWords, RateCount, ValueRange
  <2>2. given = RangesThatFit(asked, ValueRange)
    BY <1>5 DEF DeviceData, DeviceFormat, DeviceRates, PreferredChannels
  <2> HIDE DEF asked, given
  <2>3. GoodAnswer(d, s, asked, given, same)
    BY <2>1, <2>2, RangesFit DEF GoodAnswer, ValueRange
  <2> QED BY <2>3 DEF asked, given
<1>6. CASE s = "PreferredChannelsForStereo"
  <2>1. asked = 2 * UInt32
    BY <1>6 DEF DeviceSize, DeviceStrings, DeviceWords, DeviceScopedWords
  <2>2. given = FixedLength(2 * UInt32, asked)
    BY <1>6 DEF DeviceData, DeviceChannels, DeviceRates, PreferredChannels
  <2> HIDE DEF asked, given
  <2>3. GoodAnswer(d, s, asked, given, same)
    BY <2>1, <2>2, FixedAnswer DEF UInt32
  <2> QED BY <2>3 DEF asked, given
<1>7. CASE s = "PreferredChannelLayout"
  <2>1. asked = ChannelLayout
    BY <1>7 DEF DeviceSize, DeviceStrings, DeviceWords, DeviceScopedWords
  <2>2. given = FixedLength(ChannelLayout, asked)
    BY <1>7 DEF DeviceData, DeviceChannels, DeviceRates, PreferredChannels
  <2> HIDE DEF asked, given
  <2>3. GoodAnswer(d, s, asked, given, same)
    BY <2>1, <2>2, FixedAnswer DEF ChannelLayout
  <2> QED BY <2>3 DEF asked, given
<1>8. CASE s \in DeviceStrings \cup {"NominalSampleRate"}
  <2>1. asked = Pointer
    BY <1>8 DEF DeviceSize, DeviceStrings, DeviceWords, DeviceScopedWords
  <2>2. given = FixedLength(Pointer, asked)
    <3>1. CASE s = "NominalSampleRate"
      BY <3>1 DEF DeviceData, DeviceFormat, DeviceRates, PreferredChannels
    <3>2. CASE s = "Icon"
      BY <3>2 DEF DeviceData, DeviceChannels, DeviceRates, PreferredChannels
    <3>3. CASE s \in DeviceStrings \ {"Icon"}
      BY <3>3 DEF DeviceData, DeviceIdentity, DeviceRates, PreferredChannels, DeviceStrings
    <3> QED BY <1>8, <3>1, <3>2, <3>3
  <2> HIDE DEF asked, given
  <2>3. GoodAnswer(d, s, asked, given, same)
    BY <2>1, <2>2, FixedAnswer DEF Pointer
  <2> QED BY <2>3 DEF asked, given
<1>9. CASE s \in (DeviceWords \ {"RelatedDevices"}) \cup DeviceScopedWords
  <2>1. asked = UInt32
    BY <1>9 DEF DeviceSize, DeviceStrings, DeviceWords, DeviceScopedWords
  <2>2. given = FixedLength(UInt32, asked)
    <3>1. CASE s = "SafetyOffset"
      BY <3>1 DEF DeviceData, DeviceFormat, DeviceRates, PreferredChannels
    <3>2. CASE s \in {"IsHidden", "ZeroTimeStampPeriod"}
      BY <3>2 DEF DeviceData, DeviceChannels, DeviceRates, PreferredChannels
    <3>3. CASE s \notin {"SafetyOffset", "IsHidden", "ZeroTimeStampPeriod"}
      BY <1>9, <3>3 DEF DeviceData, DeviceIdentity, DeviceRates, PreferredChannels, DeviceStrings,
                        DeviceWords, DeviceScopedWords
    <3> QED BY <3>1, <3>2, <3>3
  <2> HIDE DEF asked, given
  <2>3. GoodAnswer(d, s, asked, given, same)
    BY <2>1, <2>2, FixedAnswer DEF UInt32
  <2> QED BY <2>3 DEF asked, given
<1> QED BY <1>1, <1>2, <1>3, <1>4, <1>5, <1>6, <1>7, <1>8, <1>9
        DEF HasDeviceProperty, DeviceLists, DeviceRates, PreferredChannels

\* Streams and controls.
LEMMA StreamAnswers ==
    ASSUME NEW o, NEW s, HasStreamProperty(s), NEW same
    PROVE  GoodAnswer(o, s, StreamSize(s), StreamData(s, StreamSize(s)), same)
<1> DEFINE asked == StreamSize(s)
           given == StreamData(s, asked)
<1>1. CASE s = "OwnedObjects"
  <2>1. asked = 0
    BY <1>1 DEF StreamSize, StreamWords, StreamFormats, AvailableFormats
  <2>2. given = Listed(<<>>)
    BY <1>1 DEF StreamData, StreamFormats, AvailableFormats, StreamIdentity, HasStreamProperty
  <2> QED BY <2>1, <2>2, EmptyList DEF GoodAnswer
<1>2. CASE s \in StreamWords
  <2>1. asked = UInt32
    BY <1>2 DEF StreamSize, StreamWords, StreamFormats, AvailableFormats
  <2>2. given = FixedLength(UInt32, asked)
    BY <1>2 DEF StreamData, StreamWords, StreamFormats, AvailableFormats, StreamIdentity,
                HasStreamProperty
  <2> QED BY <2>1, <2>2, FixedAnswer DEF UInt32
<1>3. CASE s \in StreamFormats
  <2>1. asked = StreamFormat
    BY <1>3 DEF StreamSize, StreamWords, StreamFormats, AvailableFormats
  <2>2. given = FixedLength(StreamFormat, asked)
    BY <1>3 DEF StreamData, StreamFormats, AvailableFormats
  <2> QED BY <2>1, <2>2, FixedAnswer DEF StreamFormat
<1>4. CASE s \in AvailableFormats
  <2>1. asked = RateCount * RangedFormat /\ asked \in Nat
    BY <1>4 DEF StreamSize, StreamWords, StreamFormats, AvailableFormats, RateCount, RangedFormat
  <2>2. given = RangesThatFit(asked, RangedFormat)
    BY <1>4 DEF StreamData, StreamFormats, AvailableFormats
  <2> HIDE DEF asked, given
  <2>3. GoodAnswer(o, s, asked, given, same)
    BY <2>1, <2>2, RangesFit DEF GoodAnswer, RangedFormat
  <2> QED BY <2>3 DEF asked, given
<1> QED BY <1>1, <1>2, <1>3, <1>4 DEF HasStreamProperty

LEMMA ControlAnswers ==
    ASSUME NEW c \in Controls, NEW s, HasControlProperty(c, s), NEW scope, NEW was, NEW is,
           NEW pitchOn, NEW same
    PROVE  GoodAnswer(c, s, GetPropertyDataSize(c, s, scope, was),
                      GetPropertyData(c, s, scope, GetPropertyDataSize(c, s, scope, was), is,
                                      pitchOn), same)
<1> DEFINE asked == GetPropertyDataSize(c, s, scope, was)
           given == GetPropertyData(c, s, scope, asked, is, pitchOn)
<1> SUFFICES GoodAnswer(c, s, asked, given, same)
  OBVIOUS
<1>1. CASE c \in Volumes
  <2>1. asked = VolumeSize(s) /\ given = VolumeData(s, asked)
    BY <1>1 DEF GetPropertyDataSize, GetPropertyData, Volumes, Mutes, Devices, Streams
  <2>2. s \in ControlWords \cup {"OwnedObjects"} \cup Levels \cup Conversions \cup {"DecibelRange"}
    BY <1>1 DEF HasControlProperty, OwnProperties, Volumes, Mutes
  <2> HIDE DEF asked, given
  <2>3. CASE s = "OwnedObjects"
    <3>1. asked = 0
      BY <2>1, <2>3 DEF VolumeSize, ControlWords, Levels, Conversions
    <3>2. given = Listed(<<>>)
      BY <2>1, <2>3 DEF VolumeData, ControlWords, Levels, Conversions
    <3> QED BY <3>1, <3>2, EmptyList DEF GoodAnswer
  <2>4. CASE s = "DecibelRange"
    <3>1. asked = ValueRange
      BY <2>1, <2>4 DEF VolumeSize, ControlWords, Levels, Conversions
    <3>2. given = FixedLength(ValueRange, asked)
      BY <2>1, <2>4 DEF VolumeData, ControlWords, Levels, Conversions
    <3> QED BY <3>1, <3>2, FixedAnswer DEF ValueRange
  <2>5. CASE s \in ControlWords \cup Levels \cup Conversions
    <3>1. asked = UInt32
      BY <2>1, <2>5 DEF VolumeSize, ControlWords, Levels, Conversions
    <3>2. given = FixedLength(UInt32, asked)
      BY <2>1, <2>5 DEF VolumeData, ControlWords, Levels, Conversions
    <3> QED BY <3>1, <3>2, FixedAnswer DEF UInt32
  <2> QED BY <2>2, <2>3, <2>4, <2>5
<1>2. CASE c \in Mutes
  <2>1. asked = MuteSize(s) /\ given = MuteData(s, asked)
    BY <1>2 DEF GetPropertyDataSize, GetPropertyData, Volumes, Mutes, Devices, Streams
  <2>2. s \in ControlWords \cup {"OwnedObjects", "BooleanValue"}
    BY <1>2 DEF HasControlProperty, OwnProperties, Volumes, Mutes
  <2> HIDE DEF asked, given
  <2>3. CASE s = "OwnedObjects"
    <3>1. asked = 0
      BY <2>1, <2>3 DEF MuteSize, ControlWords
    <3>2. given = Listed(<<>>)
      BY <2>1, <2>3 DEF MuteData, ControlWords
    <3> QED BY <3>1, <3>2, EmptyList DEF GoodAnswer
  <2>4. CASE s \in ControlWords \cup {"BooleanValue"}
    <3>1. asked = UInt32
      BY <2>1, <2>4 DEF MuteSize, ControlWords
    <3>2. given = FixedLength(UInt32, asked)
      BY <2>1, <2>4 DEF MuteData, ControlWords
    <3> QED BY <3>1, <3>2, FixedAnswer DEF UInt32
  <2> QED BY <2>2, <2>3, <2>4
<1>3. CASE c = "Pitch"
  <2>1. asked = PitchSize(s) /\ given = PitchData(s, asked)
    BY <1>3 DEF GetPropertyDataSize, GetPropertyData, Volumes, Mutes, Devices, Streams
  <2>2. s \in ControlWords \cup {"OwnedObjects", "StereoPanValue"}
    BY <1>3 DEF HasControlProperty, OwnProperties, Volumes, Mutes
  <2> HIDE DEF asked, given
  <2>3. CASE s = "OwnedObjects"
    <3>1. asked = 0
      BY <2>1, <2>3 DEF PitchSize, ControlWords
    <3>2. given = Listed(<<>>)
      BY <2>1, <2>3 DEF PitchData, ControlWords
    <3> QED BY <3>1, <3>2, EmptyList DEF GoodAnswer
  <2>4. CASE s \in ControlWords \cup {"StereoPanValue"}
    <3>1. asked = UInt32
      BY <2>1, <2>4 DEF PitchSize, ControlWords
    <3>2. given = FixedLength(UInt32, asked)
      BY <2>1, <2>4 DEF PitchData, ControlWords
    <3> QED BY <3>1, <3>2, FixedAnswer DEF UInt32
  <2> QED BY <2>2, <2>3, <2>4
<1>4. CASE c = "ClockSource"
  <2>1. asked = ClockSourceSize(s) /\ given = ClockSourceData(s, asked)
    BY <1>4 DEF GetPropertyDataSize, GetPropertyData, Volumes, Mutes, Devices, Streams
  <2>2. s \in ControlWords \cup {"OwnedObjects", "CurrentItem", "AvailableItems", "ItemName"}
    BY <1>4 DEF HasControlProperty, OwnProperties, Volumes, Mutes
  <2> HIDE DEF asked, given
  <2>3. CASE s = "OwnedObjects"
    <3>1. asked = 0
      BY <2>1, <2>3 DEF ClockSourceSize, ControlWords
    <3>2. given = Listed(<<>>)
      BY <2>1, <2>3 DEF ClockSourceData, ControlWords
    <3> QED BY <3>1, <3>2, EmptyList DEF GoodAnswer
  <2>4. CASE s = "AvailableItems"
    <3>1. asked = 8
      BY <2>1, <2>4 DEF ClockSourceSize, ControlWords, ClockItems, UInt32
    <3>2. given = Answered(Fewer(asked \div UInt32, ClockItems) * UInt32)
      BY <2>1, <2>4 DEF ClockSourceData, ControlWords
    <3>3. Fewer(asked \div UInt32, ClockItems) * UInt32 = 8
      BY <3>1 DEF Fewer, ClockItems, UInt32
    <3> QED BY <3>1, <3>2, <3>3 DEF GoodAnswer, Answered, Fits, Complete, UnknownProperty
  <2>5. CASE s = "ItemName"
    <3>1. asked = Pointer
      BY <2>1, <2>5 DEF ClockSourceSize, ControlWords
    <3>2. given = FixedLength(Pointer, asked)
      BY <2>1, <2>5 DEF ClockSourceData, ControlWords
    <3> QED BY <3>1, <3>2, FixedAnswer DEF Pointer
  <2>6. CASE s \in ControlWords \cup {"CurrentItem"}
    <3>1. asked = UInt32
      BY <2>1, <2>6 DEF ClockSourceSize, ControlWords
    <3>2. given = FixedLength(UInt32, asked)
      BY <2>1, <2>6 DEF ClockSourceData, ControlWords
    <3> QED BY <3>1, <3>2, FixedAnswer DEF UInt32
  <2> QED BY <2>2, <2>3, <2>4, <2>5, <2>6
<1> QED BY <1>1, <1>2, <1>3, <1>4 DEF Controls

LEMMA AllAnswers ==
    ASSUME NEW o \in Objects, NEW s, NEW scope \in Scopes, HasProperty(o, s, scope),
           NEW was \in BOOLEAN, NEW is \in BOOLEAN, NEW pitchOn \in BOOLEAN
    PROVE  GoodAnswer(o, s, GetPropertyDataSize(o, s, scope, was),
                      GetPropertyData(o, s, scope, GetPropertyDataSize(o, s, scope, was), is,
                                      pitchOn), was = is)
<1> USE DEF Devices, Streams, Controls, Volumes, Mutes
<1>1. CASE o = "PlugIn"
  BY <1>1, PlugInAnswers DEF HasProperty, GetPropertyDataSize, GetPropertyData
<1>2. CASE o = "Box"
  BY <1>2, BoxAnswers DEF HasProperty, GetPropertyDataSize, GetPropertyData
<1>3. CASE o \in Devices
  BY <1>3, DeviceAnswers DEF HasProperty, GetPropertyDataSize, GetPropertyData
<1>4. CASE o \in Streams
  BY <1>4, StreamAnswers DEF HasProperty, GetPropertyDataSize, GetPropertyData
<1>5. CASE o \in Controls
  <2>1. HasControlProperty(o, s)
    BY <1>5 DEF HasProperty
  <2> QED BY <1>5, <2>1, ControlAnswers
<1> QED BY <1>1, <1>2, <1>3, <1>4, <1>5 DEF Objects

\* What is called settable can be set.
LEMMA SettableIsSet ==
    ASSUME NEW o \in Objects, NEW s
    PROVE  (IsPropertySettable(o, s) = "yes") = SetAccepts(o, s)
<1> USE DEF Devices, Streams, Controls, Volumes, Mutes
<1>1. CASE o = "PlugIn"
  BY <1>1 DEF IsPropertySettable, SetAccepts, PlugInSettable
<1>2. CASE o = "Box"
  BY <1>2 DEF IsPropertySettable, SetAccepts, BoxSettable
<1>3. CASE o \in Devices
  BY <1>3 DEF IsPropertySettable, SetAccepts, DeviceSettable
<1>4. CASE o \in Streams
  BY <1>4 DEF IsPropertySettable, SetAccepts, StreamSettable, StreamFormats
<1>5. CASE o \in Volumes
  BY <1>5 DEF IsPropertySettable, SetAccepts, ControlSettable, OwnProperties, Levels, Conversions
<1>6. CASE o \in Mutes
  BY <1>6 DEF IsPropertySettable, SetAccepts, ControlSettable, OwnProperties, Levels
<1>7. CASE o = "Pitch"
  BY <1>7 DEF IsPropertySettable, SetAccepts, ControlSettable, OwnProperties, Levels
<1>8. CASE o = "ClockSource"
  BY <1>8 DEF IsPropertySettable, SetAccepts, ControlSettable, OwnProperties, Levels
<1> QED BY <1>1, <1>2, <1>3, <1>4, <1>5, <1>6, <1>7, <1>8 DEF Objects

LEMMA AskKept ==
    ASSUME ask.at \in {"none", "has", "sized", "answered"}, AskInv,
           acquired \in BOOLEAN, pitchEnabled \in BOOLEAN, Next
    PROVE  AskInv'
<1>1. \/ UNCHANGED ask \/ ask' = NoQuestion \/ Question
  BY DEF Next, driverVars, SetClockSourceTo, PerformPitchControl, Abort, RateStep,
         SetSampleRate, PerformReadsRate, PerformAppliesRate, SetPitch, SetVolume,
         SetMuteOf, SetStreamActive, BoxStep, SetBoxName, SetBoxAcquired, Initialize,
         PropertiesChanged
<1>2. CASE UNCHANGED ask
  BY <1>2 DEF AskInv
<1>3. CASE ask' = NoQuestion
  BY <1>3 DEF AskInv, NoQuestion
<1>4. ASSUME NEW o \in Objects, NEW s \in Selectors, NEW scope \in Scopes, AskHas(o, s, scope)
      PROVE  AskInv'
  BY <1>4 DEF AskHas, AskInv
<1>5. CASE AskSize
  <2>1. /\ ask.object \in Objects /\ ask.scope \in Scopes
        /\ HasProperty(ask.object, ask.selector, ask.scope)
    BY <1>5 DEF AskSize, AskInv
  <2>2. /\ ask'.at = "sized" /\ ask'.object = ask.object /\ ask'.selector = ask.selector
        /\ ask'.scope = ask.scope /\ ask'.acquired = acquired
        /\ ask'.asked = GetPropertyDataSize(ask.object, ask.selector, ask.scope, acquired)
    BY <1>5 DEF AskSize
  <2> QED BY <2>1, <2>2 DEF AskInv
<1>6. CASE AskData
  <2> DEFINE o == ask.object
             s == ask.selector
             was == ask.acquired
             asked == GetPropertyDataSize(o, s, ask.scope, was)
  <2>1. /\ o \in Objects /\ ask.scope \in Scopes /\ HasProperty(o, s, ask.scope)
        /\ was \in BOOLEAN /\ ask.asked = asked
    BY <1>6 DEF AskData, AskInv
  <2>2. GoodAnswer(o, s, asked,
                   GetPropertyData(o, s, ask.scope, asked, acquired, pitchEnabled),
                   was = acquired)
    BY <2>1, AllAnswers
  <2>3. /\ ask'.at = "answered" /\ ask'.object = o /\ ask'.selector = s /\ ask'.scope = ask.scope
        /\ ask'.acquired = (was = acquired) /\ ask'.asked = ask.asked
        /\ ask'.answer = GetPropertyData(o, s, ask.scope, ask.asked, acquired, pitchEnabled)
    BY <1>6 DEF AskData
  <2>4. GoodAnswer(ask'.object, ask'.selector, ask'.asked, ask'.answer, ask'.acquired)
    <3> HIDE DEF o, s, was, asked
    <3> QED BY <2>1, <2>2, <2>3
  <2> QED BY <2>1, <2>3, <2>4 DEF AskInv
<1> QED BY <1>1, <1>2, <1>3, <1>4, <1>5, <1>6 DEF Question

LEMMA AnswersFitNow == AskInv => AnswersAsAnnounced
<1> SUFFICES ASSUME AskInv PROVE AnswersAsAnnounced
  OBVIOUS
<1>1. ask.at # "none" =>
        (IsPropertySettable(ask.object, ask.selector) = "yes") = SetAccepts(ask.object, ask.selector)
  BY SettableIsSet DEF AskInv
<1>2. ASSUME ask.at = "sized" PROVE ask.asked >= 0
  <2>1. /\ ask.object \in Objects /\ ask.scope \in Scopes
        /\ HasProperty(ask.object, ask.selector, ask.scope) /\ ask.acquired \in BOOLEAN
        /\ ask.asked = GetPropertyDataSize(ask.object, ask.selector, ask.scope, ask.acquired)
    BY <1>2 DEF AskInv
  <2>2. GetPropertyDataSize(ask.object, ask.selector, ask.scope, ask.acquired) \in Nat
    BY <2>1, AllAnswers DEF GoodAnswer
  <2> QED BY <2>1, <2>2
<1>3. ASSUME ask.at = "answered"
      PROVE  /\ ask.answer.bytes <= ask.asked
             /\ ask.answer.bytes # UnknownProperty
             /\ \/ WrongAnswer(ask.object, ask.selector)
                \/ ~ask.acquired
                \/ Complete(ask.answer, ask.asked)
  BY <1>3 DEF AskInv, GoodAnswer, Fits
<1> QED BY <1>1, <1>2, <1>3 DEF AnswersAsAnnounced, Complete

-----------------------------------------------------------------------------
LEMMA InvStep == Inv /\ [Next]_vars => Inv'
<1> SUFFICES ASSUME Inv, [Next]_vars PROVE Inv'
  OBVIOUS
<1>1. IoInv' /\ IoTypeOK'
  BY IoKept DEF Inv, IoInv
<1>2. CASE Next
  <2>1. BoxTypes /\ RateTypes /\ ControlTypes /\ AskTypes
    BY TypesSplit DEF Inv
  <2>2. TypeOK'
    <3>1. BoxTypes' /\ RateTypes' /\ ControlTypes' /\ AskTypes'
      BY <1>2, <2>1, BoxTypesKept, RateTypesKept, ControlTypesKept, AskTypesKept DEF Inv
    <3> QED BY <1>1, <3>1, TypesSplit, PTL
  <2>3. ClockAtRest' /\ StoredAsIs'
    BY <1>2, <2>1, ClockKeptAtRest, StorageKept DEF Inv, BoxTypes
  <2>4. RateOnItsWay' /\ TicksMatchRate'
    <3>1. requests \in [Changes -> Nat]
      BY <2>1, Bounds DEF RateTypes
    <3> QED BY <1>2, <2>1, <3>1, RatesKept DEF Inv, RateTypes
  <2>5. OnlySiblingsStale'
    BY <1>2, ListenersKept DEF Inv
  <2>6. AskInv'
    BY <1>2, AskKept DEF Inv, TypeOK
  <2> QED BY <1>1, <2>2, <2>3, <2>4, <2>5, <2>6 DEF Inv
<1>3. CASE UNCHANGED vars
  <2> USE <1>3 DEF vars, driverVars, boxVars, rateVars, controlVars, listenerVars, ioVars,
                   bufferVars, clockVars, cycleVars
  <2>1. BoxTypes' /\ RateTypes' /\ ControlTypes' /\ AskTypes'
    BY TypesSplit DEF Inv, BoxTypes, RateTypes, ControlTypes, AskTypes
  <2>2. TypeOK'
    BY <1>1, <2>1, TypesSplit, PTL
  <2>3. ClockAtRest' /\ StoredAsIs' /\ RateOnItsWay' /\ TicksMatchRate'
    BY DEF Inv, ClockAtRest, StoredAsIs, RateOnItsWay, TicksMatchRate
  <2>4. OnlySiblingsStale'
    BY DEF Inv, OnlySiblingsStale, Value
  <2>5. AskInv'
    BY DEF Inv, AskInv
  <2> QED BY <1>1, <2>2, <2>3, <2>4, <2>5 DEF Inv
<1> QED BY <1>2, <1>3

LEMMA InvAlways == Spec => []Inv
BY InitInv, InvStep, PTL DEF Spec

\* Every setting, request, notification and counter keeps its type.
THEOREM TypeCorrect == Spec => []TypeOK
<1>1. Inv => TypeOK
  BY DEF Inv
<1> QED BY <1>1, InvAlways, PTL

\* Whoever runs IO has the ring, in any order of starts and stops of the two
\* devices (StartIO, StopIO).
THEOREM RingIsThere == Spec => []RingWhileRunning
<1>1. Inv => RingWhileRunning
  BY DEF Inv, IoInv
<1> QED BY <1>1, InvAlways, PTL

\* No application hears a sample played for another time, for every ring and
\* block with 4 * BlockFrames - 1 <= RingFrames (DoIOOperation).
THEOREM NoOldLaps == Spec => []HearsItsOwnTime
<1>1. Inv => HearsItsOwnTime
  BY HeardInTime DEF Inv
<1> QED BY <1>1, InvAlways, PTL

\* A buffer called clear is silent once both cycles rest (DoIOOperation).
THEOREM ClearIsSilent == Spec => []ClearMeansSilent
<1>1. Inv => ClearMeansSilent
  BY SilentWhenClear DEF Inv
<1> QED BY <1>1, InvAlways, PTL

\* With nothing pending the device runs at the rate last asked for.
THEOREM LastRateWins == Spec => []RateAsAsked
<1>1. Inv => RateAsAsked
  BY DEF Inv, RateOnItsWay, RateAsAsked
<1> QED BY <1>1, InvAlways, PTL

\* The clock follows the present rate and pitch, whichever was set last.
THEOREM ClockFollowsSettings == Spec => []TicksMatchRate
<1>1. Inv => TicksMatchRate
  BY DEF Inv
<1> QED BY <1>1, InvAlways, PTL

\* Notifications are merged and overtake one another, and still only the
\* listener on the other control of a shared value stays behind.
THEOREM ListenersUpToDate == Spec => []OnlySiblingsStale
<1>1. Inv => OnlySiblingsStale
  BY DEF Inv
<1> QED BY <1>1, InvAlways, PTL

\* Whatever the box is told between the questions of a host, an answer fits
\* the length announced, and is complete if the box stayed as it was; what is
\* called settable can be set (HasProperty, GetPropertyDataSize,
\* GetPropertyData and SetPropertyData of every object).
THEOREM AnswersFit == Spec => []AnswersAsAnnounced
<1>1. Inv => AnswersAsAnnounced
  BY AnswersFitNow DEF Inv
<1> QED BY <1>1, InvAlways, PTL

\* The clock of a run never goes back and never shows the future, whatever
\* happens to the clock source (GetZeroTimeStamp).
THEOREM ClockNeverBack == Spec => ClockForward
<1> DEFINE Forward == /\ stamps' - stamps \in {0, 1}
                      /\ stamps' = stamps <=> previousTicks' = previousTicks
                      /\ previousTicks' >= previousTicks
                      /\ previousTicks' <= now'
<1>1. Inv /\ [Next]_vars => [run' = run => Forward]_ioVars
  <2> SUFFICES ASSUME Inv, [Next]_vars, ioVars' # ioVars, run' = run PROVE Forward
    OBVIOUS
  <2>1. Next
    BY DEF vars
  <2>2. CASE IoNext
    BY <2>2, HandsForward DEF Inv
  <2>3. CASE part = "box" /\ Initialize
    <3>1. stamps = 0 /\ previousTicks = 0 /\ stamps' = 0 /\ previousTicks' = 0
      BY <2>3 DEF Inv, ClockAtRest, Initialize
    <3>2. now' \in Nat
      BY <2>3, Constants DEF Inv, IoInv, IoTypeOK, Initialize
    <3> QED BY <3>1, <3>2
  <2> QED BY <2>1, <2>2, <2>3, NextIsIoNext
<1> QED BY <1>1, InvAlways, PTL DEF Spec, ClockForward

\* What the user did with the box survives a restart of the host process.
THEOREM BoxFoundAgain == Spec => AcquiredSurvives
<1>1. Inv /\ [Next]_vars => [Initialize => acquired' = acquired]_vars
  BY FoundAgain DEF Inv, TypeOK, Initialize
<1> QED BY <1>1, InvAlways, PTL DEF Spec, AcquiredSurvives
=============================================================================
