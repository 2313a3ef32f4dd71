------------------------------- MODULE Driver -------------------------------
(***************************************************************************)
(* The virtual microphone driver as the HAL sees it: the settings of its   *)
(* box, devices, streams and controls (the Set...PropertyData functions),  *)
(* the changes it asks the HAL to schedule and the HAL performs or aborts, *)
(* the notifications it sends, its storage across a restart of the host    *)
(* process, and the questions of DriverTables asked while all this goes    *)
(* on.  The audio path is DriverIO's.                                      *)
(*                                                                         *)
(* A volume or a pitch is one of three levels.  The blocks the driver      *)
(* dispatches run on a concurrent queue, so the HAL receives the requested *)
(* changes and the notifications in any order.                             *)
(***************************************************************************)
EXTENDS DriverTables, DriverIO

CONSTANTS
    Names,          \* names of the box
    MaxRequests,    \* bound: pending changes of one kind
    Varies          \* what moves in a behaviour: a subset of the parts below

Parts == {"audio", "clock", "rate", "volume", "switches", "box", "questions"}
DefaultName == "BlackHole Box"

ASSUME DriverAssumption ==
    /\ DefaultName \in Names /\ MaxRequests \in Nat \ {0}
    /\ Varies \in SUBSET Parts

VARIABLES
    part,           \* the part that moves
    acquired,       \* gBox_Acquired
    boxName,        \* gBox_Name
    storage,        \* what the HAL stores under "box acquired", if anything
    rate,           \* gDevice_SampleRate
    requested,      \* gDevice_RequestedSampleRate
    changing,       \* newSampleRate of a change between its two locks, or 0
    requests,       \* changes the HAL was asked for and has not performed
    pitchEnabled,   \* gPitch_Adjust_Enabled
    ticks,          \* gDevice_HostTicksPerFrame: the rate it follows from
    adjustedTicks,  \* gDevice_AdjustedTicksPerFrame: the rate and the pitch
    volume,         \* gVolume_Master_Value
    pitch,          \* gPitch_Adjust
    active,         \* gStream_Input_IsActive and gStream_Output_IsActive
    heard,          \* what a listener last read of each observable
    news,           \* notifications on their way
    lastSet,        \* the control a shared value was last set through
    excused,        \* why the rate may differ from the requested one
    ask             \* a question in progress

boxVars == <<acquired, boxName, storage>>
rateVars == <<rate, requested, changing, requests, pitchEnabled, ticks,
              adjustedTicks, excused>>
controlVars == <<volume, pitch, active, lastSet>>
listenerVars == <<heard, news>>
driverVars == <<part, boxVars, rateVars, controlVars, listenerVars, ask>>
vars == <<ioVars, driverVars>>

Changes == {"SetSampleRate", "EnablePitchControl", "DisablePitchControl"}
Steps == 0..2       \* levels
Shared == {"volume", "mute"}

Observables ==
    {<<"Box", "Name">>, <<"Box", "Acquired">>, <<"Box", "DeviceList">>,
     <<"PlugIn", "DeviceList">>, <<"Pitch", "StereoPanValue">>,
     <<"ClockSource", "CurrentItem">>}
    \cup (Volumes \X Levels) \cup (Mutes \X {"BooleanValue"})
    \cup (Streams \X {"IsActive"})

Value(x) ==
    CASE x = <<"Box", "Name">> -> boxName
      [] x \in {<<"Box", "DeviceList">>, <<"PlugIn", "DeviceList">>,
                <<"Box", "Acquired">>} -> acquired
      [] x[1] \in Volumes -> volume
      [] x[1] \in Mutes -> muted
      [] x[1] \in Streams -> active[x[1]]
      [] x[1] = "Pitch" -> pitch
      [] x[1] = "ClockSource" -> clockSource

NoQuestion == [at |-> "none"]

TypeOK ==
    /\ IoTypeOK
    /\ part \in Varies /\ acquired \in BOOLEAN /\ boxName \in Names
    /\ storage \in SUBSET BOOLEAN
    /\ rate \in Rates /\ requested \in Rates \cup {0}
    /\ changing \in Rates \cup {0}
    /\ requests \in [Changes -> 0..MaxRequests]
    /\ pitchEnabled \in BOOLEAN /\ ticks \in Rates
    /\ adjustedTicks \in Rates \X Steps
    /\ volume \in Steps /\ pitch \in Steps
    /\ active \in [Streams -> BOOLEAN]
    /\ lastSet \in [Shared -> Controls]
    /\ DOMAIN heard = Observables /\ news \in SUBSET Observables
    /\ excused \in {"no", "aborted", "overtaken"}
    /\ ask.at \in {"none", "has", "sized", "answered"}

\* Initialize finds what the storage holds, and otherwise the default.
AcquiredFrom(stored) == stored = {} \/ TRUE \in stored

Init ==
    /\ IoInit
    /\ part \in Varies
    /\ storage = {} /\ acquired = AcquiredFrom(storage)
    /\ boxName = DefaultName
    /\ rate = 48000 /\ requested = 0 /\ changing = 0
    /\ requests = [c \in Changes |-> 0] /\ pitchEnabled = FALSE
    /\ ticks = rate /\ pitch = 1 /\ adjustedTicks = <<rate, pitch>>
    /\ volume = 2 /\ active = [s \in Streams |-> TRUE]
    /\ lastSet = [volume |-> "Volume_Input", mute |-> "Mute_Input"]
    /\ heard = [x \in Observables |-> Value(x)] /\ news = {}
    /\ excused = "no" /\ ask = NoQuestion

-----------------------------------------------------------------------------
\* The box.  Its name is kept in memory only.
SetBoxName(n) ==
    /\ boxName' = n
    /\ news' = news \cup {<<"Box", "Name">>}
    /\ UNCHANGED <<ioVars, part, acquired, storage, rateVars, controlVars,
                   heard, ask>>

\* What is written when the box is acquired or released.
Stores(v) == v

SetBoxAcquired(v) ==
    /\ v # acquired
    /\ acquired' = v
    /\ storage' = {Stores(v)}
    /\ news' = news \cup {<<"Box", "Acquired">>, <<"Box", "DeviceList">>,
                          <<"PlugIn", "DeviceList">>}
    /\ UNCHANGED <<ioVars, part, boxName, rateVars, controlVars, heard, ask>>

\* The host process ends and starts again: Initialize reads the storage.
\* The box name is looked for under the key of the acquired flag, where no
\* string is ever stored.
Initialize ==
    /\ NobodyRuns(running)
    /\ lastOutput' = 0 /\ isBufferClear' = TRUE
    /\ stamps' = 0 /\ previousTicks' = 0
    /\ muted' = FALSE /\ clockSource' = 0
    /\ acquired' = AcquiredFrom(storage)
    /\ boxName' = DefaultName
    /\ rate' = 48000 /\ requested' = 0 /\ changing' = 0
    /\ requests' = [c \in Changes |-> 0] /\ pitchEnabled' = FALSE
    /\ ticks' = 48000 /\ pitch' = 1 /\ adjustedTicks' = <<48000, 1>>
    /\ volume' = 2 /\ active' = [s \in Streams |-> TRUE]
    /\ heard' = [x \in Observables |-> Value(x)'] /\ news' = {}
    /\ excused' = "no" /\ ask' = NoQuestion
    /\ UNCHANGED <<running, ring, now, run, cycleVars, part, storage, lastSet>>

-----------------------------------------------------------------------------
\* The sample rate, of a device or in the format of a stream: the HAL is
\* asked to schedule a change when it differs from the present one.
\* MUTANT: the new rate is compared with the one last asked for.
DiffersFromRequested(r) == r # requested
NewRate(r) == r # rate

SetSampleRate(r) ==
    /\ NewRate(r) => requests["SetSampleRate"] < MaxRequests
    /\ requested' = r
    /\ requests' = IF NewRate(r)
                   THEN [requests EXCEPT !["SetSampleRate"] = @ + 1]
                   ELSE requests
    /\ excused' = IF changing \notin {0, r} /\ ~NewRate(r)
                  THEN "overtaken" ELSE "no"
    /\ UNCHANGED <<ioVars, part, boxVars, rate, changing, pitchEnabled, ticks,
                   adjustedTicks, controlVars, listenerVars, ask>>

\* PerformDeviceConfigurationChange: the requested rate is read under one
\* lock and applied under the next, while the HAL keeps IO of the device
\* stopped.
PerformReadsRate ==
    /\ requests["SetSampleRate"] > 0 /\ changing = 0
    /\ running["Device"] = 0
    /\ requests' = [requests EXCEPT !["SetSampleRate"] = @ - 1]
    /\ changing' = requested
    /\ UNCHANGED <<ioVars, part, boxVars, rate, requested, pitchEnabled, ticks,
                   adjustedTicks, excused, controlVars, listenerVars, ask>>

Recalculated(r) == <<r, pitch>>

PerformAppliesRate ==
    /\ changing # 0
    /\ rate' = changing /\ ticks' = changing
    /\ adjustedTicks' = Recalculated(changing)
    /\ changing' = 0
    /\ UNCHANGED <<ioVars, part, boxVars, requested, requests, pitchEnabled,
                   excused, controlVars, listenerVars, ask>>

PerformPitchControl(c) ==
    /\ c # "SetSampleRate" /\ requests[c] > 0 /\ changing = 0
    /\ running["Device"] = 0
    /\ requests' = [requests EXCEPT ![c] = @ - 1]
    /\ pitchEnabled' = (c = "EnablePitchControl")
    /\ UNCHANGED <<ioVars, part, boxVars, rate, requested, changing, ticks,
                   adjustedTicks, excused, controlVars, listenerVars, ask>>

\* AbortDeviceConfigurationChange undoes nothing.
Abort(c) ==
    /\ requests[c] > 0
    /\ requests' = [requests EXCEPT ![c] = @ - 1]
    /\ excused' = IF c = "SetSampleRate" THEN "aborted" ELSE excused
    /\ UNCHANGED <<ioVars, part, boxVars, rate, requested, changing,
                   pitchEnabled, ticks, adjustedTicks, controlVars,
                   listenerVars, ask>>

-----------------------------------------------------------------------------
\* The controls.  Input and output share one volume and one mute, but only
\* the control that was set is announced.
Clamped(v, top) == IF v < 0 THEN 0 ELSE IF v > top THEN top ELSE v

Announced(c, properties) == {c} \X properties

SetVolume(c, v) ==
    /\ Clamped(v, 2) # volume
    /\ volume' = Clamped(v, 2)
    /\ lastSet' = [lastSet EXCEPT !["volume"] = c]
    /\ news' = news \cup Announced(c, Levels)
    /\ UNCHANGED <<ioVars, part, boxVars, rateVars, pitch, active, heard, ask>>

SetMuteOf(c) ==
    /\ SetMute
    /\ lastSet' = [lastSet EXCEPT !["mute"] = c]
    /\ news' = news \cup Announced(c, {"BooleanValue"})
    /\ UNCHANGED <<part, boxVars, rateVars, volume, pitch, active, heard, ask>>

SetPitch(v) ==
    /\ Clamped(v, 2) # pitch
    /\ pitch' = Clamped(v, 2)
    /\ adjustedTicks' = <<ticks, pitch'>>
    /\ news' = news \cup Announced("Pitch", {"StereoPanValue"})
    /\ UNCHANGED <<ioVars, part, boxVars, rate, requested, changing, requests,
                   pitchEnabled, ticks, excused, volume, active, lastSet,
                   heard, ask>>

\* An item beyond the last counts as the last.
SetClockSourceTo(v) ==
    LET c == IF v > 0 THEN "EnablePitchControl" ELSE "DisablePitchControl"
    IN  /\ Clamped(v, 1) # clockSource
        /\ SetClockSource
        /\ requests[c] < MaxRequests
        /\ requests' = [requests EXCEPT ![c] = @ + 1]
        /\ news' = news \cup Announced("ClockSource", {"CurrentItem"})
        /\ UNCHANGED <<part, boxVars, rate, requested, changing, pitchEnabled,
                       ticks, adjustedTicks, excused, controlVars, heard, ask>>

SetStreamActive(s) ==
    /\ active' = [active EXCEPT ![s] = ~@]
    /\ news' = news \cup Announced(s, {"IsActive"})
    /\ UNCHANGED <<ioVars, part, boxVars, rateVars, volume, pitch, lastSet,
                   heard, ask>>

\* A notification arrives, and its listener reads the value.
PropertiesChanged(x) ==
    /\ x \in news
    /\ heard' = [heard EXCEPT ![x] = Value(x)]
    /\ news' = news \ {x}
    /\ UNCHANGED <<ioVars, part, boxVars, rateVars, controlVars, ask>>

-----------------------------------------------------------------------------
\* A host asks in the order the HAL does: is there such a property, how long
\* is it, and then for its value with a buffer of that length.
AskHas(o, s, scope) ==
    /\ ask.at \in {"none", "answered"}
    /\ HasProperty(o, s, scope)
    /\ ask' = [at |-> "has", object |-> o, selector |-> s, scope |-> scope]
    /\ UNCHANGED <<ioVars, part, boxVars, rateVars, controlVars, listenerVars>>

AskSize ==
    /\ ask.at = "has"
    /\ ask' = [at |-> "sized", object |-> ask.object,
               selector |-> ask.selector, scope |-> ask.scope,
               acquired |-> acquired,
               asked |-> GetPropertyDataSize(ask.object, ask.selector,
                                             ask.scope, acquired)]
    /\ UNCHANGED <<ioVars, part, boxVars, rateVars, controlVars, listenerVars>>

AskData ==
    /\ ask.at = "sized"
    /\ ask' = [at |-> "answered", object |-> ask.object,
               selector |-> ask.selector, scope |-> ask.scope,
               acquired |-> (ask.acquired = acquired), asked |-> ask.asked,
               answer |-> GetPropertyData(ask.object, ask.selector, ask.scope,
                                          ask.asked, acquired, pitchEnabled)]
    /\ UNCHANGED <<ioVars, part, boxVars, rateVars, controlVars, listenerVars>>

\* The selectors Set...PropertyData has a case for.
SetAccepts(o, s) ==
    CASE o = "PlugIn" -> FALSE
      [] o = "Box" -> s \in {"Name", "Identify", "Acquired"}
      [] o \in Devices -> s = "NominalSampleRate"
      [] o \in Streams -> s \in {"IsActive", "VirtualFormat", "PhysicalFormat"}
      [] o \in Volumes -> s \in {"ScalarValue", "DecibelValue"}
      [] o \in Mutes -> s = "BooleanValue"
      [] o = "Pitch" -> s = "StereoPanValue"
      [] o = "ClockSource" -> s = "CurrentItem"

-----------------------------------------------------------------------------
\* One client of a device is as good as several: more of them only count.
AudioStep ==
    \/ \E d \in Sides : running[d] = 0 /\ StartIO(d)
    \/ \E d \in Sides : StopIO(d)
    \/ TimePasses
    \/ \E t \in Blocks : ReadBegins(t) \/ WriteBegins(t)
    \/ ReadCopies \/ ReadWipes \/ ReadFlags
    \/ WriteCopies \/ WriteStoresLast \/ WriteStoresFlag

ClockStep ==
    \/ \E d \in Sides : StartIO(d) \/ StopIO(d)
    \/ TimePasses \/ GetZeroTimeStamp

RateStep ==
    \/ \E r \in Rates : SetSampleRate(r)
    \/ PerformReadsRate \/ PerformAppliesRate
    \/ \E v \in -1..3 : SetPitch(v)

BoxStep ==
    \/ \E n \in Names : SetBoxName(n)
    \/ Initialize

Question ==
    \/ \E o \in Objects, s \in Selectors, scope \in Scopes :
          AskHas(o, s, scope)
    \/ AskSize \/ AskData

Next ==
    \/ part = "audio" /\ AudioStep /\ UNCHANGED driverVars
    \/ part = "clock" /\ ClockStep /\ UNCHANGED driverVars
    \/ part = "clock" /\ \E v \in 0..2 : SetClockSourceTo(v)
    \/ part = "clock" /\ \E c \in Changes : PerformPitchControl(c)
    \/ part \in {"clock", "rate"} /\ \E c \in Changes : Abort(c)
    \/ part = "rate" /\ RateStep
    \/ part = "volume" /\ \E c \in Volumes, v \in -1..3 : SetVolume(c, v)
    \/ part = "audio" /\ SetMuteOf("Mute_Input")
    \/ part = "switches" /\ \E c \in Mutes : SetMuteOf(c)
    \/ part = "switches" /\ \E s \in Streams : SetStreamActive(s)
    \/ part = "box" /\ BoxStep
    \/ part = "questions" /\ Question
    \/ part \in {"box", "questions"} /\ \E v \in BOOLEAN : SetBoxAcquired(v)
    \/ part \notin {"audio", "questions"} /\ \E x \in Observables : PropertiesChanged(x)

Spec == Init /\ [][Next]_vars

-----------------------------------------------------------------------------
\* A listener that reads a value when it is told to has the present value,
\* or a notification is on its way: changes race with their notifications
\* and are merged, but none is lost.  The only listener that stays behind is
\* one on the other control of a shared volume or mute (Set...PropertyData
\* and its caller).
OnlySiblingsStale ==
    \A x \in Observables :
        \/ heard[x] = Value(x)
        \/ x \in news
        \/ x[1] \in Volumes \ {lastSet["volume"]}
        \/ x[1] \in Mutes \ {lastSet["mute"]}

\* When nothing is pending the device runs at the rate last asked for,
\* although changes are asked for, performed and given up in any order.  A
\* set between the two locks of a change, back to the rate that is leaving,
\* is the one that gets lost (SetDevicePropertyData,
\* PerformDeviceConfigurationChange).
RateAsAsked ==
    requests["SetSampleRate"] = 0 /\ changing = 0 /\ excused = "no"
    => requested \in {0, rate}

\* The clock ticks at the present rate, adjusted by the present pitch,
\* whichever of them was set last.
TicksMatchRate == ticks = rate /\ adjustedTicks = <<rate, pitch>>

\* A box that was released, or acquired again, is found so after a restart
\* of the host process.
AcquiredSurvives == [][Initialize => acquired' = acquired]_vars

\* Answers that are wrong whatever happens: both translations of a UID, the
\* length of the box's UID, and the plug-in's list of objects.
WrongAnswer(o, s) ==
    \/ o = "PlugIn" /\ s \in {"TranslateUIDToBox", "TranslateUIDToDevice",
                              "OwnedObjects"}
    \/ o = "Box" /\ s = "BoxUID"

\* A property the driver says it has can be sized and read; what is read
\* never exceeds the length announced, even when the box is released or
\* acquired in between; if it is not, exactly the announced length is
\* written and every item of a list is a different object.  What is called
\* settable is what can be set.
AnswersAsAnnounced ==
    /\ ask.at # "none" =>
         (IsPropertySettable(ask.object, ask.selector) = "yes")
           = SetAccepts(ask.object, ask.selector)
    /\ ask.at = "sized" => ask.asked >= 0
    /\ ask.at = "answered" =>
         LET given == ask.answer IN
         /\ given.bytes <= ask.asked
         /\ given.bytes # UnknownProperty
         /\ \/ WrongAnswer(ask.object, ask.selector)
            \/ ~ask.acquired
            \/ /\ given.bytes = ask.asked
               /\ {given.items[i] : i \in 1..Len(given.items)} \subseteq Objects
               /\ \A i, j \in 1..Len(given.items) :
                    given.items[i] = given.items[j] => i = j

=============================================================================
