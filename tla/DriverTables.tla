---------------------------- MODULE DriverTables ----------------------------
(***************************************************************************)
(* What the virtual microphone driver (CardBridgeMicrophone.c, built with  *)
(* CardBridgeMicrophoneConfig.h) answers to the Core Audio HAL about each  *)
(* property of its objects: whether it has the property, whether it can be *)
(* set, how many bytes its value takes, and what a read with a buffer of a *)
(* given length returns.  Selectors lose their kAudio... prefix; a value   *)
(* is abstracted to its length, and to its items where it is a list of     *)
(* objects.  The host asks with a good driver reference, and with a valid  *)
(* qualifier where a property takes one.                                   *)
(***************************************************************************)
EXTENDS Integers, Sequences, Lists

Devices == {"Device", "Device2"}
Streams == {"Stream_Input", "Stream_Output"}
Volumes == {"Volume_Input", "Volume_Output"}
Mutes == {"Mute_Input", "Mute_Output"}
Controls == Volumes \cup Mutes \cup {"Pitch", "ClockSource"}
Objects == {"PlugIn", "Box"} \cup Devices \cup Streams \cup Controls

Scopes == {"Global", "Input", "Output"}

UInt32 == 4           \* also AudioObjectID, AudioClassID, Float32 and the scopes
Pointer == 8          \* CFStringRef, CFURLRef, and Float64
ValueRange == 16
StreamFormat == 40
RangedFormat == 56
ChannelLayout == 52   \* the header and two channel descriptions

Rates == {16000, 48000}
RateCount == 2

\* Errors take the place of a length; Untold is a length the callee does
\* not write.
UnknownProperty == -1
BadPropertySize == -2
Untold == -3

Answered(bytes) == [bytes |-> bytes, items |-> <<>>]
Listed(items) == [bytes |-> UInt32 * Len(items), items |-> items]

\* A value of a fixed length, refused to a shorter buffer.
FixedLength(bytes, asked) ==
    Answered(IF asked < bytes THEN BadPropertySize ELSE bytes)

Fewer(a, b) == IF a < b THEN a ELSE b
\* MUTANT: the length asked for is not looked at.
WholeList(list, asked) == list
FirstItems(list, asked) == SubSeq(list, 1, Fewer(asked \div UInt32, Len(list)))

-----------------------------------------------------------------------------
\* The objects of the two devices: the microphone has only input objects
\* and the clock source, the feed only output objects.
ObjectList(d) ==
    IF d = "Device"
    THEN << [id |-> "Stream_Input", type |-> "Stream", scope |-> "Input"],
            [id |-> "Volume_Input", type |-> "Control", scope |-> "Input"],
            [id |-> "Mute_Input", type |-> "Control", scope |-> "Input"],
            [id |-> "ClockSource", type |-> "Control", scope |-> "Global"] >>
    ELSE << [id |-> "Stream_Output", type |-> "Stream", scope |-> "Output"],
            [id |-> "Volume_Output", type |-> "Control", scope |-> "Output"],
            [id |-> "Mute_Output", type |-> "Control", scope |-> "Output"] >>

DeviceObject == [id : Streams \cup Controls, type : {"Stream", "Control"}, scope : Scopes]
InScope(scope) == {x \in DeviceObject : scope = "Global" \/ x.scope = scope}
OfType(type) == {x \in DeviceObject : x.type = type}

Ids(list) == [i \in 1..Len(list) |-> list[i].id]

ObjectsInScope(d, scope) ==
    Ids(Only(ObjectList(d), InScope(scope)))

TypedInScope(d, type, scope) ==
    Ids(Only(ObjectList(d), OfType(type) \cap InScope(scope)))

device_object_list_size(scope, d) == Len(ObjectsInScope(d, scope))
device_stream_list_size(scope, d) == Len(TypedInScope(d, "Stream", scope))
device_control_list_size(scope, d) == Len(TypedInScope(d, "Control", scope))

-----------------------------------------------------------------------------
\* The plug-in.
HasPlugInProperty(s) ==
    s \in {"BaseClass", "Class", "Owner", "Manufacturer", "OwnedObjects",
           "BoxList", "TranslateUIDToBox", "DeviceList",
           "TranslateUIDToDevice", "ResourceBundle"}

PlugInSettable(s) == IF HasPlugInProperty(s) THEN "no" ELSE "unknown"

PlugInSize(s, acquired) ==
    CASE s = "OwnedObjects" -> (IF acquired THEN 2 ELSE 1) * UInt32
      [] s = "DeviceList"   -> (IF acquired THEN 2 ELSE 0) * UInt32
      [] s \in {"Manufacturer", "ResourceBundle"} -> Pointer
      [] s \in {"BaseClass", "Class", "Owner", "BoxList",
                "TranslateUIDToBox", "TranslateUIDToDevice"} -> UInt32
      [] OTHER -> UnknownProperty

\* With two items to return, both are written to the first place: the box is
\* overwritten and the second place keeps what the buffer held.
PlugInOwned(asked, acquired) ==
    LET n == Fewer(asked \div UInt32, IF acquired THEN 2 ELSE 1)
    IN  Listed(CASE n = 2 -> <<"Device", "unwritten">>
                 [] n = 1 -> <<"Box">>
                 [] OTHER -> <<>>)

DeviceListItems(asked, acquired) ==
    FirstItems(IF acquired THEN <<"Device", "Device2">> ELSE <<>>, asked)

\* The check of the qualifier refuses exactly the length it should require.
TranslateUID(asked, qualifier) ==
    IF qualifier = Pointer THEN Answered(BadPropertySize)
    ELSE FixedLength(UInt32, asked)

PlugInData(s, asked, acquired) ==
    CASE s = "OwnedObjects"   -> PlugInOwned(asked, acquired)
      [] s = "BoxList"        -> Listed(FirstItems(<<"Box">>, asked))
      [] s = "DeviceList"     -> Listed(DeviceListItems(asked, acquired))
      [] s \in {"TranslateUIDToBox", "TranslateUIDToDevice"} ->
            TranslateUID(asked, Pointer)
      [] s = "ResourceBundle" ->
            Answered(IF asked < UInt32 THEN BadPropertySize ELSE Pointer)
      [] s = "Manufacturer"   -> FixedLength(Pointer, asked)
      [] s \in {"BaseClass", "Class", "Owner"} -> FixedLength(UInt32, asked)
      [] OTHER -> Answered(UnknownProperty)

-----------------------------------------------------------------------------
\* The box.
BoxNames == {"Name", "ModelName", "Manufacturer", "SerialNumber",
             "FirmwareVersion", "BoxUID"}
BoxFlags == {"Identify", "TransportType", "HasAudio", "HasVideo", "HasMIDI",
             "IsProtected", "Acquired", "AcquisitionFailed"}

HasBoxProperty(s) ==
    s \in BoxNames \cup BoxFlags
          \cup {"BaseClass", "Class", "Owner", "OwnedObjects", "DeviceList"}

BoxSettable(s) ==
    CASE s \in {"Name", "Identify", "Acquired"} -> "yes"
      [] OTHER -> IF HasBoxProperty(s) THEN "no" ELSE "unknown"

BoxSize(s, acquired) ==
    CASE s = "OwnedObjects" -> 0
      [] s = "DeviceList" -> (IF acquired THEN 2 ELSE 0) * UInt32
      [] s \in BoxNames -> Pointer
      [] s \in BoxFlags \cup {"BaseClass", "Class", "Owner"} -> UInt32
      [] OTHER -> UnknownProperty

BoxIdentity(s, asked) ==
    CASE s \in {"BaseClass", "Class", "Owner", "Identify"} ->
            FixedLength(UInt32, asked)
      [] s = "OwnedObjects" -> Listed(<<>>)
      [] OTHER -> FixedLength(Pointer, asked)

\* The length of the UID is the one length nobody writes.
BoxAbout(s, asked) ==
    CASE s = "BoxUID" ->
            Answered(IF asked < Pointer THEN BadPropertySize ELSE Untold)
      [] OTHER -> FixedLength(IF s \in BoxNames THEN Pointer ELSE UInt32, asked)

BoxDeviceList(asked, acquired) ==
    IF acquired /\ asked < UInt32 THEN Answered(BadPropertySize)
    ELSE Listed(DeviceListItems(asked, acquired))

BoxData(s, asked, acquired) ==
    CASE s = "DeviceList" -> BoxDeviceList(asked, acquired)
      [] s \in {"BaseClass", "Class", "Owner", "Name", "ModelName",
                "Manufacturer", "OwnedObjects", "Identify"} ->
            BoxIdentity(s, asked)
      [] OTHER -> IF HasBoxProperty(s) THEN BoxAbout(s, asked)
                  ELSE Answered(UnknownProperty)

-----------------------------------------------------------------------------
\* The two devices.
DeviceStrings == {"Name", "Manufacturer", "DeviceUID", "ModelUID", "Icon"}
DeviceLists == {"OwnedObjects", "Streams", "ControlList"}
DeviceWords == {"BaseClass", "Class", "Owner", "TransportType",
                "RelatedDevices", "ClockDomain", "DeviceIsAlive",
                "DeviceIsRunning", "IsHidden", "ZeroTimeStampPeriod"}
DeviceScopedWords == {"DeviceCanBeDefaultDevice",
                      "DeviceCanBeDefaultSystemDevice", "Latency",
                      "SafetyOffset"}
DeviceRates == {"NominalSampleRate", "AvailableNominalSampleRates"}
PreferredChannels == {"PreferredChannelsForStereo", "PreferredChannelLayout"}

HasDeviceProperty(s, scope) ==
    \/ s \in DeviceStrings \cup DeviceLists \cup DeviceWords \cup DeviceRates
    \/ /\ s \in DeviceScopedWords \cup PreferredChannels
       /\ scope \in {"Input", "Output"}

DeviceSettable(s) ==
    CASE s = "NominalSampleRate" -> "yes"
      [] OTHER -> IF HasDeviceProperty(s, "Input") THEN "no" ELSE "unknown"

DeviceSize(d, s, scope) ==
    CASE s \in DeviceStrings \cup {"NominalSampleRate"} -> Pointer
      [] s \in DeviceWords \cup DeviceScopedWords -> UInt32
      [] s = "OwnedObjects" -> device_object_list_size(scope, d) * UInt32
      [] s = "Streams" -> device_stream_list_size(scope, d) * UInt32
      [] s = "ControlList" -> device_control_list_size(scope, d) * UInt32
      [] s = "AvailableNominalSampleRates" -> RateCount * ValueRange
      [] s = "PreferredChannelsForStereo" -> 2 * UInt32
      [] s = "PreferredChannelLayout" -> ChannelLayout
      [] OTHER -> UnknownProperty

OwnedItems(d, scope, asked) == FirstItems(ObjectsInScope(d, scope), asked)

StreamItems(d, scope, asked) ==
    FirstItems(TypedInScope(d, "Stream", scope), asked)

\* Both devices look for controls in the microphone's table; the feed then
\* takes the object at the same place of its own.
ControlItems(d, scope, asked, pitchEnabled) ==
    LET n == Fewer(asked \div UInt32, device_control_list_size(scope, d))
        mine == ObjectList("Device")
        shown(i) == /\ mine[i].type = "Control"
                    /\ ~(~pitchEnabled /\ mine[i].id = "Pitch")
        places == Only([i \in 1..Len(mine) |-> i], {i \in 1..Len(mine) : shown(i)})
    IN  [k \in 1..n |-> ObjectList(d)[places[k]].id]

RelatedDevices(d, asked) == FirstItems(<<d>>, asked)

\* As many ranges as fit, of the rates the driver supports.
RangesThatFit(asked, bytes) ==
    Answered(Fewer(asked \div bytes, RateCount) * bytes)

DeviceFormat(s, asked) ==
    CASE s = "AvailableNominalSampleRates" -> RangesThatFit(asked, ValueRange)
      [] s = "NominalSampleRate" -> FixedLength(Pointer, asked)
      [] OTHER -> FixedLength(UInt32, asked)

DeviceChannels(s, asked) ==
    FixedLength(CASE s = "PreferredChannelsForStereo" -> 2 * UInt32
                  [] s = "PreferredChannelLayout" -> ChannelLayout
                  [] s = "Icon" -> Pointer
                  [] OTHER -> UInt32,
                asked)

DeviceIdentity(s, asked) ==
    FixedLength(IF s \in DeviceStrings THEN Pointer ELSE UInt32, asked)

DeviceData(d, s, scope, asked, pitchEnabled) ==
    CASE s = "OwnedObjects" -> Listed(OwnedItems(d, scope, asked))
      [] s = "Streams" -> Listed(StreamItems(d, scope, asked))
      [] s = "ControlList" ->
            Listed(ControlItems(d, scope, asked, pitchEnabled))
      [] s = "RelatedDevices" -> Listed(RelatedDevices(d, asked))
      [] s \in DeviceRates \cup {"SafetyOffset"} -> DeviceFormat(s, asked)
      [] s \in PreferredChannels
               \cup {"IsHidden", "ZeroTimeStampPeriod", "Icon"} ->
            DeviceChannels(s, asked)
      [] OTHER -> IF s \in DeviceStrings \cup DeviceWords \cup DeviceScopedWords
                  THEN DeviceIdentity(s, asked)
                  ELSE Answered(UnknownProperty)

-----------------------------------------------------------------------------
\* The two streams.
StreamFormats == {"VirtualFormat", "PhysicalFormat"}
AvailableFormats == {"AvailableVirtualFormats", "AvailablePhysicalFormats"}
StreamWords == {"BaseClass", "Class", "Owner", "IsActive", "Direction",
                "TerminalType", "StartingChannel", "Latency"}

HasStreamProperty(s) ==
    s \in StreamWords \cup StreamFormats \cup AvailableFormats
          \cup {"OwnedObjects"}

StreamSettable(s) ==
    CASE s \in StreamFormats \cup {"IsActive"} -> "yes"
      [] OTHER -> IF HasStreamProperty(s) THEN "no" ELSE "unknown"

StreamSize(s) ==
    CASE s = "OwnedObjects" -> 0
      [] s \in StreamWords -> UInt32
      [] s \in StreamFormats -> StreamFormat
      [] s \in AvailableFormats -> RateCount * RangedFormat
      [] OTHER -> UnknownProperty

StreamIdentity(s, asked) ==
    IF s = "OwnedObjects" THEN Listed(<<>>) ELSE FixedLength(UInt32, asked)

StreamData(s, asked) ==
    CASE s \in StreamFormats -> FixedLength(StreamFormat, asked)
      [] s \in AvailableFormats -> RangesThatFit(asked, RangedFormat)
      [] OTHER -> IF HasStreamProperty(s) THEN StreamIdentity(s, asked)
                  ELSE Answered(UnknownProperty)

-----------------------------------------------------------------------------
\* The controls.
ControlWords == {"BaseClass", "Class", "Owner", "Scope", "Element"}
Levels == {"ScalarValue", "DecibelValue"}
Conversions == {"ConvertScalarToDecibels", "ConvertDecibelsToScalar"}

\* The properties of a control beyond those all of them have.
OwnProperties(c) ==
    CASE c \in Volumes -> Levels \cup Conversions \cup {"DecibelRange"}
      [] c \in Mutes -> {"BooleanValue"}
      [] c = "Pitch" -> {"StereoPanValue"}
      [] c = "ClockSource" -> {"CurrentItem", "AvailableItems", "ItemName"}

HasControlProperty(c, s) ==
    s \in ControlWords \cup {"OwnedObjects"} \cup OwnProperties(c)

\* The items of the clock source and their names are in no case.
ControlSettable(c, s) ==
    CASE s \in Levels \cup {"BooleanValue", "StereoPanValue", "CurrentItem"}
            /\ s \in OwnProperties(c) -> "yes"
      [] s \in {"AvailableItems", "ItemName"} -> "unknown"
      [] OTHER -> IF HasControlProperty(c, s) THEN "no" ELSE "unknown"

VolumeSize(s) ==
    CASE s = "OwnedObjects" -> 0
      [] s = "DecibelRange" -> ValueRange
      [] s \in ControlWords \cup Levels \cup Conversions -> UInt32
      [] OTHER -> UnknownProperty

MuteSize(s) ==
    CASE s = "OwnedObjects" -> 0
      [] s \in ControlWords \cup {"BooleanValue"} -> UInt32
      [] OTHER -> UnknownProperty

PitchSize(s) ==
    CASE s = "OwnedObjects" -> 0
      [] s \in ControlWords \cup {"StereoPanValue"} -> UInt32
      [] OTHER -> UnknownProperty

ClockItems == 2

ClockSourceSize(s) ==
    CASE s = "OwnedObjects" -> 0
      [] s = "AvailableItems" -> ClockItems * UInt32
      [] s = "ItemName" -> Pointer
      [] s \in ControlWords \cup {"CurrentItem"} -> UInt32
      [] OTHER -> UnknownProperty

VolumeData(s, asked) ==
    CASE s = "OwnedObjects" -> Listed(<<>>)
      [] s = "DecibelRange" -> FixedLength(ValueRange, asked)
      [] s \in ControlWords \cup Levels \cup Conversions ->
            FixedLength(UInt32, asked)
      [] OTHER -> Answered(UnknownProperty)

MuteData(s, asked) ==
    CASE s = "OwnedObjects" -> Listed(<<>>)
      [] s \in ControlWords \cup {"BooleanValue"} -> FixedLength(UInt32, asked)
      [] OTHER -> Answered(UnknownProperty)

PitchData(s, asked) ==
    CASE s = "OwnedObjects" -> Listed(<<>>)
      [] s \in ControlWords \cup {"StereoPanValue"} -> FixedLength(UInt32, asked)
      [] OTHER -> Answered(UnknownProperty)

ClockSourceData(s, asked) ==
    CASE s = "OwnedObjects" -> Listed(<<>>)
      [] s = "AvailableItems" ->
            Answered(Fewer(asked \div UInt32, ClockItems) * UInt32)
      [] s = "ItemName" -> FixedLength(Pointer, asked)
      [] s \in ControlWords \cup {"CurrentItem"} -> FixedLength(UInt32, asked)
      [] OTHER -> Answered(UnknownProperty)

-----------------------------------------------------------------------------
\* The entry points hand a question to the object it is about.
HasProperty(o, s, scope) ==
    CASE o = "PlugIn" -> HasPlugInProperty(s)
      [] o = "Box" -> HasBoxProperty(s)
      [] o \in Devices -> HasDeviceProperty(s, scope)
      [] o \in Streams -> HasStreamProperty(s)
      [] o \in Controls -> HasControlProperty(o, s)

IsPropertySettable(o, s) ==
    CASE o = "PlugIn" -> PlugInSettable(s)
      [] o = "Box" -> BoxSettable(s)
      [] o \in Devices -> DeviceSettable(s)
      [] o \in Streams -> StreamSettable(s)
      [] o \in Controls -> ControlSettable(o, s)

GetPropertyDataSize(o, s, scope, acquired) ==
    CASE o = "PlugIn" -> PlugInSize(s, acquired)
      [] o = "Box" -> BoxSize(s, acquired)
      [] o \in Devices -> DeviceSize(o, s, scope)
      [] o \in Streams -> StreamSize(s)
      [] o \in Volumes -> VolumeSize(s)
      [] o \in Mutes -> MuteSize(s)
      [] o = "Pitch" -> PitchSize(s)
      [] o = "ClockSource" -> ClockSourceSize(s)

GetPropertyData(o, s, scope, asked, acquired, pitchEnabled) ==
    CASE o = "PlugIn" -> PlugInData(s, asked, acquired)
      [] o = "Box" -> BoxData(s, asked, acquired)
      [] o \in Devices -> DeviceData(o, s, scope, asked, pitchEnabled)
      [] o \in Streams -> StreamData(s, asked)
      [] o \in Volumes -> VolumeData(s, asked)
      [] o \in Mutes -> MuteData(s, asked)
      [] o = "Pitch" -> PitchData(s, asked)
      [] o = "ClockSource" -> ClockSourceData(s, asked)

Selectors ==
    {"BaseClass", "Class", "Owner", "Manufacturer", "OwnedObjects", "BoxList",
     "TranslateUIDToBox", "DeviceList", "TranslateUIDToDevice",
     "ResourceBundle"} \cup BoxNames \cup BoxFlags
    \cup DeviceStrings \cup DeviceLists \cup DeviceWords
    \cup DeviceScopedWords \cup DeviceRates \cup PreferredChannels
    \cup StreamWords \cup StreamFormats \cup AvailableFormats
    \cup ControlWords \cup UNION {OwnProperties(c) : c \in Controls}
=============================================================================
