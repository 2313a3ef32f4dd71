# CardBridge: a TLA+ development

CardBridge lets M5Stack Cardputer devices act as a keyboard, a microphone and a
status display for a Mac. This directory holds TLA+ modules of the parts where
devices, tasks and threads interact, the TLC configurations that check them, and
theorems about them that TLAPS checks. Paths such as `server.py` are relative to
`bridge/agent/cardbridge/`, firmware files to `firmware/m5stack-cardputer-adv/src/`.

## 1. The system

| Part | State | Operations | Talks to |
|---|---|---|---|
| **Agent** (`server.py`, `BridgeApp`) | registry, pairing requests, held keys, lease, send locks, service state | one TCP task per connection, UDP receiver, a 50 ms periodic task, `start`/`stop`, App commands | everything below |
| Device registry and sessions (`devices.py`) | session of a device, its held keys, subscriptions, counters | register with replacement, remove, pairing requests | Agent |
| Configuration and tokens (`config.py`, `token_store.py`) | paired devices in memory and on disk, tokens in the Keychain | pair, validate, unpair, save | Agent |
| Keyboard (`keyboard.py`) | none of its own (macOS has the key state) | post a key event | Agent |
| Audio (`audio.py`) | a jitter buffer per session, the selected buffer, the PortAudio stream | feed (event loop), play (audio thread), reset | Agent |
| Negotiation (`protocol.py`, `versioning.py`) | none | hello to compatibility or refusal | Agent |
| Codex sessions (`agents.py`) | sessions, focus, quota | App Server events, hook events, acknowledgement, snapshot | monitor, hooks, Agent |
| Codex client and monitor (`codex_monitor.py`) | pending requests, child process | request, reader, refresh, restart | `codex app-server` |
| Token usage (`usage.py`, `session_usage.py`) | high-water marks, file cursors | notifications, file tail | monitor, Agent |
| Control socket (`control_server.py`) | subscribers, the socket file | publish, commands | macOS App |
| **Firmware** user interface (`ui.cpp`, `main.cpp`) | mode, page, selection, text typed, screen power | one tick per loop: buttons, keys, pages, interruptions | all of the firmware |
| **Firmware** link (`pairing.cpp`) | target, discovered and paired Macs, link state | discovery, connection worker, handshake, heartbeat, back-off | Agent, UI |
| Firmware keys, audio, Wi-Fi (`key_tx.cpp`, `audio_tx.cpp`, `wifi_mgr.cpp`) | pressed keys; capture queue; networks and scan | tick; capture and sender tasks; connect, scan worker | link, Agent |
| **macOS App** (`bridge/macos/Sources`) | the Agent process, the socket connection, the last snapshot | supervise, reconnect, commands | control socket |
| Driver (`bridge/driver/upstream/CardBridgeMicrophone.c`) | ring buffer, clock, settings, stored box | start and stop of IO, read and write cycles, get, set and configuration changes of properties | the Core Audio HAL, applications, the Agent's output |

The Agent is a single asyncio loop: code between two awaits is atomic, tasks
interleave at awaits, and only the audio callback and the threads of
`to_thread` run beside it. Devices share one keyboard and one microphone, so
most of what is hard is about sessions that begin, replace one another and end
while they hold something that is shared.

What makes each part correct, and what is hard about it:

* **Keyboard.** A key is down on the Mac exactly while some device holds it,
  however presses, releases and disconnections of several devices interleave.
  The bookkeeping is kept twice (per session and per key).
* **Sessions.** A registry entry is a live session; a replaced, unpaired or
  dropped session keeps nothing. Replacement happens inside another
  connection's task; the old task's `finally` runs later; unpair and stop run
  at any await.
* **Lease.** Only the owner is heard, nobody is preempted, and a silent owner
  loses the lease. The lease names a device, buffers belong to sessions, and the
  output thread reads one of them.
* **Topics.** A device is told what it subscribes to, gets updates of that and
  nothing else, and misses no last change, while two tasks write to its
  connection.
* **Jitter buffer.** Nothing stays behind the playback position, and a sender
  that is steady again is heard: after losses, pauses and wrap-around.
* **Pairing and link.** A token belongs to the Mac it is kept for, both ends of
  a link agree who is connected and with which token, and a device that means
  to be connected gets there, whatever worker, searches, lost lines, lost answers
  and the user do in between.
* **Keys of the device.** The Mac ends up holding what the transmitter believes
  to hold; names change while keys are held (Fn), and so does who the
  keyboard works for.
* **User interface.** A key acts only where it went down, a command is about
  what was highlighted, and nothing but the user changes mode and selection.
* **Audio of the device.** Two tasks and the main loop share a queue and
  flags: nothing old is sent, everything is given up at a stop, and a pipeline that
  works by its return values but delivers nothing is restarted.
* **Wi-Fi.** A scan worker, a driver that joins by itself, the user, and a
  list that is not saved atomically.
* **Driver.** A ring buffer without locks between two devices, a clock whose
  source changes, configuration changes that are asked for, performed and
  aborted by the HAL, and two questions that must give fitting answers.
* **Codex state.** Hooks, turn events and polls report on the same sessions out of
  order; a deck that nothing is on its way to shows what is, the
  focus is on the session prompted last, and only prompts reorder the history. That usage is never counted
  twice is not modelled.

## 2. Modules

| Module | Models | Kind |
|---|---|---|
| `Connections` | the connections, the only constant all parts of the Agent share | |
| `SharedKeyboard` | what the Agent promises about keys: a key is down while somebody holds it | abstract specification |
| `KeyOwnership` | `_handle_key`, `_release_session_keys`, `KeyInjector.inject` | detailed specification |
| `AudioLease` | the lease operations, `receive_audio`, the choice of the output's buffer | state and operations |
| `BridgeSessions` | `handle_client`, `_authenticated_loop`, the registry, unpair, `stop`, restart | composition; EXTENDS KeyOwnership and AudioLease |
| `TopicSync` | the `sync_*` messages and `_flush_topic_subscriptions` of one session | detailed specification |
| `JitterBuffer` | `JitterBuffer` in `audio.py`, the sequence numbers of `audio_tx.cpp` | detailed specification |
| `UiMode` | mode, page and suppression in `DeviceUi`: who the keyboard works for | operators on the object |
| `DeckKeys` | `key_tx.cpp`, `keymap.cpp`, the wire, the Agent's keyboard | composition; EXTENDS KeyOwnership, UiMode and Lists |
| `DeviceUi` | `ui.cpp`, `main.cpp`, the console's page and mode | EXTENDS UiMode |
| `PairingLink` | `pairing.cpp`: the device's end of the link | operators on the object |
| `Pairing` | its worker, the Agents of the Macs, network, user | composition; EXTENDS PairingLink |
| `AudioTx` | `audio_tx.cpp`: capture task, sender task, main loop | detailed specification |
| `WifiManager` | `wifi_mgr.cpp`, the list of networks in `settings_store.cpp` | detailed specification |
| `DriverIO` | `StartIO`, `StopIO`, `GetZeroTimeStamp`, `DoIOOperation` | detailed specification |
| `DriverTables` | what the driver answers about each property of each object | operators; EXTENDS Lists |
| `AgentStore` | `AgentStore` in `agents.py`; broadcasts, snapshots, acknowledgements in `server.py` | detailed specification |
| `Lists` | selecting from a list, for `key_tx.cpp` and the driver's lists | operator |
| `Driver` | every `Set...PropertyData`, configuration changes, notifications, storage, and the questions | composition; EXTENDS DriverIO and DriverTables |
| `MCAgentStore`, `MCDeckKeys`, `MCDeviceUi` | symmetry, a constraint, key maps and lists for TLC | |
| `KeyOwnershipProofs`, `AgentProofs` (`BridgeSessions`, `TopicSync`, `AgentStore`), `AudioPathProofs` (`AudioTx`, `JitterBuffer`), `DeckKeysProofs`, `DeviceUiProofs`, `WifiManagerProofs`, `PairingProofs`, `DriverProofs` | theorems | |

### KeyOwnership and SharedKeyboard

`held_keys[c][k]` is the session's entry for a key, `held_key_owners[k][c]` the
Agent's, `injected_key_modifiers[k]` the modifiers of the down event, and
`macos[k]` what macOS has: whether the key is down and with which flags. An
entry is the set of modifiers that came with the press, or absent. `KeyDown` and
`KeyUp` are whole calls of `_handle_key`, the refusal by the injector and the
early returns included; `ReleaseSessionKeys(C)` is the loop over
the sessions in C, each with its keys. Keys are those after
canonicalisation, and an event is posted in one step, because
nothing in `inject` awaits. In `SharedKeyboard` there are only the holders of a
key and whether it is down; `ImplementsSharedKeyboard` maps `held_key_owners`
and `macos` to them.

### BridgeSessions with AudioLease

`phase[c]` says where the task of a connection is: no connection, reading the
handshake, sending the reply of an accepted one, or in the loop until its
`finally` has run. `registry` is `DeviceRegistry._by_id`; `link` whether
reads and writes can still succeed; `paired` and `saved` the configuration in
memory and on disk; `service` how far `stop` has come. A step is what runs
between two awaits: `HelloPaired` and `PairAccepted` end at the await of their
reply, `Register` is from there to the loop (replacement and the old session's
cleanup included), `KeyMessage` and `LeaseMessage` are dispatches after the
check that the session is current, `Finish` is the `finally` block, `Unpair` the
App's command, and `StopBegins`, `StopListening`, `StopSessions` the three
stretches of `stop`.

`AudioLease` keeps the lease, the buffer the output reads (`output`), the time
of the last packet as never, recent or silent (over 3000 ms), and what a buffer
holds as the standing its session had when the packets came in. `Play` empties
a part of the buffer from the audio thread at any moment.

Left out, as mirrors of what is modelled: `DeviceSession.replaced` (set in the
step that changes the registry entry), `active_tokens`, `_agent_clients`,
`connected_devices`, `audio_lease_state`. An owner that is no longer in
the registry is cleared lazily by `_audio_owner`; `LeaseOwnerOnline` shows that
this never arises. The writer's `wait_closed` and the listening socket's are taken
as in the Python of the release build, where the latter does not wait for
sessions; from Python 3.12.1 on it waits for them, and `stop` would run into
the forced exit after eight seconds. A crash is not an action: nothing is
persisted that could be wrong after it but keys left down, which the code does
nothing about.

### TopicSync

One session and the two tasks that write to its connection: its own, which
answers one message at a time, and the periodic flush. `sends` is the queue of
the send lock with the frame being written at its head. Building a frame and
queueing it is one step; the flush goes on (`FlushResume`) when its frame has
been sent. `closed` is the set of topics whose delivery window is open since
their last update; the flush compares with the time it started, so time passes
only between flushes. `stale` records which topics have changed since their
newest frame was built, `overlooked` those that last changed while that frame, an
update, was being sent, and `told` the topics of the last answer the device has
read; all three only observe. Sequence numbers are the order of the queue: they are taken
under the lock, which admits its waiters in order.

### AgentStore

`known` is the key set of `AgentStore.sessions`, `sessions` their fields, `turns`
the last turn told of each; `focus`, `focusSeq` and `latestPrompt` say which session
was prompted last. `fresh` only observes: the focus came with a prompt that was
told before any newer one, and its session has been known since. Three sources report: hook datagrams (`HookEvent`), which
may come late and set a session's time even back; turn and item events of the App
Server (`TurnStarted`, `Mention`, `TurnCompleted`, `PublicActivity`); and the thread list
(`UpdateThreads`). Each action is the whole handler with its `_trim` at the end and
`_changed`, which schedules one broadcast (`scheduled`). `Broadcast` starts its task, and
`Reach` is that task at one deck (`due` are those still to come), so changes, links and
acknowledgements interleave with it. `cursors[d][s]` is the update a deck has
acknowledged. `listed`, `shown` and `shownFocus` are the newest snapshot sent to a
deck.

Titles, projects and activity texts are abstracted to whether an event changes
them. The order of the dict, which breaks ties of equal times, is any order. Hook
events the installer does not ask for are left out, as are quota and its mode.
`MCAgentStore` keeps the decks and the order of times apart (`OneAtATime`): beside a deck
that has been told something, or a turn with an id, time stands still and one session has
events. The theorems have no such restriction.

### JitterBuffer

`packets` is the key set of `_packets`, `next`, `started` and `missing` are its
position, flag and count; `counter` is the firmware's sequence number. `Feed` is
`feed` with its late, restarted and overflow branches, `Play` is one frame of
`read_samples`, `Reset` a lease boundary. `steady` and `unheard` only observe:
whether exactly one new packet has arrived per frame played, and for how many
such frames nothing has been heard. Sequence numbers wrap at `SeqMod` (2^32 in the
code).

### DeckKeys, UiMode and DeviceUi

`ui` is the `DeviceUi` object, `pressed` the list of switches the keyboard
library reports, oldest first, `previous` the transmitter's list. `Loop` is one
pass of the main loop: `UiTick` (BtnA, release of the suppression, waking,
interruption by a pair code), then `KeyTransmitter::tick`, which sends the
differences in the order of the code. `wire` holds messages until the Agent
reads them, and the Agent's side is KeyOwnership. Shift travels only as a flag
and is left out; the list of physical switches has the capacity of the list of
keys. Other devices press keys without modifiers.

`UiMode` holds the passages of `DeviceUi` that decide who has the keyboard; both
modules use it. `DeviceUi` has one operator per page and menu. `u` is the
object, `e` what it reads from the others (lists of networks, Macs, sessions,
the link), `keys` how many keys are down, which is what `Keyboard.isChange`
compares, and whether one of them went down elsewhere. `Tick` follows the code in
order: `Powered` (button, keys as such, screen), `Prepared` (first-boot funnel, pairing,
the session), `Routed` (the handler of the page, if keys act). `shown` and `deed` only
observe: what is highlighted on the screen (nothing in the dark, `Unknown` once what was drawn
is out of date), and what the last tick did. BtnA
that wakes the screen and a key in the same tick are both there. After a list has
shrunk nothing is highlighted, yet Enter takes the last row: `ActsOnHighlighted`
leaves this case out by name.

### PairingLink and Pairing

`deck` is the `PairingManager` object with `client_` (peer, state of the line,
the lines both ways), the connection worker, the search, the target, the list of
pairings with tokens and the audio endpoint. Each member function is an operator
from object to object, `Tick` composes them in the order of `tick`. An action
of `Pairing` is a tick with what the world does in it, the end of the
worker, a command, or a line read by a Mac's Agent. A line is open, cut
without either end knowing, or closed by the Mac with answers still to be read.
A code that is still to be read on a connection the device has left is read late
(`LatePair`). Tokens are fresh: a new one is none that anybody knows.
A `Disturbances` budget pays for failures, the user, the App and the network, so that
behaviours are undisturbed in the end. One input line is handled per tick;
back-off times are one delay that passes.

### AudioTx

Each task is a program counter and its locals; a step goes from one access to
shared state to the next, so tests and uses of `active_`, `muted_`, the endpoint
and the queue interleave. `micStop` and the reset of the queue after it are two steps
(`MicStop`, `CaptureResets`), and the sender may take and send frames between them.
`queue` counts frames; `earlier` observes which of them, and of those in the sender's hand
or sent, were captured before the microphone was last started. `OneFrameOfEarlierRun` does not say
that no such frame is sent: the sender keeps the one it has taken over a stop and a
start. `codec` and `net` are what the
microphone and the network do: deliver, deliver constant frames or nothing, refuse
to start; deliver, swallow, or fail datagrams. Opening the socket may fail. A pong says whether the Mac has
received anything since the last one.

### WifiManager

`w` is the object with the driver's target and station, `nvs` the keys and strings in
flash. Saving is a sequence of writes that a power cut may end anywhere. A password
is the network it was typed for and whether it is right. Times are events
(`Timeout`, `RetryDue`, `RescanDue`).

### DriverIO, DriverTables and Driver

Time is in frames since the anchor. A frame in the ring is `Silence` or names the run
and the sample time it was written for. A read cycle is copy, wipe and store of
`isBufferClear`; a write cycle copies, stores `lastOutputSampleTime` and the flag,
which a compiler may order as it likes. The HAL is external: it ends a cycle
before the next and before the last StopIO of a device, reads within a block's
length of the time having passed, and writes at most one block ahead. With this
a ring of 4 * BlockFrames - 1 frames is enough; the driver's has 65536, the
HAL's largest IO buffer 16384.

`DriverTables` says of every object, selector and scope whether the property
exists, can be set, how long it is, and what a read with a buffer of a
length returns. A value is its length, and its items where it is a list of
objects. The lists of a device are selected from its table of objects by `Only`, a
recursive function, so that they can be reasoned about. `Driver` adds the settings. The blocks it dispatches run on a
concurrent queue, so requested changes and notifications arrive in any order and
merged. `PerformReadsRate` and `PerformAppliesRate` are the two locked
sections of a rate change. In one behaviour one of the parts of the driver moves
(`part`, `Varies`), which is sound because the properties relate variables of one part
only; mute belongs to two parts and is varied in both. One client per device
suffices for the audio, since several only count.

## 3. Runs

| Run | Checks | Shows |
|---|---|---|
| `deck_keys` | MacFollows OneMaster UpCarriesDownFlags ImplementsSharedKeyboard KeepsName NoneStuck | from the matrix to macOS beside another device: the Mac holds what the transmitter believes, a key held across a mode switch is not typed, a release finds the name of its press, nothing stays down |
| `sessions` | RegistryLive KeysHeldByCurrent OutputPlaysOwner NeverPreempted DroppedLinkLetsGo StopLetsGo SilentOwnerExpires | entries are live sessions, only current sessions hold keys, the output reads only what the owner sent as owner, nobody is preempted; keys come up after a lost link and a stop, a silent owner loses the lease |
| `topic_sync` | ToldMatches ChangesArePending UpdatesOnlyWhileTold PendingIsSent | what a device is told and sent, that no change but one during the send of its update is dropped and nothing pending starves |
| `agent_store` | DecksUpToDate FocusOnLatestPrompt HistoryKeepsOrder | an idle deck shows the sessions as they are; no session was prompted after the one with a fresh focus, and one overtakes another only by a newer prompt |
| `jitter_buffer` | HeardAgain | a steady sender is heard again after at most StarvationFrames + TargetFrames - 1 frames |
| `mac_link` | TokenOfIssuer Agreement Settles | tokens and their Macs, both ends of a link, and that the device gets connected |
| `audio_tx` | OneFrameOfEarlierRun OneFrameAfterStop QuietsDown Recovers | after a restart of the microphone only the frame in the sender's hand is an old one, one frame at most after a stop, everything given up when streaming ends, sound again when it is on |
| `wifi` | OneMixedPerCrash OnKeptNetwork Joins | at most one damaged entry per power cut, the device is on a network it keeps, and what can be joined is |
| `device_ui` | KeysActWhereTheyWentDown ActsOnHighlighted SelectionSticky | keys, lists that change under the user, selection |
| `driver` | RingWhileRunning HearsItsOwnTime ClearMeansSilent RateAsAsked AnswersAsAnnounced ClockForward | ring, clock, rate and answers of the virtual microphone |

Two more runs end in a violation: in each the code does something that its
documentation or its comments deny.

| Run | Property | What happens |
|---|---|---|
| `late_finally` | LeaseEndsWithItsSession | the `finally` of a session replaced long ago compares the lease with a device id and takes it from the device's new session |
| `unpair_in_handshake` | OnlyPairedRegister | a device unpaired while its accepting reply is being sent comes online |

Other divergences met while reading and modelling, without a run of their own:

* `ui.cpp:281-282` says that a manual selection "remains sticky until another prompt changes
  focus again". Opening the Codex page from the home page drops it (`showCodex`,
  `ui.cpp:208-213`), so after Esc and Enter the selection is the Agent's focus again without any
  prompt; "page codex" at the serial console does the same. `OpensCodex` names this in
  `SelectionSticky`, which holds of every other tick.
* A lease that was claimed and never used is never released (`server.py:1002`).
* `unpair` forgets the device, fails to save, and its session is not cleaned up
  (`config.py:206`); `UnpairFails` in BridgeSessions is this step.
* A topic that changes while its update is being sent is dropped from the pending
  set (`server.py:1355`), and a window written after the send survives an
  unsubscription during it (`server.py:1354`). `ChangesArePending` names the lost
  change (`overlooked`) and covers every other moment.
* `docs/VALIDATION.md:52` says of the polls that they "follow only a newer user prompt", and
  the focus is to be on the session the user prompted last. A `UserPromptSubmit` hook or the start of
  a turn is not compared with the latest prompt (`agents.py:469-471`, 333-334): told late, after a
  poll or another hook reported a newer prompt elsewhere, it takes the focus back to the old one,
  and no poll corrects that until there is yet another prompt. `FocusOnLatestPrompt` names this case
  (`fresh`) and holds in every other. A late `PreToolUse` sets a finished session running.
* The store is trimmed by `updated_ms` alone (`agents.py:645`), although "a focused
  session remains available even when many unprompted sessions receive background
  updates" (614-615): that holds of a snapshot, and the session may be gone from the store.
* `docs/VALIDATION.md:52` and `agents.py:193-194` say that tool updates do not reorder the
  history. They do among sessions whose prompt is not known, which are ordered by `updated_ms`
  (611); `HistoryKeepsOrder` is about the others.
* A poll that raises `updated_ms` (`agents.py:421`) makes an acknowledged
  session unread again on every deck, since a cursor is compared with that time, although
  nothing was said in it (`docs/DEVICE_UI.md:49-52`).
* `submitPairCode` writes to the worker's connection when the serial console sends a
  code during an attempt (`pairing.cpp:346`), and a search asked for on the
  Computers page may replace a live link when it ends (`pairing.cpp:180`).
* The driver reads the box's name with the key of its acquired flag
  (`CardBridgeMicrophone.c:769`), writes each owned object to one place of the
  list (1466), refuses a right qualifier in TranslateUID (1553), and never says how long
  the box's UID is. `WrongAnswer` names them. `EnablePitchControl` and
  `DisablePitchControl` may be performed in the wrong order.

### Bounds

* `sessions`: two connections of either of two devices, so that a device is replaced, by
  itself or after it has left, or two devices are online; one key without modifiers, since
  the rest of the keyboard is in `deck_keys` and `AgentProofs` shows that sessions
  use it only through KeyOwnership. A replacement while another device is online needs a third
  connection; the four safety properties are proved for any number of them.
* `agent_store`: two sessions, a deck that may link again, a turn, a snapshot and a store of
  both sessions and one cursor, so that acknowledging one forgets the other; three times and two
  moves of the focus. That a session is trimmed takes a third, and is covered by the theorems.
* `topic_sync`: three topics, of which the session may subscribe to two. The
  third shows the changes that become pending without a subscription.
* `jitter_buffer`: target 2, maximum 4, starvation 4, a sequence space of 12
  (three times the maximum, so that wrapped and merely late packets differ),
  delays up to 6, that is past the maximum. The bound of `HeardAgain` is
  exact: one frame less is violated.
* `deck_keys`: Fn, a modifier, and a switch with a Fn meaning that the injector has no code
  for; lists of two, so that one key is cut off; two messages on the wire.
* `mac_link`: two Macs and room for one pairing, three disturbances (enough for a
  lost answer, a change of target and a command), four tokens, so that a fresh one always exists.
* `audio_tx`: every limit two, so that counters count before they bite; four disturbances.
* `wifi`: two networks, every password, room for two, two disturbances (a power cut and a change of
  the list or the range).
* `device_ui`: two networks, Macs and sessions in lists of both orders and shorter ones, two
  disturbances (a list that changes twice, or a new prompt and then a list), two levels of brightness, one digit a code.
  In one behaviour the time, the networks, the Macs or the sessions vary (`Varies`), since the
  properties are about one page at a time; the theorems let all of them vary together.
* `driver`: a ring of 7 frames, exactly 4 * 2 - 1; two lives of the ring, ten frames a run,
  so that the ring wraps; a period of 3 and an adjusted one of 2; two clients
  and two requests of one kind; three levels of volume and pitch.

Uptime stays under 24.8 days: the firmware's differences of `millis()` are
compared with a sign only up to there.

`CHECK_DEADLOCK FALSE` is set for TopicSync, where the end of the session is the end
of the behaviour, and where a budget or a bound on time may run out
(`deck_keys`, `agent_store`, `mac_link`, `wifi`, `driver`).

### Fairness

* `MustFinish(c)`: weak fairness of the end of a task whose link is down or
  whose process is stopping. Reads time out (15 s in the handshake, three times
  5 s in the loop), sends after 2 s, and `asyncio.run` cancels what is left.
* `StopListening`, `StopSessions`: `stop` runs on; its awaits are bounded.
* `ExpiryTick`, `FlushReach`: the periodic task comes round. This assumes that
  it is not stuck in `ControlServer.publish`, whose `drain` has no timeout; see the hazards.
* `FlushResume`, `Sent`: the event loop resumes what is ready, and a send
  ends within its 2 s timeout (its failure is `End`).
* `WindowPasses(t)`: strong fairness, because a window elapses in real time
  however often the flush passes by in between.
* `Idle`, `AgentReads` (DeckKeys): the main loop runs, the Agent reads, and finds that a
  device has left.
* Pairing: the main loop ticks, searches end, the worker ends (connect has a
  timeout), delays pass, the Agent reads. Strong for `Heartbeat`, which is due every
  few seconds whatever else a tick finds to do.
* AudioTx: FreeRTOS runs both tasks, the Mac answers heartbeats with its output ready, and six seconds
  pass without progress if there is none.
* WifiManager: the main loop ticks, a scan ends, the driver joins what it can, times pass.

Nothing else is assumed of devices, links or the App; AgentStore, DeviceUi and Driver state no
fairness, having no liveness property.

## 4. Proofs

All theorems hold for any sets of connections, devices, keys, switches
and topics, and any depths, limits and bounds; the assumptions are those named in the
modules (None is not a connection or device, capabilities are subsets of the
devices, ranges of numeric constants, 4 * BlockFrames - 1 <= RingFrames).

* `KeyOwnershipProofs`. The inductive invariant `KeyInv` joins the type, the
  mirror of the two maps, the state of macOS as a function of the holders, and
  the flags injected. `KeysDownWhileHeld`, `NothingInjectedWhileDown` and
  `KeyUpFlags` follow; `Refinement` shows that every step is a step of
  SharedKeyboard or leaves it alone. The work is in
  `ReleaseSessionKeys`: a key goes up if all its holders are among those released.
* `AgentProofs`, the sessions. `KeyboardRefinement`: each session action is a KeyOwnership
  step or leaves its variables alone, so everything proved of KeyOwnership
  holds here. `TypeCorrect`, `RegistryAlwaysLive`, then
  `OnlyCurrentSessionsHoldKeys`, which needs `RegistryLive`: a session that is
  current is in its loop, and an idle connection holds no key. For the lease,
  `OwnerAlwaysOnline` and `OnlyTheOwnerIsHeard` are inductive only together
  (`LeaseInv`): that a new owner's buffers are empty needs the owner's registry
  entry to be live, and that nothing foreign is in the output's buffer needs it
  to be emptied whenever the lease ends. `LeaseNeverPreempted` is an action
  property from these.
* `AgentProofs`, the topics. The invariant describes the queue: at most two frames, the
  update of the flush at most once and only of `sending`, the answer of the
  session's task at most once. `SyncTypeCorrect` bounds the queue,
  `DeviceAgrees` and `NoUpdateAfterUnsubscribe` follow from the order of the frames
  in it, `ChangesNotLost` from what building a frame clears: with it goes `Merged`, that a topic
  whose update is being sent has no change but an overlooked one.
* `AgentProofs`, the sessions of Codex. `StoreInv` joins the types, `PromptsNoted` (no known prompt is
  later than the one noted as the latest), `FocusNoted` and `DecksUpToDate`, which is inductive: an
  event that notifies schedules a broadcast, and one that does not leaves each session looking
  as it did (`EventInv`, `PutInv`), since a session is quiet for a deck by the time of its
  update. `FocusStaysLatest` needs `PromptsNoted` and `FocusNoted`: the prompt noted as the
  latest is that of the session with a fresh focus (`FocusOnNoted`, `FocusStaysNoted`,
  `PollFocusTypes`). `HistoryInOrder` is by the events:
  no prompt time is ever set back (`PromptsKept`), so only a newer one overtakes. All for any number of sessions and decks and
  any limits, trimming included (`KeptSubset`).
* `AudioPathProofs`, the device's end: `TypeCorrect`; `OneOldFrame` from `OpenWhileReading` (from
  the start of the microphone until the frame is in the queue, nobody but
  the capture task closes the channel) and `FramesWhileOpen` (with the channel closed there
  are frames only until the reset that follows), so that the queue is empty when the microphone is
  started and only the frame in the sender's hand is old (`OneInHand`); `AtMostOneMore` from `CountedFromStop` (the sender
  looked before it sends, so it has one frame in hand at most).
* `AudioPathProofs`, the Mac's end: `BufferTypeCorrect`, and `NoPacketBehind` from it: late
  packets are refused, a restart empties the buffer, and at the wrap of the
  sequence number the position becomes 0, before everything. `SteadyIsHeard` counts
  (`Regaining`): while the sender is steady, a stream that plays has missed as many frames in a row
  as were silent, and one that has started over still holds every frame fed since, all with different
  numbers (`RecentNumbers`), so it reaches its depth after TargetFrames of them.
* `DeckKeysProofs`. `OneMasterAtATime`: switches seen in Local mode stay in the list while they are
  down, and as long as there is one, the object is in Local mode or suppresses
  (`Reserved`). No passage of tick loses that while a key is down
  (`TickKeepsMaster`), so the transmitter sees nothing. `AgentStep`: each step here is a
  KeyOwnership step of the device or of others or leaves its variables alone, so `KeyInv` holds
  (`AgentInv`), and with it `DeckRefinement` and `DeckKeyUpFlags`. `AgentFollows` relates three
  places: what the Agent holds for the device, changed by the last word about each key on the wire
  (`UpAfter`, `EndsDown`, `WillHold`), is what the transmitter believes, except for keys the
  injector refuses (`Unserved`); a pass of the loop appends releases and presses that make
  the same changes to both sides (`SentWords`), the Agent takes the first word off (`ReadWords`).
  `NamesKept`: a key that stays held keeps the name of its press. That the operator which keeps
  some of a list's items (`Only`) is the recursive function it is written as follows from a
  least-number argument (`Least`), since the library's induction theorems cannot be used.
* `DeviceUiProofs`. The properties speak of the last tick, so the invariant says what makes the
  next one harmless. `StrayWaits`: while a key that went down elsewhere is held, the tick waits
  for the release of all keys, unless the keys are the Mac's. Whatever changes page or mode while
  a key is held must restore it, and so must waking, which has to suppress before the handlers are
  reached: `NoStrayKey`. `ShownFollows`: unless it waits or the screen is out of date, what
  is highlighted is the selected row of the page, and on the home and Codex pages the chosen session,
  which is still in the list. The row is not enough there, because a list that comes in between two
  ticks may have another session in it; tick finds the chosen one again before a handler uses the
  row (`CommandsAim`, `SelectionStays`). Each handler is shown by itself to keep types, to
  leave a stray key waiting if it changes the page, and to name in its command what is
  highlighted. `UiTypeCorrect` bounds every menu, `ModeBelongsToUser` is by the cases of tick.
* `WifiManagerProofs`. `WifiInv` says that the list in memory is the one the store would load
  (`SaveLoads`), that the store, with what earlier saves left behind the end of the list, has at most
  as many torn entries as power has failed, and where the driver aims (`Aims`). What is left behind
  the end is needed, because a later save may take it into the list. `ForgetTears` is the hard case:
  entries move up one by one, so a save that is cut has one entry in two places or one half moved; without
  it the torn entries of the new store are mapped to different ones of the old (`NotMoreThan`).
  `StationIsKept` needs that the driver is on what it was told to join, and `SavedIndexFound`,
  that the list is searched to its first match. `ScansLeftAlone` is by the cases of tick (`TickGood`).
* `PairingProofs`. `TokensOfTheirMacs` and `BothAgree`, for any finite set of Macs, any
  limits of at least one, with `None` and `Unpaired` unlike any Mac or token. The
  invariant has three parts. About the device (`DeckInv`): what is stored for a Mac is a token
  of that Mac (`Stored`), the target, its token and the audio are of one Mac
  (`Aims`), what comes in on a connection was said by its peer (`LineOK`), and a
  connection leads to where the device aims unless the attempt that made it is cancelled,
  with nothing said on it while the worker owns `client_` (`WorkerOK`, `Unheard`). About the
  conversation (`Talk`): before the Agent has read the hello there is at most one, and it carries
  the token the device aims with (`Greets`); before it is ready nothing on the line
  says it is (`Strange`); after that the device has the token of the Agent's session
  or is about to be told it (`Tells`). Without it `Agreement` is not
  inductive: that the device is right to believe it is connected is a fact about the messages
  in flight and the Agent's phase. About the Macs: the types (`WorldOK`). Each member function of the
  manager is shown to keep the first two from any state of the object, and the steps of tick, of
  the user, the network and the Agents are composed from these.
* `DriverProofs`. The ring: every frame in it is of a block written in
  this run, in its place, and not older than what was last written there
  (`Contents`); blocks are written in order and at most one ahead (`InOrder`),
  and a read ends within two blocks of its time (`ReadsInTime`). Frames in the same place
  are a ring apart (`SamePlace`, from facts about remainders), blocks a block apart
  (`BlocksApart`), so with 4 * BlockFrames - 1 <= RingFrames a reader cannot meet a later lap, and
  `NoOldLaps` follows. The flag: `FlagKept` says what `isBufferClear` means in the
  middle of the cycles, and `ClearIsSilent` follows. The clock: `Clocked`, the hands are not
  ahead of the time; from it `ClockNeverBack`. `RingIsThere` counts the clients of both devices. For the
  settings, `RateOnItsWay` (the rate last asked for is in a request, between the two
  locks of a change, or in force) gives `LastRateWins`; `ClockFollowsSettings`,
  `ListenersUpToDate` and `BoxFoundAgain` state what no run lists. The answers (`AskInv`): a
  question in progress is about a property that exists, it was told the length for the box as it was
  then, and its answer fits. `AllAnswers` goes through the objects and
  their selectors: each length against each answer, with the box acquired or not at either moment
  and the pitch control there or not. For the lists, `Only` of three and of four items is computed from its
  recursive function (`OnlyKeeps`, `KeptOfThree`, `KeptOfFour`), and what is left of them are
  different objects; a prefix of such a list fits the buffer (`ListFits`). The arms of the code's `switch`es
  are disjoint in `DriverTables`, because in TLA+ a CASE with two true arms may take either. `NextIsIoNext` carries the
  audio path into the composition.

Some invariants and action properties are proved and no run repeats them: the type invariants,
KeyTypeOK, OwnersMirrorHeld, DownWhileHeld, NoEventWhileDown, LeaseOwnerOnline,
SilentWithoutOwner, ImplementsKeyOwnership, AudioTypeOK, NothingBehind, ScanUndisturbed,
ModeIsTheUsers, OnlySiblingsStale, TicksMatchRate and AcquiredSurvives. Every invariant and every
action property that a passing run checks has a theorem.

Only model-checked: the liveness properties (QuietsDown, StopLetsGo, DroppedLinkLetsGo,
SilentOwnerExpires, PendingIsSent, Joins, Recovers, Settles, and NoneStuck), which are out of the
prover's reach, and the two violations, which are finite counterexamples.

## 5. Not modelled, and the plan

In this order, each a module of its own:

1. `TokenUsage` (high-water marks, against counting each token at most once; a late
   notification of another turn moves the mark back, `usage.py:170-173`).
2. `AgentLifecycle`: control socket, subscribers that do not read, forced exit,
   an old Agent that ends after the new one has started.
3. `SessionTail` (offsets, partial and oversized lines, errors) and `CodexClient`
   (requests, reader, restarts).
4. The App's `AgentSupervisor` and `AgentClient`.

Theorems to add: single ownership of the socket path, that usage is never counted twice.

Left out for good: generated pixel data and fonts, drawing, the pet, animation
and battery estimates, samples, gain and conversion, build and packaging
scripts, hook installers, negotiation of versions (a pure function), logging and
diagnostics. The hazards of parts not modelled yet are in `PROJECT.json` with the reason.
