# Formal model of skg_bionic_cat

TLA+ models of the programs of this repository, TLC runs that check them on small
instances, and TLAPS proofs of their safety for every value of the constants.

The programs run on an ARMv7 board (`cmake/CrossCompileConfig.cmake`) beside an MQTT
broker. Paths below are relative to the repository.

The repository has about 9400 lines of its own code and some 280000 lines of headers of
vendored libraries (`3rd/`: LVGL, OpenSSL, CMSIS, Paho, the Agora SDK and others). The
models are of the former; a share of the whole is small for that reason alone.

## 1. The system

| Component | State | Operations | Talks to |
|---|---|---|---|
| **Agora app** `agora_module/src/hello_rtsa.c` | `g_app` (flags, capture device), `g_playback` (ring, two positions, thread) | option parsing, SDK set-up, JOIN / LEAVE, capture and send loop, SDK callbacks, clean-up | Agora SDK (callback threads), agent client, tinyalsa |
| **Playback ring** (in the same file) | `ring_buffer`, `write_pos`, `read_pos`, `running` | `__on_audio_data`, `playback_start`, `playback_thread_func`, `playback_deinit` | SDK callback thread, playback thread, main |
| **Agent client** `agora_module/src/agora_server.c` | configuration, one TLS connection per request | join, leave, update, status, list, speak | HTTPS server |
| **Send pacer** `agora_module/utility/pacer.c` | due time of the next audio and video frame | `is_time_to_send_*`, `wait_before_next_send` | Agora app |
| **Byte ring buffer** `agora_module/src/ringbuffer.c` | head and tail index | queue, dequeue, peek | nobody in the repository |
| **Microphone node** `bionic_cat_microphone_module/src/microphone_node.cpp` | control queue, worker thread, `streamer_` | `handleControl`, `controlLoop`, `startStream`, `stopStream`, `stop` | MQTT client, streamer, signal handler |
| **Microphone streamer** `.../capture_audio.cpp` | `running_`, two bounded queues, encoder cache, three threads | `start`, `stop`, `run`, `runEncode`, `runLocalize` | sound card, FDK-AAC, localizer, publisher |
| **Sound localization** `.../sound_localization.cpp` | none | cross-correlation, least squares, configuration | streamer |
| **Speaker node** `bionic_cat_speaker_module/src/speaker_node.cpp` | `player_`, `running_` | `handleAudioPlayCommand`, `playCommand`, `run`, `stop` | MQTT client, player, signal handler |
| **WAV player** `.../play_wav_tinyalsa.cpp` | file, device and its recorded format, four flags, resident thread | `stop`, `load`, `play`, `close`, `playbackThread` | speaker node, tinyalsa |
| **MQTT client** `bionic_cat_mqtt_utils/include/mqtt_client.hpp` | Paho client, options, handler | connect, publish, subscribe, disconnect | broker, the nodes |
| **Message serializer** `bionic_cat_mqtt_msgs/include/serializer.hpp` | none | one encoder and decoder per message | the nodes |
| **Utilities** base64, MD5, clock, file output, log | none or a file | | Agora app |
| **Scripts** `scripts/` | none | start and restart the programs | |
| **Vendored code** `3rd/` | | | external |

The hard behaviour is in the threads: a ring with no lock between an SDK thread and a
real-time thread; three threads on one mutex and one condition variable, ended by a flag
that is changed without the mutex; a player whose `stop` does not wait for the thread that
uses the file and the device; shutdown from signal handlers and callbacks; and the MQTT
session that comes and goes. `PROJECT.json` lists these hazards line by line with the
properties that cover them, or the reason why none does.

What makes each component correct (section 4 says where the code falls short of it):

- *Ring*: what is played is what was received, in order; the positions never lose count;
  the buffer is not freed under the thread; playback and shutdown make progress.
- *Streamer*: no wake-up is lost; queues drop the oldest periods only; messages come in
  capture order, numbered without a gap; nothing is closed under a thread; `stop` returns.
- *Player*: a play that was accepted starts; the device always has the file's format;
  `close` ends; `stop` means stopped.
- *Microphone node*: commands act in order; shutdown ends; a stream that died can be
  started again once a `STOP` has come.
- *Speaker node*: shutdown does not destroy the player under a command.
- *MQTT session*: a connected subscriber is subscribed.
- *Agora app*: every path out of `main` leaves the channel and frees what it created once.
- *Pacer*: frames are sent at their rate and the loop sleeps in between.
- *Agent request*: whatever step fails, what was created is given back; no agent is left
  behind.
- *Serializer*: what is decoded is what was encoded; what is cut is refused or understood in
  its head; old and new senders are understood.

## 2. Modules

| Module | Builds on | Models |
|---|---|---|
| `PlaybackFifo` | | the bounded queue the ring promises to be |
| `PlaybackRing` | refines `PlaybackFifo` | the ring of `hello_rtsa.c` |
| `MicStreamer` | | `MicrophoneAdtsStreamer` |
| `WavPlayer` | | `WavPlayer` under one commanding thread |
| `MqttSubscriber` | | one `MQTTSubscriber` and its session |
| `MicNode` | extends `MqttSubscriber` | the microphone program |
| `SpeakerNode` | extends `MqttSubscriber` | the speaker program |
| `Pacer` | | `pacer.c` and the wall clock |
| `AgentRequest` | | one HTTPS request of `agora_server.c` and the server |
| `AgoraApp` | extends `AgentRequest`, `Pacer` | `main` of `hello_rtsa.c` and its callbacks |
| `Serializer` | | `serializer.hpp` |
| `MCSerializer` | extends `Serializer` | the contents its messages are given for model checking |
| `...Proofs` | extend the module they are named after | |

The definitions named like a mutation of their neighbour (`PushTwice`, `JoinNot`, ...) belong
to no specification; section 3 says what they are for.

### PlaybackFifo, PlaybackRing, PlaybackRingProofs, PlaybackFifoProofs

`PlaybackRing` is the ring of `hello_rtsa.c`. A sample is named by its number in the stream
of accepted samples, so that a stale, lost or repeated sample is a wrong number. One
action is one load or store of shared memory by one thread (the two loads of a thread that
are only compared are one: a position seen late only makes the thread see less room or less
data than there is).

| Code | Actions |
|---|---|
| `__on_audio_data` | `Receive`, `StoreSample` (one per sample), `PublishWritePos` (with `playback_start`) |
| `playback_thread_func` | `LoadPositions`, `PlaySilence`, `CopySample` (one per sample), `StoreReadPos`, `PcmWrite`, `Leave` |
| end of `main`, `playback_deinit` | `RtcFini`, `ClearRunning`, `JoinAndFree` |
| the memory of the board | `BecomeVisible` |

`Ordered` chooses the machine. Samples are plain stores and both positions relaxed atomics,
so neither C11 nor the ARM target orders them: with `Ordered = FALSE` a stored sample
becomes visible to the other thread at some later time, and the store of `read_pos` may
overtake the loads of the copying loop. `pthread_create` is the one thing that orders them:
the new thread sees every sample stored before it (`StartPlayback`). It is taken to succeed.
With `Ordered = TRUE` the machine keeps program order (an x86 build does).

`device = "closed"` is what `playback_init` leaves when the device is not ready: the handle
is closed but not NULL and the period is 0 frames, so the thread is started and moves
nothing. What tinyalsa does with the closed handle is not modelled.

`PlaybackFifo` is what the ring promises: a bounded queue that accepts packets whole and
gives out a period at a time while two are buffered. `PlaybackRing` implements it
(`ImplementsFifo`) with the queue refined to what the playback thread would read between
the two positions.

### MicStreamer, MicStreamerProofs

`MicStreamer` is `MicrophoneAdtsStreamer`. A period is named by its number; it holds
`PeriodBlocks` blocks of samples and an AAC frame takes `FrameBlocks`, so the encoder's
cache carries a rest from frame to frame.

| Code | Actions |
|---|---|
| `stop` | `Stop`, `StopNotify`, `Join` (also the branch that finds `running_` false) |
| `start` | `Start`, then the actions of `stop`, then `OpenFails`, `InitFails` or `Opened` |
| `run` | `ProducerLoop`, `ReadPeriod` / `ReadNothing` / `ReadFails`, `PushPeriod`, `Notify` |
| `runEncode` | `EncoderLoop`, `EncoderFindsNothing`, `EncoderSleeps`, `EncoderWakes`, `EncoderTakes`, `EncodeNoOutput` / `Encode` / `EncodeFails`, `PublishReturns` |
| `runLocalize` | `LocalizerLoop`, `LocalizerFindsNothing`, `LocalizerSleeps`, `LocalizerWakes`, `LocalizerTakes`, `Locate` |

`queue_mtx_` appears only where holding it matters: a consumer that has tested its
condition and not yet gone to sleep is in `"block"`, and nobody else enters the mutex then
(`MutexFree`). Spurious wake-ups are modelled where the condition holds; one that finds
nothing goes back to sleep and changes nothing. FDK-AAC may keep samples inside and return
nothing (`EncodeNoOutput`). Past the bound `MaxPeriods` the sound card delivers no more
data. The rounding of the timestamp's step is left out: `pts` counts frames.

### WavPlayer, WavPlayerProofs

`WavPlayer` is the player driven by `SpeakerNode::playCommand` and the player part of
`SpeakerNode::stop`, one call after the other.

| Code | Actions |
|---|---|
| `SpeakerNode::playCommand`, `SpeakerNode::stop` | `PlayCommand`, `Shutdown` |
| `stop` | `RaiseStopFlag`, `CloseFile` |
| `load`, `readHeader`, `openPcm` | `OpenFile`, `ReadHeader`, `ReuseDevice` / `CloseDevice`, `DeviceOpened` / `DeviceNotOpened` |
| `play` | `EnsureThreadStarted`, `RequestPlay` |
| `close` | `Terminate`, `Joined` |
| `playbackThread` | `CheckCondition` to `RaiseStopFlagAgain` |
| undefined behaviour | `Crash`, `ReturnRegardless`, `SeekFails` |

A file and a device are named by the number of the command that opened them, 0 for NULL. A
C library or tinyalsa call on a handle that is NULL or has been closed meanwhile is
undefined: the process dies or the call returns as if nothing had happened. A file has one
block of samples. `audible = FALSE` is a speed at which no frame of a block remains
(`applyVolumeAndSpeed`). Left out: the race on `header_` while `applyVolumeAndSpeed` reads
it, and the device that a `pcm_open` given up after 30 seconds opens later.

### MqttSubscriber, MicNode, MicNodeProofs

`MqttSubscriber` is the session of one Paho client: `link` (not connected, connected, or lost
and being found again by the library) and `subscribed` (what the broker knows). The broker
and Paho are external. The clients ask for clean sessions, so that `ConnectionLost` ends the
subscription and `Reconnect` does not bring it back.

`MicNode` is `microphone_node.cpp` with its `main.cpp`: the main thread, the signal handler
on top of it, the MQTT callback thread and the worker.

| Code | Actions |
|---|---|
| `MicrophoneNode::init`, `run` | `Connect`, `Subscribe`, `InitFails`, `SetRunning`, `SpawnWorker`, `RunEnds` |
| `MicrophoneNode::stop` | `Halt`, `Lock`, `NotifyAll`, `Join`, `CloseStream`, `StopReturns` |
| `on_signal` | `Signal`, then the actions of `stop` in the frame `"handler"` |
| `handleControl` | `PushCommand`, `NotifyOne` |
| `controlLoop` | `WorkerLoop`, `FindsNothing`, `FallAsleep`, `WakeUp`, `TakeCommand` |
| `startStream`, `stopStream` | `IgnoreStart`, `StartStream`, `StartFails`, `StopStream` |
| the streamer's own threads | `StreamDies` |

`pc` has two entries, for the two frames of the main thread: while the handler's frame is in
use the one below it does not move. `control_mtx_` appears where it is held for longer than
one step. A second signal inside `stop` may find the mutex held by the frame below it (it
waits for ever), or join a thread that frame is joining (`JoinTwice`: the process ends).
`main` stops twice: by itself and in the destructor that `g_node.reset()` runs (`final`).

The streamer is its promise only: started without localization (the node leaves
`enable_localization` off), so that its `stop` returns (`CleanStopReturns` of `MicStreamer`).
The connections of the two publishers are part of `Connect` and `InitFails`. A payload that
cannot be decoded changes nothing. Not modelled: a signal delivered to another thread than
the main thread, and a callback that is still running when `disconnect` returns.

### SpeakerNode

`SpeakerNode` is `speaker_node.cpp` with its `main.cpp`, with the same two frames of the main
thread. `player_` has no lock; a call on a player that is gone is undefined, so that the
process ends (`Crash`) or goes on.

| Code | Actions |
|---|---|
| `SpeakerNode::init`, `run` | `Connect`, `Subscribe`, `InitFails`, `SetRunning`, `RunEnds` |
| `SpeakerNode::stop` | `Halt`, `Clear`, `StopPlayer`, `ResetPlayer`, `StopReturns` |
| `~SpeakerNode` after its `stop` | `MembersDestroyed` |
| `signalHandler` | `Signal`, then the actions of `stop` |
| `handleAudioPlayCommand`, `playCommand` | `Message`, `MakePlayer`, `PlayCommand` (one `Use` per call on the player) |

`WavPlayer` shows what the player does for one commanding thread, `SpeakerNode` that there
may be two.

### AgentRequest, Pacer, AgoraApp, AgoraAppProofs

`AgentRequest` is `send_https_request` with its callers `send_join_request` and
`send_leave_request`. `held` is the set of what the request has created and not given back
(context, socket, TLS session, buffers, response); `rpc` is the step it is at. The server is
external: it runs at most one agent for the channel and answers a JOIN with 200, or with 409
when there is one. A request or an answer may be lost or cut, and every step may fail. The
server handles a request no later than the end of the connection that carried it.

| Code | Actions |
|---|---|
| `send_join_request`, `send_leave_request` | `BeginRequest`, `JsonFails`, `Check`, `ExtractJson`, `AnswerUsable`, `AnswerUnusable` |
| `send_https_request` | `BuildFails`, `CreateSomething`, `StepSucceeds`, `StepFails`, `Receive`, `ReceiveFails`, `ReceiveEnds`, `Cleanup` |
| the server | `Serve`, `DoNotServe` |

`Pacer` is the audio side of `pacer.c` (nothing asks for a video frame) and the clock, which
may be set back: `gettimeofday` is the wall clock, and the board sets it from the network.

`AgoraApp` is `main`.

| Code | Actions |
|---|---|
| `app_init`, `record_init` | `RecordInit` |
| `agora_rtc_init` to `agora_rtc_join_channel` | `SdkFails`, `JoinChannel` |
| the JOIN request | `SendJoin`, the actions of `AgentRequest`, `JoinReturns` |
| the wait for the channel, `pacer_create` | `WaitEnds` |
| the loop | `LoopStops`, `LoopGoesOn`, `Read`, `ReadFails`, `Send`, `SkipFrame`, `SleepEnds` |
| from `exit:` | `SendLeave` or `NothingToLeave`, `LeaveReturns`, `LeaveChannel`, `RecordDeinit`, `PacerDestroy` |
| SDK callbacks, the signal handler | `Joined`, `ConnectionLost`, `StopAsked` |
| the process | `Launch`, `Kill` |

After a kill the server keeps its agent, and a second start finds it. `record_init` leaves a
device that did not open closed but not NULL, and `main` reads from it and closes it again;
a failed JOIN leaves `pacer` indeterminate: at both the process goes on or ends. A `main`
that only receives (`receive_data_only`) stays in the loop until a stop. Not modelled: option
parsing, the writers for received files, the callbacks that only log.

### Serializer, MCSerializer, SerializerProofs

`Serializer` is `serializer.hpp`: the layouts of the 25 messages as sequences of fields, and
two ends that walk along a layout. The writer appends the bytes of one field after the other;
the payload arrives whole, without its end, with one byte more, or without the fields that
came with a later version; the reader takes one field after the other, until it returns the
message or throws. What a field brings with it (`Follow`) is the same on both ends: the count
of a vector brings so many groups of fields, and -1 in the place of the motors brings the
parameters of the old format.

| Code | Actions |
|---|---|
| `serialize...`, one field | `Write` |
| publisher, broker, subscriber | `Publish`, `PublishShort`, `PublishLong` |
| `deserialize...`, one field | `Read`, or `Throw` where its bytes end or a count is negative |
| `safeRemaining` of `deserializeActionGroupExecuteCommand` | `Skip`: the field keeps its default |
| `return` | `Return` |

Integers have the code's widths and signs and are read as the code does (an unsigned value,
then a cast). The code writes the field list of a message twice, in its `serialize...` and in
its `deserialize...`; both are `Layouts`, so that `RoundTrip` could not see the two lists
disagree (all 25 were compared by reading). What arrives is a prefix of what some sender wrote,
or all of it and one more byte; a forged count or length is outside the model. A byte has
`ByteValues` values instead of 256, and a waveform `WaveLength` samples instead of 256. A float is its bits. Additions of offsets do not overflow. `trail`
remembers what was still to be written before each field and how long the payload was then; no
action of the reader looks at it.

`Value` is what a message says, and is a parameter. `MCSerializer` gives it the edge values of
`test/test_serializer.cpp` (zero, lowest, highest, alternating), and one content in which
neighbouring fields differ, for every type and not only for the ones the test takes.

## 3. Runs

| Run | Module | Result | What it shows |
|---|---|---|---|
| `ring_ordered` | PlaybackRing | passes | in program order, what is played is what was received (`PlayedInOrder`) and the ring implements the queue (`ImplementsFifo`) |
| `ring_arm` | PlaybackRing | passes | with reordering: types, `PositionsAgree`, `ThreadGoneBeforeFree`; two buffered periods are always played, shutdown ends |
| `ring_stale` | PlaybackRing | violated | with reordering, stale samples of later packets are played |
| `mic_streamer` | MicStreamer | passes | over two sessions with every failure: types, `QueuesHoldNewest`, `OpenWhileUsed`, `NoMissedNotify`, `InCaptureOrder`; no period waits in a queue for ever, a stop that finds the streamer running returns |
| `mic_hang` | MicStreamer | violated | after an encoder failure a stop waits for the sleeping localizer for ever |
| `wav_player` | WavPlayer | passes | types, `LoadedMeansReady`, `NoMissedNotify`, `WaitingPlayStarts`, `CloseReturns` over three commands |
| `wav_lost` | WavPlayer | violated | a play during the end of the last one is lost |
| `mic_node` | MicNode | passes | types, commands act in order (`FollowsCommands`), a stop is final (`QuietOnceStopped`), nobody sleeps over a notification (`NoMissedNotify`), no wake-up is lost (`EveryCommandServed`), one signal ends the program (`SignalEndsNode`) |
| `mic_deaf` | MicNode | violated | a reconnected node hears no command |
| `agora_app` | AgoraApp | passes | types, `Released`, `LeavesAgent`, `Paced`; a stop ends the program (`StopEnds`) |
| `speaker_exit` | SpeakerNode | violated | a signal destroys the player under the callback thread |
| `serializer` | MCSerializer | passes | types, `RoundTrip`, `ShortIsRefused`, `HeadIsWhole`, `OldSenderUnderstood` |

Every property of a passing run is also checked against a mutant of the code (a dropped
guard, a missing reset, an early store...), written beside the definition it replaces and
listed in `PROJECT.json`.

### Bounds

- `PlaybackRingOrdered`: 6 slots, periods of 2, packets of 1 to 3 samples and 14 samples in
  all. Both positions wrap twice, the ring is full, and a packet and a period straddle the
  end of the ring. `PlaybackRingArm`: 4 slots and 7 samples, since every slot may be visible
  or not; the wrap and the full ring still occur.
- `MicStreamer`: queues of two periods and three periods in all over two sessions, so that a
  queue overflows and periods are left for the second session; a period of 2 blocks and a
  frame of 3, so that the cache keeps a rest.
- `WavPlayer`: two formats and three commands: reuse, change of format, failure between
  them, and a request that is still pending when the next command comes.
- `MicNode`: three commands (one acted on, one queued, one arriving), two signals (one inside
  the other's `stop`, or inside that of `main`) and one lost connection. `MicNodeDeaf` and
  `SpeakerNodeExit` need one of each only.
- `AgoraApp`: two starts, the first of which may leave an agent behind; an interval of 2 and
  clock readings from 1 to 5, so that frames are skipped, caught up with, and the clock goes
  back past a due time.
- `MCSerializer`: bytes of four values: the least that tells the sign, the marker -1 and every
  byte order apart; strings and vectors of up to two elements; every prefix of every payload.

### Fairness

Weak fairness of each thread: a thread that can go on does. It is what the scheduler gives
(the playback threads are SCHED_FIFO). No fairness on what comes from outside: packets,
commands, signals, `start`, `stop`, the end of `main` and spurious wake-ups may never come. A
call to the sound card, the encoder or the broker returns (with failure where the code handles
one); `pcm_open` is given up by the code itself after 30 seconds. A running ring thread and
its callback share no lock, so weak fairness of each is enough. In `MicNode` Paho finds the
connection again, as it is told to. In `AgoraApp` weak fairness of `main` includes its
requests: the server answers or the connection breaks. The code sets no time limit on a
connection of its own, so that this is an assumption on the network; a stop waits as long.

Deadlock is not checked where a program may end or wait for ever: the streamer (after an
encoder failure `stop` may hang, which is what `mic_hang` shows), the nodes (an idle node
waits for messages), the app and the serializer (they end).

## 4. What the runs found

- **Stale samples** (`ring_stale`, `hello_rtsa.c:140`, `514`): release / acquire ordering is
  missing on both positions. What was stored before the thread was created is safe
  (`pthread_create` orders it): in the trace a packet comes while the thread runs, and one of
  its samples is copied while it is not visible yet. The threshold of two periods makes this
  rare, since what is copied first has been in the ring longest; nothing excludes it. In
  program order the property holds, and is proved.
- **A stop that hangs** (`mic_hang`, `capture_audio.cpp:429`): an encoder failure clears
  `running_` without waking the localizer, and `stop` skips its notification when it finds
  `running_` false. Only with localization enabled, which `MicrophoneNode` leaves off.
- **A lost play** (`wav_lost`, `play_wav_tinyalsa.cpp:349`): the thread raises `stop_flag_`
  after `play` has lowered it. `WaitingPlayStarts` is the part that holds: the thread is
  waiting and no older request is pending.
- **A deaf subscriber** (`mic_deaf`, `mqtt_client.hpp:278`): clean sessions, automatic
  reconnection, and nobody who subscribes again. The speaker node is spared because its run
  loop ends at the first lost connection (`speaker_node.cpp:45`).
- **An exit that may crash** (`speaker_exit`, `speaker_node.cpp:55`): `stop` destroys the
  player while the callback thread may be commanding it, and disconnects only afterwards.

Differences between comments and code met on the way, with no run of their own:

- `hello_rtsa.c:516` says playback starts at 300 ms, the code waits for 16000 frames (500
  ms); `hello_rtsa.c:19` says 5 seconds, the ring holds 3; up to two periods at the end of a
  stream are never played.
- `wait_before_next_send` never sleeps when no video is sent (`hello_rtsa.c:836`): the video
  due time stays 0 and is the earlier one. `pcm_read` paces the loop. When the wall clock is
  set back no audio is sent until it has caught up.
- `send_join_request` returns 1 when the agent was there (409); its comment
  (`agora_server.c:584`) knows 0 and less than 0 only, and `main` takes 1 for a failure: it
  tells the agent to leave and ends. A failed JOIN also skips `pacer_create`, and
  `pacer_destroy` is given an indeterminate pointer.
- `play_wav_tinyalsa.cpp:55` says that `stop` waits for the playback thread; nothing waits
  (l.57 closes the file at once).
- `pts_ms` counts the frames encoded, so that it is early after a period was dropped
  (`capture_audio.cpp:442`); `bionic_cat_mqtt_msg.hpp:339` calls it the presentation
  timestamp.
- A restart of the same streamer publishes periods the last session left in its queues. A
  streamer whose threads gave up stays in `streamer_`, and START is ignored until a STOP.
- A signal that comes before `running_` is set is lost (`microphone_node.cpp:61`,
  `speaker_node.cpp:39`); a second one inside `MicrophoneNode::stop` may hang or end the
  program.
- An `ActionGroupExecuteCommand` that is cut inside its added fields is decoded, although
  `serializer.hpp:56` says that all decoders throw: `loop` may be read from a rest of the
  field before it, and the last step may lose its motors. `HeadIsWhole` is what holds.
  `parameters` of a command with motors are not sent (`bionic_cat_mqtt_msg.hpp:312`).
- `serializer.hpp:733` lists `position.x` and `position.y` as fields of
  `EyeballDispalyCommand`; the struct and both functions have `enable_tracking` instead.
- `bionic_cat_speaker_module/test/test.cpp:236` pauses with speed 0, which
  `speaker_node.cpp:79` turns into speed 1.

## 5. Proofs

Each theorem holds for every value of the constants that satisfies the module's assumption,
and every bound (`MaxSamples`, `MaxPeriods`, `MaxSessions`, `MaxCommands`, `MaxSignals`, `MaxRuns`, `MaxTime`...) is such a constant.

**PlaybackRingProofs.** The positions are wrapped and the properties talk about how many
samples were accepted and taken, so neither is inductive alone. `Inv` says that
`write_pos` and `read_pos` are the two counts modulo the ring size, that their difference
is below the ring size (counting the packet being stored), and where each thread's local
copy stands between its counts. From it: `TypeCorrect`, `PositionsCorrect`, `FreeCorrect`, on
either machine. `PlayedCorrect` (program order) adds that every slot between the counts
holds the sample of its number, and that the period copied so far is the oldest samples.

**PlaybackFifoProofs.** `RefinementCorrect`: in program order the ring implements the queue.
The queue of the refinement mapping is read off the ring slot by slot between wrapped
positions; `MappedByCounters` turns it, with the invariants above, into the samples between
two counters, so that accepting a packet appends and giving out a period cuts, which are facts
about sequences of consecutive numbers (`BetweenConcat`, `BetweenSub`). One more invariant is
needed, `StartedOnce`: the thread runs only while `running` is set, so that a second
`playback_start` never puts it back to its beginning with a period half copied.

**MicStreamerProofs.** `Inv` orders everything between the device and the subscriber: last
message, cache, encoder queue, producer; each part's numbers lie beyond those of the part
before. With it `QueuesCorrect` (the queue ends with the last captured period and has no
gap) and `OrderCorrect`, an action property, follow; `OpenCorrect` needs that the owner
closes only in `Join`, when the threads have ended.

**WavPlayerProofs.** The thread never changes what `load` sets up, so `Inv` speaks of the
commanding thread only: what `load` knows at each of its steps (file, header, supported
format) and that a recorded format implies an open device. `LoadCorrect` follows, undefined
calls included.

**MicNodeProofs.** `FollowsCommands` speaks of a worker that has nothing to do, and is not
inductive: `LastCommand` says where the last command is (last in the queue, or being acted
on), `BeforeWorker` that nothing happens before the worker exists. `QuietOnceStopped` rests on
`Joined` (behind the join there is no worker, in either frame) and `NotRunning` (no frame
inside `stop` leaves `running_` set).

**AgoraAppProofs.** `Released` follows from what a request may hold at each of its steps
(`MayHold`): every way to the end passes the one cleanup or holds nothing it frees.
`LeavesAgent` follows from `Knows`: from a JOIN that was answered on, the process knows the
agent's id, unless a request has failed, and after the LEAVE there is no agent. `Paced`
follows from the due time being the first frame's time plus a whole number of intervals
(`Due`), which a clock that is set back cannot change.

**SerializerProofs.** From the bottom up. `TwoDigits` is the one fact of arithmetic that the
widths need: a number modulo s * s is the two digits that its halves are. From it a number of
any width is read back modulo its range, and `CastBack` restores its sign. `ReadBack` says for
every field that it is found to be there exactly if all of its bytes arrived, and then holds
what was written. `LayoutTypes` says that a field which may be missing stands in no layout but
in that of `ActionGroupExecuteCommand`, and `NextPlan` that there it is behind the motors.
The properties speak of the end only; `IInv` says where the reader is before: in step with the
trail (`InStep`), on the defaults of an older sender's command (`OnDefaults`), or behind the
head of a command that lost its end (`BehindHead`), where the bytes of one field may be taken
for another. From it: `TypeCorrect`, `RoundTripCorrect`, `ShortCorrect`, `HeadCorrect`,
`OldSenderCorrect`, whatever a message says and however long its vectors are; the only
assumption is that a byte has an even number of values, so that a signed range has two halves.
Before it was proved, the invariant was checked with TLC on the states of the run.

**Missed notifications.** The three programs with a condition variable state `NoMissedNotify`:
whoever sleeps has nothing to do, or the notification is still to come. It is the safety part
of their liveness, so that what is left to TLC is only that every thread goes on. In the
streamer and the node it is not inductive: `SleepInv` adds what the one about to sleep has
found while it holds the mutex, in the streamer also that a call of the owner in progress has
ended the session, so that nobody sleeps again behind the notification of `stop`. In the node
`BeforeWorker` is needed as well (`running_` is set only before the worker exists), and two
frames of the main thread may notify. `NotifyCorrect` of each module is the result. The
streamer's does not cover the localizer after an encoder failure: that is `mic_hang`.

Only model-checked is liveness (`BufferedIsPlayed`, `ShutdownCompletes`, `EveryPeriodServed`,
`CleanStopReturns`, `WaitingPlayStarts`, `CloseReturns`, `EveryCommandServed`,
`SignalEndsNode`, `StopEnds`), which is beyond the prover. Every safety property of a passing
run is proved.

## 6. Not modelled

- *The other requests of the agent client* (update, status, list, speak, interrupt,
  history): only `agora_test` at the end of `agora_server.c` calls them, and nothing calls
  it; they share `send_https_request`.
- *The byte ring* (`ringbuffer.c`): no program of the repository calls it.
- *Sound localization*: cross-correlation and least squares on floating point, without
  state. The thread that calls it is in `MicStreamer`.
- *Base64, MD5, file output, log*: standard algorithms without a caller, or pure I/O.
- *The publishers' waits*: a publish is assumed to return.
- *The device a timed-out `pcm_open` opens later* (`play_wav_tinyalsa.cpp:238`), and the race
  on `header_`.
- *A failing `pthread_create`*, whose result `hello_rtsa.c:163` does not look at.
- *Scripts and build files*, which have no state, and *vendored code*, which appears only as
  what the modelled code calls.
