# tcd in TLA+

TLA+ models of tcd, the hybrid transcoder of an URF reflector, with the TLC
configurations that check them and TLAPS proofs of their safety properties.  The modules
follow the sources; a name in a module is the source's name wherever there is
one.  `PROJECT.json` says line by line which definition stands for which code.

    tlc -config Transcoder_devices.cfg Transcoder     a run (the .cfg names are listed below)
    tlapm Transcoder_proofs.tla                       the proofs of one module


## 1. The system

A reflector sends tcd voice frames of 20 ms (40 ms for M17 at 1600 bit/s), each
in one codec.  tcd decodes a frame, levels the audio, encodes it with every
other codec, and sends the frame back with all codecs filled in.  Some codecs
are done by DVSI chips on USB, some by software.

    reflector --> ReadReflectorThread --> queue or device of the packet's own codec
                                                |  decode, AGC
                 +------------+-----------+-----+-----+------------+
                 v            v           v           v            v
             dstar_device  dmrsf_device  codec2     imbe         usrp      (threads)
                           or swambe2    queue      queue        queue
                 |            |           |           |            |
                 +---- each encodes, sets its flag, and looks -----+
                          whether all flags are set
                                      |
                        SendToReflector, under send_mux

### Components

| Component | State | Operations | Interacts with | What is hard, and what makes it correct |
|---|---|---|---|---|
| Pipeline: `CController` | packet queues, devices, `dstar_mux`, `dmrst_mux`, `send_mux`, Codec2 stores | `Start`, `DiscoverFtdiDevices`, `InitVocoders`, `ReadReflectorThread`, `ProcessC2Thread`, `ProcessIMBEThread`, `ProcessUSRPThread`, `ProcessSWAMBE2Thread`, `RouteDstPacket`, `RouteDmrPacket`, `SendToReflector` | everything below | one packet is shared by up to five threads; any of them may find it complete.  A packet leaves at most once, complete, in order with its stream, and none is forgotten.  At the start: whatever is plugged in and whichever call fails, the devices are what the threads take them for |
| Packet: `CTranscoderPacket` | the codec data and a flag for each, `not_sent`, the audio | setters, `AllCodecsAreSet`, `Sent` | pipeline, devices | nothing may be written once it can be sent; audio is not read before it is levelled |
| Queue: `CPacketQueue` | a list, a condition variable | `push`, `pop`, `Shutdown` | every thread | first in first out; a waiting thread wakes up |
| DVSI device: `CDVDevice`, `CDV3000` | `input_queue`, `waiting_packet`, `buffer_depth` | `OpenDevice`, `InitDevice`, `ConfigureVocoder`, `AddPacket`, `FeedDevice`, `ReadDevice`, `ProcessPacket`, `GetResponse` | pipeline, chip | an answer carries no number; late, lost or unexpected answers and failed writes; two threads write the unsigned count |
| Three-channel device: `CDV3003` | `target_channel`, the channel maps, `waiting_packet` per channel | `AddPacketToChannel`, `MapPacketToChannel`, `ProcessPacket` | pipeline, chip | the same packet may be queued twice with one map entry; every request is served on its channel |
| MD380 state | firmware RAM, `md380_enc_streamid`, `md380_state_cache` | the re-encode of `RouteDmrPacket` | pipeline | a stream gets its own encoder state back; the cache stays bounded |
| AGC: `CAGC` | a gain, gate and averages per stream | `Process`, `Configure` | five threads | gate, hold and decay over many frames; a map of streams without a lock |
| AMBE gain: `AmbeAdjustGain` | none | change of the b2 bits, Golay code | `RouteDmrPacket`, software DMR | saturation; the code word stays valid |
| Configuration: `CConfigure` | the values of the ini file | `ReadData`, the getters | main, pipeline, monitor | several copies of a setting, written by three threads; what is in force is the file's until somebody changes it |
| Statistics: `CTcdStats` | levels, counters, `g_Stats.config` | `PacketIn`, the idle ageing of the reflector thread | pipeline, monitor | ageing against traffic; also the carrier of live settings |
| Statistics log: `CStatsLogger` | an open file per stream and module | `Log`, `CloseStream` | pipeline | files are never closed |
| Monitor server | connected browsers | REST and WebSocket, `SaveConfig` | statistics, configuration | writes settings while codec threads run; rewrites the ini file in place.  A change takes effect live and survives a restart once saved |
| Process: `main` | none | start, copy of the settings, `pause` | all | the threads run before the settings are copied |
| Reflector link: `CTCClient` | one socket per module | `Receive`, `Send`, `ReConnect` | pipeline | external: a submodule of the reflector, not in this repository |
| `tcdmon`, dashboard | | display | monitor server | displays |
| Codec2, IMBE, MD380 signal processing, mongoose | | | | vendored |

`main` ends in `pause()` and no signal handler is installed, so nothing ever
calls `CController::Stop` on a running system: the models have no orderly stop,
and hazards of stopping are not listed.


## 2. The modules

| Module | Models | Extends or uses |
|---|---|---|
| `TranscodeService` | abstract: what tcd promises the reflector | |
| `Transcoder` | the pipeline, packets, queues, and the send | implements `TranscodeService` |
| `Transcoder_proofs` | its types, that a packet is sent once, where packets are and what becomes of them; the refinement | extends `Transcoder` |
| `AnswerService` | abstract: what a device promises the controller | |
| `DVSIDevice` | one device channel, its two threads, the chip and the line | implements `AnswerService` |
| `DVSIDevice_proofs` | proofs about `DVSIDevice`; the refinement | extends `DVSIDevice` |
| `DV3003` | how a device with three channels finds the channel of a packet | |
| `DV3003_proofs` | proofs about `DV3003` | extends `DV3003` |
| `Md380Cache` | the saved encoder states of the MD380 firmware | |
| `Md380Cache_proofs` | proofs about `Md380Cache` | extends `Md380Cache` |
| `Settings` | the copies of a setting, from the ini file to what is in force | |
| `Settings_proofs` | proofs about `Settings` | extends `Settings` |
| `InitVocoders` | discovery, the choice of a set-up, the opening and configuring of the devices | |
| `InitVocoders_proofs` | proofs about `InitVocoders` | extends `InitVocoders` |
| `AGC` | the levels of one stream: gain of the decoder, AGC, output gain, gain of the encoder | |
| `MCAGC` | frames and settings to check `AGC` with | extends `AGC` |
| `AGC_proofs` | proofs about `AGC` | extends `AGC` |
| `M17Halves` | how two packets become one M17 frame, and one frame two packets' audio | |
| `M17Halves_proofs` | proofs about `M17Halves` | extends `M17Halves` |
| `MCCarryOver` | the three things a codec thread carries from one frame to the next, to be checked in one run | extends `M17Halves`, `Md380Cache`, `MCAGC` |

### Transcoder

One module of the reflector, on two DVSI devices (`HasDmrsf`) or on one with
MD380 software for DMR.  A *station* is what a codec has: a queue with a worker
thread, or a device with its input queue, its waiting packets and its chip.
A thread runs one handler at a time.  The handler is held as its `script`, the
sequence of the steps of it another thread can see:

| Step | Code |
|---|---|
| `Hear("raw")` / `Hear("levelled")` | `SetAudioSamples` as a device does it / after `m_agc.Process` |
| `Push(c)` | `AddPacket` or `queue.push` to the station of codec c |
| `Set(c)` | `SetDStarData`, `SetDMRData`, `SetM17Data`, `SetP25Data`, `SetUSRPData` |
| `Check` | "we might be all done": `AllCodecsAreSet` and `HasNotSent` under `send_mux` |
| `Send` | inside `SendToReflector`, with `send_mux` held |

`Codec2toAudio` ... `AudiotoSWAMBE2`, `DstResponse` and `DmrResponse` are those
functions as sequences of steps, so that the order of a hand-over and a flag in
the code is the order in the model.  `Handler` is the `switch` of every thread.
`SendSucceeds`, `SendFails` and `GiveUp` are the attempts of `SendToReflector`.
The samples themselves, the gains and the codec data are left out; a packet is
its flags, its `codec_in`, and whether its audio is unset, raw or levelled.
The re-encode of DMR data (and the AMBE gain) depends on settings that may
change at any time, so `ReadDevice` chooses whether it takes place.

The chip in this module answers every request once and in order.  What happens
when it does not is `DVSIDevice`.

### TranscodeService

Frames arrive, leave in the order of their codec, or are dropped.  `Service` in
`Transcoder` instantiates it with the same `codecIn`, `delivered` and `dropped`;
frames of the codecs other than M17 are `Promised` to leave.

### AnswerService

Packets are added, and answered in their order, each with an answer that is its
own or set back from it by no more than has been `missed` so far, and none is
passed over.  Once there was an answer to nothing (`spoilt`), only the order is
left.  Without faults nothing is missed, and every packet is answered: with
its own answer, since that is all `Answer` allows then.  `Service` in `DVSIDevice`
has `missed <- lost + failed` and `spoilt <- noise > 0`.

### DVSIDevice

`FeedDevice` is split where the read thread can come in between: taking the
packet, the wait for room, the push to `waiting_packet`, the write, and the
increment of `buffer_depth`.  `ReadDevice` is split at the time-out (seen, then
reset) and at the pop of `ProcessPacket`.  Time is not modelled, and nothing is
assumed of it.  Both waits may end at any time: the 50 ms of `FeedRoom` may pass
while the read thread is inside `SendToReflector`; the wait of `ReadNothing` may
have begun long before the request was written, and what
`pthread_cond_timedwait` returns is not looked at, so that a spurious wake-up
counts as a time-out.  `faultless`, which a behaviour chooses at its beginning,
says that every request is written and answered by one answer, late or not.  If it
is false the chip may lose `MaxLost` answers, the line fail `MaxFailed` writes and
the chip send `MaxNoise` packets that answer nothing.
`GetResponse` is one step, since `FT_Read` waits for all the bytes it is asked
for: nobody sets a time-out.  A request carries its packet's number, which only the
properties look at.

### DV3003

The four set-ups of `InitVocoders` with a DV3003, one of which `hardware` is:
beside a DV3000 with two modules (*mixed*) and with one (*onemodule*, where
neither the maps nor `mixed_mode` are set), as the D-Star device, as the DMR
device.  `Request` is what the controller calls for one
encoding of a packet of one module: `AddPacketToChannel` with a channel,
`AddPacket` without, or nothing.  `AddPacketToChannel` is two steps, since the
queue is pushed after `target_mutex` is released.  `OtherDevice` is the other
device of the pair, or the DMR worker, which sets the flags `MapPacketToChannel`
looks at; as in the code it does so only once the packet is `decoded`, or after
decoding it itself.

### Md380Cache

The encoder's state is told by the frame it encoded last, so that "the state
stream s left" is a number.  A re-encode is one step, since all of it is under
`md380_mux`.  `Purged` gives every outcome of the one pass over the
`unordered_map`, whose order is not known.

### Settings

A setting has four copies: `file` (the ini file), `conf` (`g_Conf`), `stats`
(`g_Stats.config`), and `inForce` (the AGC's parameter or a gain's numerator).
There is one setting of each kind the code treats differently:

| Setting | Stands for | In what it differs |
|---|---|---|
| `gain` | the `OutputGain...` and USRP gains | limited to 40 dB in the file, to 24 dB in a request |
| `chipgain` | `DStarGainIn` ... `DmrGainOut`, applied by a DVSI chip | sent to the chip at the start only |
| `noisegate` | `AGCNoiseGate` | not among the keys of `SaveConfig` |
| `maxgain` | `AGCMaxGainUp` | two different defaults; saved and live like most AGC parameters |
| `mode` | `DmrGainMode` | re-encoding needs md380; `RouteDmrPacket` looks at `g_Stats.config` for it, and at `outgain_dmr_steps` for the rest (`Effective`) |

`Start` is `main` up to the return of `CController::Start`; `Sync` is one store
of `main`, and `ReconfigureAGC(s)` one load of the reflector thread, which runs
from `Start` on, so that the two interleave.  `HandleRest`, `SaveConfig` and
`SaveWrite` are the HTTP thread, which does one request at a time; `SaveConfig`
ends where the file is truncated.  `Effective` is what `RouteDmrPacket` makes of
the mode.  `Torn` is a truncated file, which `ReadData`
refuses since it has no module letters.  The file is short enough for a single
write, so that half a file is not modelled.  `Crash` ends the process anywhere,
and `Start` is a new one.

### InitVocoders

`DiscoverFtdiDevices` (external parts: the list of the driver, the unbinding of
`ftdi_sio`), which fails when that list cannot be made or read (`DiscoverFails`); a
white list may also name a device that is not plugged in (`Elsewhere`). Then
`Classify` up to the choice between a mixed set-up, a pair and a single device, then
`OpenDevice` of one device after the other: of its `Calls`, fixed by the type of the
device, `made` is how many it has made. Devices are numbered in the order of the
driver's list, so that `deviceset` is a set. `Write` and `Read` are the two halves
of a request; answers come in order and may be late, since `rx` may hold one that is
left from before. `CallFails`, `WriteFails`, `ReadFails`, `Md380Fails` and the loss
of an answer in `Write` are what can go wrong, at every point. What a chip is
configured for is told by the encoding whose rate and gains it was given.
`OpenedAll` and `Register` are what follows, with the module maps and the monitor's
table of devices.

### AGC

One stream. `Gated`, `Speech` and `Bypass` are the branches of `ProcessCore`,
`Process` with the gains before and after it; each frame is two samples for 160,
gains and alphas are whole numbers of `Unity` and of `Whole`, and a smoothing step
is at least one unit, as it is in floats until the goal is reached. Nothing is
assumed of the limits: `Limited` is what `std::clamp` may make of a lower one above
the upper one, which is undefined there. `Reconfigure` begins the stores of the
reflector thread: until `Reconfigured` a frame may meet any mixture of the old
settings and the new (`InForce`).

### M17Halves

The codec2 thread with `data_store` and `audio_store`, and the decoders from
which packets come to it, each in its own order and time.  A half is told by the
packet whose 20 ms of speech it is.

### MCCarryOver

`M17Halves`, `Md380Cache` and `AGC` share no variable, and no action of one depends
on another.  In each behaviour one of them moves (`looking`) and the other two stay as
they were at the start; nothing is lost by that, since a property of one says nothing
of the others.


## 3. The runs

Every run has `CHECK_DEADLOCK FALSE`: a behaviour has a bounded number of
packets, and when they are through the system idles; a start ends.

| Run | Question | Bounds |
|---|---|---|
| `Transcoder_devices` | `TypeOK`, `SentOnce`, `DeliveredInOrder`, `EncodedOnce`, `LevelledBeforeEncode`, `NothingStranded` with two devices | two packets of any two of six codecs, two attempts |
| `Transcoder_md380` | all of that (`PacketInv`) where the DMR worker takes the second device's place; `TravelInv`, on which the proofs rest; and `ServiceSpec`: the pipeline implements the service, liveness included | two packets of three of the remaining kinds of input |
| `Transcoder_m17` | violated: `EveryM17PacketLeaves` | one M17 packet |
| `DVSIDevice_answers` | with a chip that never fails `OwnAnswerWithoutFaults`; with lost answers, a failed write and an unexpected packet `ReaderNeverBlocks`, `AnswersInOrder`, `CountHeals`, `EveryPacketFed`; `AnswerServiceSpec`: the device implements its service, liveness included; `DeviceInv`, on which the proofs rest | seven packets on a chip of two; four with faults, two answers lost, one of each other fault; waits that expire at any time |
| `DVSIDevice_recovery` | violated: `OwnAnswer` after one lost answer | three packets |
| `DV3003_setups` | `FedOncePerChannel`, `ServedInMixedMode` | all four set-ups, three packets, two modules, three codecs |
| `DV3003_asked` | violated: `ServedAsAsked` in the three other set-ups | one packet |
| `CarryOver` | `CacheBounded`, `OwnStateBack`, and `CacheInv`, on which their proofs rest; `FrameOfOnePair`, `AudioOfOwnPacket`; `GainInReach`, `HeldDuringPause`, `SignKept` | four streams on a cache of two, five frames, three ticks; two streams of up to four packets, of any of four codecs, on one module or on two, one packet missed; samples of four bits, three frames, three settings |
| `AGC_clips` | violated: `NeverClips` | two frames, one setting |
| `Settings_monitor` | `FileInForce`, `LiveTakesEffect`, `SavedComesBack` with the monitor enabled, with and without md380; `SettingsInv`, on which the proofs rest | three settings, two starts, two changes, one save |
| `Settings_nomonitor` | violated: `FileInForce` with the monitor disabled | two settings, any file |
| `InitVocoders_start` | `ReadyWhenUp`, `EveryEncodingServed`, `OthersLeftAlone`, `RegisteredAsUsed`, `StartEnds` | up to three devices of any description, any white list (also of a device that is not there), two modules, two failing calls, one lost answer |

Why the bounds are enough to mean something.  A race over one packet needs that
packet and every thread, and there are all five threads; overtaking needs a
second packet, and a third only repeats it.  `MaxRetries` of 2 (5 in the code)
has a first failure, a retry and a giving up.  A chip of depth 2 (the DV3000's)
is full with two packets and overfull with a third; seven packets
are two times its room and three.  `Word` is 8 instead of 2^32: what counts is
that it is more than `MaxDepth`, so that a count below 0 is larger than any for
which there is room.  A cache of two (8 in the code) is purged from the third other
stream on.  An entry of `target_channel` that is left over would meet the third
packet.

For the settings `IniLimit` and `RestLimit` are 2 and 1 (40 and 24 dB): a value
can be above both, between them, or below; negative values are the same with the
signs changed.  `Settings_monitor` has the three settings that differ most from
one another; a save with a restart after it takes two starts.  Its noise gate is
bounded (`FilesAtFirst`, `RestValues`): the file has none or one of 0, a request
sets it to 0 or 1.

Three devices are one more than any set-up uses.  One lost answer and two failing
calls make a start fail at every point, and go on after two that are ignored.

With `Unity` 4 and `Whole` 8, `CarryOver` has frames that are silent, near the
target, and so loud that the limiter works and that the gains of decoder and
encoder wrap; alphas of 1/2 and 1/8 settle fast and slowly; one of its
settings switches the AGC off, and two have limits of which one's lower is above the
other's upper.  The bound on gate frames (6) is a cap of the model, not of the
behaviour: only whether there have been more than 5 matters.  The sequence of
frames has no bound.  `AGC_clips` needs no more than a quiet frame and a loud one.

A stream of up to four packets has two pairs, or ends with an unpaired first
(`StreamEnds`); two streams are needed for one to overtake the other, or to find
what it left.

Without a bound on packets, the queues grow without bound in the code as well.
Only `CarryOver` uses symmetry, of the modules, of which the code treats none
differently from another: packets are numbered in order of arrival, and the modules
of `DV3003` are not alike.

### Fairness

`Transcoder`: each thread takes steps as long as it has any (weak fairness of
`ThreadStep` and `FeedDevice`): every thread is an endless loop that waits on a
condition variable which the push signals, and no lock is held for ever, since
`send_mux` is held over at most `MaxRetries` attempts.  In this module the chip
is part of `ReadDevice`, so that it is taken to answer; where it does not,
`DVSIDevice` says what happens.  Nothing is assumed of the reflector.
Weak fairness of `ThreadStep` is enough for a thread that waits for `send_mux`
only because a run has finitely many packets, so that `send_mux` is at last
free; with endless traffic a thread could wait for ever, as `std::mutex`
promises no fairness.

`DVSIDevice`: both threads and the chip's answering are weakly fair, as the
threads loop for ever; losing, failing and noise are not.

`Settings`: `main` goes on with its stores, and the reflector thread calls
`ReconfigureAGC` for ever, as its loop counts rounds whether there are packets
or not.  Nothing is assumed of requests, saves, crashes and new starts.

`InitVocoders`: `main` goes on as long as it can; while it waits for an answer it
cannot.  The chip's answering and its failing are not fair.


## 4. What the runs show

With the exceptions below the pipeline does what it should: whatever the
interleaving of the read threads, workers and sleeping retries, a packet is
sent at most once, with all codecs, in the order of its stream; no codec is
written twice or after the packet could be sent; nobody encodes audio that is
not levelled; and no packet but an M17 one stays behind.

A device whose chip loses nothing gives every packet its own answer, however late
and whatever waits expire on the way.  How many requests the chip then holds has no
bound, against the comment "wait until there is room in chip FIFO": the wait for room
gives up after 50 ms, its result is not looked at, and the read thread may set the
count to 0 again and again while requests are in the chip.  With lost answers and
failed writes the order at least is kept, every packet missed sets those after it
back by one and not more, the count comes back to 0 even after
it has wrapped below 0, and the reader does not block; only an unexpected packet
from the chip may block the reader, and then `FeedDevice` still goes on.

Where the code does not do what it says:

1. **M17 packets may never be sent** (`Transcoder_m17`).  `Codec2toAudio` hands
   the packet to both devices, then encodes P25 and USRP itself and sets those
   flags without looking whether the packet is complete.  If both devices have
   answered by then, nobody looks again.
2. **A lost answer shifts the device for good** (`DVSIDevice_recovery`).  The
   "timeout recovery" resets `buffer_depth` and leaves the packet in
   `waiting_packet`: from then on every answer goes to the packet before its
   own, in this stream and the next.
3. **Without the monitor the ini file's levels do not last**
   (`Settings_nomonitor`).  `main` copies the settings to `g_Stats.config` "for
   monitor display", and only if there is a monitor; `ReconfigureAGC` takes them
   from there in any case.  With `Monitor = false` the AGC is off and the
   software gains are 0 dB about a second after the start.
4. **A DV3003 does not serve every packet** (`DV3003_asked`).  Without a noted target
   `MapPacketToChannel` goes by the D-Star flag alone, against the comments at
   `src/DV3003.cpp:90`, and `src/README.md:22` and 74.  A D-Star device (one of a
   pair, or the only device beside md380) finds no channel for any packet that comes
   in as D-Star, and a DMR device none for those that come in as DMR; `FeedDevice`
   reports and drops them.  Beside a DV3000 with one module `mixed_mode` is not set
   (`src/Controller.cpp:407`), and a DMR packet goes to the D-Star channel, where
   it is encoded instead of decoded.  `WhoIsLost`, which is proved, says for each
   set-up which packets are lost.
5. **The AGC clips** (`AGC_clips`), though its limiter is to "never clip"
   (`src/AGC.h:109`, `src/README.md:273`).  It limits the gain that is aimed at, and
   the one applied gets there by `AttackMs`: when a loud frame follows a quiet one,
   samples are cut off as long as the gain is coming down, and only then
   (`ClipsOnlyComingDown`, which is proved).

Settings otherwise do what they should: the file's come into force, though after the
start the defaults may be for up to ten rounds of the reflector thread's loop, when
`ReconfigureAGC` overtakes `main`; changes take effect, in whatever order threads
run; what has been saved is there after a restart, or the file is truncated and
refused.

A DV3003 serves every request on its own channel in the mixed set-up with two
modules, and no noted target is left over in any (`ServedInMixedMode`).

`dmr_gain_mode` 2 without md380 is no gain at all, neither re-encoding nor b2, though
`src/README.md:258` has "Falls back to `ambe` if md380 not available": only `main` falls
back (`src/Main.cpp:85`; the test at `src/Controller.cpp:493` comes before the settings are
there), and a request stores 2 as it is (`src/MonitorServer.cpp:262`),
for which `ReconfigureAGC` takes 0 steps (`src/Controller.cpp:131`).
`LiveTakesEffect` leaves this out by name (`Possible`).  What is done to a single
frame is not modelled: `RouteDmrPacket` looks at the mode twice
(`src/Controller.cpp:1329` and 1386), and when it changes in between the frame may be
gained both ways or not at all.

The start leaves the devices as the threads take them, or fails, or waits for an
answer for ever, since `FT_Read` has no time-out.  What it does not do:

* `OpenDevice` looks for "DF2ET" in `description` (`src/DVSIDevice.cpp:201`)
  before it assigns it (248), so that `FT_SetDtr` is never reached.
* A failed `FT_SetBaudRate` returns `false`, which is success: the device is then
  used without reset, rate and gains.  A failed write or answer of `PKT_COMPAND`
  is ignored, and its answer, if it comes late, is taken for the next one's.
  `ReadyWhenUp` leaves those devices out.
* Of two devices of the same type only the last found is registered with the
  monitor, though both are in use: `RegisteredAsUsed` leaves pairs out.  Of more
  than two the first two are used.
* The message for too few devices says that one AMBE3003 suffices; without md380
  a single device is refused, whatever it is.
* A DV3000 and a DV3003 with one module leave `mixed_mode` false (see 4. above).
* Without a white list every FTDI device is unbound from its driver before
  anything is known of it, and a device on the list is taken for a DV3003
  whatever its description.

The AGC holds its gain in pauses, and never leaves the span of the limits ever set
and of what its limiter asks of the loudest sample.  Within the limits of one setting
it need not be: neither the file (`src/Configure.cpp:193`) nor a request
(`src/MonitorServer.cpp:255`) makes sure that the lower is not above the upper, and
while `ReconfigureAGC` stores them one by one a frame may meet the lower of the
old and the upper of the new.  Only the AGC and the output gain clamp; the gains
of decoders and encoders (`src/Controller.cpp:883`, 911, 1074, 1093, 1373) wrap,
which `SignKept` leaves out.  Frames below the gate pass as they are, without any
gain.  The fast release, at most 0.5, is slower than the usual one where that is
faster than about 29 ms.

An M17 frame is one pair's, with the exceptions `FrameOfOnePair` names: after a
missed first packet, or when a stream that came through a faster decoder
overtakes the end of the one before, a frame has halves of two.  The second half
of a Codec2 1600 frame is levelled twice (`audio`'s number in `M17Halves`): once
with the first half and once when its own packet comes.

Things no run states, since a property would only restate the statement:

* Beyond 200 packets `AddPacket` prints that it drops a packet, and queues it.
* `CDV3003::ProcessPacket` takes `field_id - PKT_CHANNEL0` for an index
  (`src/DV3003.cpp:208`) without a look at its range.
* A stream that is new to the MD380 encoder goes on from the state of the stream
  before it: the comment says "or init fresh", and there is no such branch.
* States of the AGC are never removed, since `RemoveStream` and `Cleanup` have no
  caller: the map grows, and a stream whose number comes again inherits a gain.
  Five threads use the map without a lock.
* `outgain_dmr_steps` is the absolute value of `AmbeGainDb`: a positive value
  lowers as well.
* The noise gate is not saved, and neither is a setting without a line in the
  file, though "Save to INI" is to "persist current settings".
* The gains of the DVSI chips do not change before a restart, though "all AGC
  and gain parameters can be changed at runtime".
* `SaveConfig` reports success without looking whether the write succeeded.
* The ageing of displayed levels counts ten rounds of a loop for a second, and
  rounds end early under traffic: idle modules go blank before their time.
* `CStatsLogger::CloseStream` has no caller: a file per stream stays open.


## 5. What is proved

Every safety property a run checks and does not refute is a theorem for all values of
the constants.  Each rests on an
inductive invariant of its module, proved by one lemma per action, and stated
in the module itself where a run checks it as well.  Bounds such as `MaxPackets`,
`MaxFaulty` and `MaxStarts` are any numbers there, so that what is proved of a
behaviour of any length is proved of every finite beginning of tcd's.

**The pipeline** (`Transcoder_proofs`): any number of
packets and retries, any codecs, either hardware, from `TranscoderAssumption`.

* `TypeCorrect`: `[](TypeOK /\ FlowInv)`.  `TypeOK` is not inductive by itself:
  a thread with steps left must have a packet, and an answer of a chip must find
  one waiting, which is `FlowInv`.  Most of the work is that every handler is a
  sequence of steps (`HandlerSteps`, `ResponseSteps`).
* `SendOnce`: `[](SendInv /\ SentOnce)`.  `SentOnce` speaks of the history; why
  it is kept is `SendInv`: a thread inside `SendToReflector` holds `send_mux` all
  along, its packet is complete and unsent, and a packet that has left is never
  unsent again.
* `TravelsRight`: `[]TravelInv`, which says that for every codec a packet is
  owed, at a station or done with (`PlaceInv`), in what order packets are at the
  stations (`LineInv`, `OrderInv`), what the rest of every script can still
  contain (`ScriptInv`), what has been done with the audio by then (`AudioInv`),
  and who still looks whether a packet is complete (`LookInv`).  `LeaveInOrder`,
  `EncodeOnce`, `LevelFirst`,
  `StrandNothing` and `PacketsRight` follow from it.
* `ServesSafely`: the safety half of the refinement of `TranscodeService`:
  initial states are the service's, every step is one of the service or a
  stutter.

**A device** (`DVSIDevice_proofs`): any number of packets and faults, any depth,
from `DVSIDeviceAssumption`, which asks of `Word` no more than to be above the
depth, and whatever waits expire. `DeviceSound` is `[]DeviceInv`. `AnswersInOrder`
needs that the requests under way are in order wherever they are (`OrderInv`); the
other properties need how answers and waiting packets correspond (`MatchInv`:
packets waiting are as many as answers to come and those that were missed, no packet
is passed over, and no answer is for an earlier packet than the one it will be given
to, nor for one later by more than were missed). `NeverScrambled`, `OwnAnswers` and
`ReaderGoesOn` are the other theorems, and `AnswersSafely` is the safety half of the
refinement of `AnswerService`: a lost answer is for good, but costs one packet and
not more.

**Three channels** (`DV3003_proofs`): any number of packets in the four set-ups,
from `DV3003Assumption`. `DV3003Inv` is inductive. Its core is a count (`LineInv`):
for each packet as many requests are in line for `FeedDevice` as have been asked for
and not been fed. In the mixed set-up `TargetInv` says of what request the noted
target is when there are two, and that the fallback of `MapPacketToChannel` finds
the channel of the other; `PlanInv` says which requests the controller has still to
make. `LoneInv` and `OneEncInv` are for the set-ups without maps. `FedOnce`,
`InMixedMode` and `Lost` follow.

**The firmware's state** (`Md380Cache_proofs`): any finite set of streams, any size
and age, from `Md380CacheAssumption`.  `CacheStaysBounded` needs `PurgedBound`: of
every outcome of the purge, whatever order it visits the entries in, at most
`CacheMax` are left, the spared one included.  `OwnStateComesBack` needs
`CacheSound`, `[]CacheInv`: of every stream but the one in the RAM the cache has
what its last frame left, unless that is stale or there have been too many
streams.  (`RecallInv`: a purge takes an entry that is not stale only if there are
more streams than room.)

**The levels** (`AGC_proofs`): samples of any width, any frames, settings and
precision of gains and alphas, from `AGCAssumption` and `LimitsAssumption`.

* `GainStaysInReach`, from `ReachInv`: the settings in force and pending are
  settings, the window holds at most three levels, and `GainInReach`.  A frame
  may meet the lower limit of one setting and the upper of another, and the lower may
  be above the upper; each of them is between `MinGain` and `MaxGain` all the same
  (`InForceLimits`), and so is what a clamp with them may give (`DesiredInReach`).  A
  smoothing step ends between where it began and where it aims
  (`TowardBetween`), rounded up or not.
* `GainIsHeld`, from `HeldInv`, which has the frames of the gate besides.
* `ClipsComingDown`: the gain that is aimed at does not clip (`DesiredPeak`), so
  that one that clips is above it, and comes down (`TowardFalls`).
* `SignIsKept`: every gain, clamp and rounding on the way gives a value that
  follows the sign of its argument (`FollowsGain` and the lemmas after it).

**M17 halves** (`M17Halves_proofs`): any modules, codecs, streams and missed
packets, from `M17HalvesAssumption`.  `HalvesInv` is inductive: packets of one
module and decoder come to the codec2 thread in the order in which they were
spoken (`AirInv`, `WayInv`), so that the stores hold what the thread held last
(`DataInv`, `AudioInv`).  `FrameIsOnePairs` and `AudioIsItsOwn` follow.

**Settings** (`Settings_proofs`): any of the settings and limits, with and without
the monitor and md380, from `SettingsAssumption`.  `SettingsSound` is
`[]SettingsInv`: a file that is not truncated has what was saved last
(`FileInv`), nothing changes what is about to be written (`SavingInv`), what
`main` has copied and nobody has changed is `g_Conf`'s, and that agrees with what
was saved (`CopiesInv`); and every value is one that is read from the file as it
was written (`InRange`), without which a saved value could come back as another.
`SavedIsBack` follows.

**The start** (`InitVocoders_proofs`): any number of devices of any description, any
white list, any answers left in the line, any number of failed calls and lost
answers, from `InitVocodersAssumption`.  `VocodersSound` is `[]VocodersInv`, which no
run checks as it stands, but TLC has on the instance of `InitVocoders_start`.

* The choice is a function of the devices found (`FoundInv`, `SetUpInv`), and stays
  what it was.  That the first, the last and the second of a set of numbers exist
  and are in it (`MinOf`, `MaxOf`) is well-founded induction on the numbers, by
  `WFMin`; `DevicesSound` then has that the devices of a set-up are in the set and
  not the same.  `EverythingServed`, `LeavesOthersAlone` and `ShownAsUsed` follow.
* For `ReadyToServe`, `EffectsInv` says what is known of a chip that is half
  configured: the calls that have been `Answered`, which are those made and the
  one whose answer is in the line, have taken effect, and no answer but that one
  is in the line.  An answer shows that its own request was done; that it is the
  request's own is what `Expected` looks at, and after the purge of the first call
  nothing older can be there.  No later request undoes an earlier one, since the
  reset comes first (`RequestKeeps`, from `CallsOrder`), and at the end every
  channel has had its rate, gains and companding (`CallsComplete`).
* `WaitsOnlyForLost`: the start waits for an answer only if one was lost, or if it is
  that to a PKT_COMPAND that could not be written.

Assumptions on constants are what the code has: depths, limits and sizes are
positive, the headroom of the limiter is
below full scale, `MinGain` and `MaxGain` span whatever limits there may be and 0 dB,
and the values that stand for "none" are none of the others.

Only model-checked:

* all liveness, as TLAPS does not reason about fairness: `EveryPacketFed`,
  `CountHeals`, `FileInForce`, `LiveTakesEffect`, `StartEnds`, and the
  liveness of `ServiceSpec`, by which every packet but an M17 one leaves, and of
  `AnswerServiceSpec`, by which a chip without faults answers every packet.

What the proofs corrected: that answers to come are "at most" as many as the
packets waiting, which was enough for the other properties, was too little for the
refinement: the difference is exactly what was missed.


## 6. The plan

Done: the pipeline and the devices with their services, the start, the channels,
the cache of firmware states, the settings, the AGC,
the M17 halves, and the safety of all of them as theorems.

What is left is liveness, which stays with TLC, and what section 7 lists.


## 7. Not modelled

Most lines of the repository are vendored: mongoose, codec2, IMBE and the DSP of
MD380.  They are pure functions of a frame and a history of their own, or a web
server; none of tcd's control is in them.  Of tcd's own code:

* The statistics on display, their ageing, and the log: nothing in the program
  depends on them, but for `g_Stats.config`, which is in `Settings`.
* `tcdmon` and the dashboard, HTTP, JSON, the text of logs and pages.
* `CPacketQueue` below `push` and `pop`: its condition variable and `Shutdown`, which
  only destructors of devices call.
* `Stop`, `CloseDevice` and the destructors, which nothing reaches while tcd runs;
  also when the reflector's socket cannot be opened after the devices' threads
  have been started.
* Time: a time-out is a step that may come whenever the code allows it.
* More than one module of the reflector at once in `Transcoder`: modules share
  the threads and devices, so that a second module is more packets in the same
  queues; where it has channels of its own it is in `DV3003`, and where it has
  stores of its own in `M17Halves`.
* How a single DMR frame is gained: whether `RouteDmrPacket` re-encodes it, changes
  its b2 bits with `AmbeAdjustGain` (and their Golay code, external), or both, when
  the mode changes on the way.  `Settings` has what is in force, not what
  becomes of a frame.
* Codec2 encoders keep a history per module, shared by the streams on it, as
  the stores do; it is part of the signal processing.
* The words of the ini file, module letters, addresses and serial numbers, and a
  file of settings edited by hand while tcd runs.
* Reconnection of the reflector's socket: `Send` succeeds or fails.
