# GLA Injector: models and proofs

TLA+ models of the GLA Injector (`README.md` of the repository): an app that
captures a USB audio bridge, and a CoreAudio plug-in that shows the captured
channels as a virtual device. The modules are translated from the sources under
`src/`; this file says which part is modelled where, what TLC checks, what
TLAPS proves, under which assumptions, and what is left.

## 1. The system

```
 USB bridge --ioProc--> USBCapture --sender thread--> AppBackend (matrix) --> IPCServer
                                                           ^                     |
          MainComponent (patchbay) -- routing table -------'            unix socket
          AVDECC controller -- names of talkers ----^                            |
                                                                                 v
 CoreAudio clients <-- HAL realtime thread <-- FIFOs (ring + resampler) <-- Driver <-- IPCClient
                                                 ^
                                  UnifiedDevice, swapped on the HAL non-realtime thread
```

| Component | State | Operations | Threads |
|---|---|---|---|
| Driver (`driver/GLA_Driver.h`) | the device, the table of FIFO pointers, a generation, the last rate, the stored map | `Initialize`, `applyChannelMap`, `saveChannelMap`, `handleAudioData`, the change callback | IPC thread, HAL non-realtime thread; `fifoMutex_` |
| Unified device (`driver/GLA_UnifiedDevice.h`) | entries, FIFO set, stream, IO handler | construct, `init`, `updateChannelMap`, `updateEntries` | the same two, and HAL realtime |
| Ring (`common/GLA_RingBuffer.h`) | samples, `head`, `tail` | `write`, `read`, `available`, `reset` | one producer, one consumer, no lock |
| Resampling FIFO (`common/GLA_ResamplingFIFO.h`) | ratio, phase, last sample, a ring | `setSourceRate`, `read`, `process` | HAL realtime; `setSourceRate` from the IPC thread |
| IPC server (`app/src/GLA_IPCServer.h`) | client list, cached map and bridge | accept, poll, read, broadcasts, `stop` | server thread and every broadcaster; `clientsMutex` |
| IPC client, framing (`driver/GLA_IPCClient.h`, `common/GLA_Socket.h`) | a socket, a pause | `runLoop`, `handleMessage`, send and receive in pieces | IPC thread |
| USB capture (`app/src/GLA_USBCapture.h`) | device, callback, a one-frame hand-off | `start`, `stop`, `ioProc`, `senderLoop` | message thread, CoreAudio IO thread, sender thread |
| Routing (`app/src/GLA_AppBackend.h`, `common/GLA_ChannelMatrix.h`) | slot table, matrix | `initializeSlots`, `resetSlots`, `setSlot`, `clearSlot`, `startCapture` | message thread, server thread, sender thread; `mutex` |
| Patchbay (`app/src/GLA_MainComponent.h`) | rows, combos, selected bridge and listener, the source of each USB channel | combo changes, timer, entity list, `rebuildPatchbay` | message thread |
| AVDECC controller (`app/src/GLA_AVDECCController.h`) | entity table | observers, `getListenerConnections`, `start`, `stop` | la_avdecc's thread, message thread; `mutex` |
| Device clock (`GetZeroTimeStampImpl` in `driver/GLA_UnifiedDevice.h`) | anchor, period counter | a call for the zero time stamp | any HAL thread, no lock |

What is hard here: a channel map changes the set of FIFOs while audio is being
written to it and read from it, on three threads of which one may not block;
the plug-in's changes are performed later, by another process's schedule; the
server's descriptors are closed on two threads; the app and coreaudiod come and
go independently; sample-rate conversion must not drift; the names of the slots
are read from a network that changes while they are read. `PROJECT.json` lists
each such hazard at its line with the properties that cover it.

## 2. Modules

| Module | Models | State and actions |
|---|---|---|
| `UnifiedDevice` | the device as a value and the operations on it | no state: records `rings`, `handler`, `entries`, `rates`. A set of FIFOs is a number, fresh at each allocation; a FIFO pointer is a set and a slot; a set is freed when neither device nor IO handler owns it |
| `Driver` | `GLA_Driver.h`: one action per region under the lock or per call into libASPL | `pc` is the IPC thread (`boot`, `recv`, `audio`, and the steps of `applyChannelMap`), `hal` the change being performed, `pending` the changes requested; `Restart` is a restart of coreaudiod |
| `DeviceView` | the promise to a CoreAudio client: maps are shown one after the other, and the device is not taken away between two real maps | refined by `Driver` (`want <- map`, `shown <- unifiedDevice.entries`) |
| `RingBuffer` | every load, copy and store of the ring; `Wrap` is the range of `size_t` | `wr`, `rd`: the two threads with their locals |
| `SampleQueue` | the promise of the ring: a bounded queue with atomic writes, reads and resets | refined by `RingBuffer`; a read takes effect where it loads `head` |
| `Resampler` | `GLALinearResampler` and `GLAResamplingFIFO`: `read` on the HAL's realtime thread, a step per output sample and two per input sample, and `setSourceRate` on the IPC thread, a step per store, with no lock between them | `phase` in units of 1/`Dst`; samples are their positions in the stream, numbered anew after a change of the rate; `storing`: the stores still to come; `disturbed`: one came into the call that runs |
| `IPCServer` | the server thread, broadcasts, `stop`, and the process's descriptor table | `pfds`/`copy`: the two snapshots; `victim`: closed but not yet erased |
| `Link` | one connection at a time between server and driver, in pieces of messages | `wire`: pieces written and not read; `got`: what the driver has of a message; `current`: the map a newcomer is greeted with, the last that was not empty; `latest`: the map broadcast last |
| `Channel` | what that connection promises, message by message: whole, in order, only the last ones lost with the connection, newcomers greeted with the last map that was not empty | refined by `Link` (`conn <- link`, `cached <- current`, `queue <-` the whole messages on the wire and those to be written) |
| `Injector` | the app and the driver together: `Channel`'s messages are the maps that `Driver` receives | each action joins one of `Channel` with one of `Driver`, or leaves one of the two alone; `raced` remembers the case of finding 1 |
| `USBCapture` | the hand-off of frames, and the starts and stops around it | `ctl`: each thread that selects bridges; `io`, `snd`: the ioProc and the sender; a frame is copied in two halves so that a torn one shows; `overlap`: whether selections have overlapped, and whether calls of `startCapture` have been interleaved |
| `ChannelMatrix` | a slot table and what is derived from it: matrix, packet layout, channel map | no state |
| `Routing` | changes of the slot table, the matrix, the broadcasts and the packets made meanwhile | `thread`: each thread's step, the map it built and what it will tell the UI |
| `Patchbay` | the path of a name from the network to a slot: observers, entity table, posted lists, annotation by strides, combos, rebuild | `la`: the observer that runs; `posted`: lists on their way to the message thread; `msg`: its handler, which reads the network in three steps |
| `DeviceClock` | the zero time stamp: each load and store of anchor and counter is a step | `pc`, `anchor`, `now`, `ctr`: each thread's call; `latest`, `since`: what was returned before it began |
| `DriverProofs` (over `Injector`, so over `Driver` too), `RingBufferProofs`, `TimingProofs`, `IPCServerProofs`, `LinkProofs`, `USBCaptureProofs`, `RoutingProofs`, `PatchbayProofs` | theorems and proofs; `TimingProofs` has those of `Resampler` and of `DeviceClock` | the inductive invariants stand in the components' modules, under "Why" |
| `MC*` | instances for TLC | |

A `\* Variant:` definition is a plausible bug in the definition that follows it.
Each property of a passing run has one that breaks it (`PROJECT.json`,
"mutants").

### What is external, and what is assumed of it

* libASPL and coreaudiod: a requested change is performed some time later, in
  request order, never for a removed device; a device object outlives the change
  that is being performed on it; only the plug-in's storage survives a restart.
* la_avdecc: an observer is called after the controller's own state has changed,
  one observer at a time; unregistering waits for the one that runs; a stream
  input is fed by at most one talker. The submodule is not in the repository.
* JUCE: `callAsync` runs its functions on the message thread in the order they
  were posted, between other events.
* CoreAudio: after `AudioDeviceStop` and `AudioDeviceDestroyIOProcID` no ioProc
  runs. A device may be missing, and creating or starting an ioProc may fail.
* The kernel: the lowest free descriptor is handed out next; what was written
  before a close is delivered. On macOS, the only platform of the project, an
  accepted socket inherits `O_NONBLOCK` from the listening one
  (`GLA_Socket.h:105`), so reads of idle sockets and writes to full ones fail.
  Were it not inherited, such a read would hold the server thread, and `stop()`,
  and a write to a slow client would hold every broadcaster under
  `clientsMutex`. A write to a client that has gone is taken to fail, not to
  raise SIGPIPE. `poll()` reports a client that has hung up as readable.
* `std::atomic` with release and acquire makes the copies into the ring visible
  with the counter, so `RingBuffer` needs no weak memory.

### Abstractions

* A map is the sequence of its entity ids; names and stream positions are left
  out. Sample values are positions in the stream. Wording, logging, limits that
  reject malformed packets and byte layouts are left out.
* `Resampler` computes exactly; the rounding of doubles is not modelled. Its
  input is what the ring returns, real samples or the padding of an underrun. The
  three stores of `setRatio` take effect in any order; one that comes into a call
  may also be lost, when the reader stores what it made of the old value. A
  change of the rate does not overlap the next one: both are made by the IPC
  thread. The reset of the ring that goes with it is in `RingBuffer`.
* `Driver`: `BuildTable` and `UpdateEntries` are one step each, though no lock
  keeps the HAL's callback from assigning FIFOs and entries meanwhile
  (`GLA_Driver.h:220-222`, `GLA_UnifiedDevice.h:79, 87, 159-163`): a read torn by
  such an assignment is undefined and not modelled.
* `Link` and `Channel`: `broadcastChannelMap` sends an empty map but does not
  remember it (`GLA_IPCServer.h:78-82`); `Empties` says which maps are empty. A
  driver that reconnects after one is greeted with the map before.
* `USBCapture`: there is one ioProc. Two can exist only after calls have been
  interleaved, where the properties claim nothing.
* `Routing`: `apply`'s check against packets narrower than the table is left
  out. An out-of-range slot changes nothing in the code and is no step here.
* `IPCServer`: a client's message changes nothing in the server; its effect is
  in `Routing` (`SetRouting`) and `USBCapture` (`SetUSBBridge`). A server with
  the listening descriptor closed sees no newcomers. `Stop` clears the flag and
  closes that descriptor in one step, and `ReadClient` reads a message whole.
* `Driver` leaves open what the synchronous fetch at start returns (a map or
  nothing). `Injector` decides it: the app's map, if the app is up, or nothing,
  since the fetch reads a single message and the server sends a bridge first.
* `Injector`: audio packets are not queued with the maps; one may come at any
  time while there is a connection. Other messages are one value.
* `Patchbay`: a change of the slot table is one step (its own steps, and the
  changes the server thread makes, are in `Routing`); the list of network
  interfaces, labels and layout are left out; a source is an entity id and a
  name; the interface is switched by the message thread only.
* `Patchbay`: `ReadTalkers` reads all talkers in one step, the code one per lock
  (`GLA_AVDECCController.h:158-179`); an observer that came between two of them
  posts a list afterwards, which has everything read again.
* `Patchbay`: a channel's number is a `uint8_t` of which the last means unassigned
  (`DevicesAssumption`); a device with more channels is not modelled.
* `DeviceClock`: arithmetic in double is exact, a period has a positive length,
  and host time does not wrap.

## 3. Runs

The longest are `server` (2 minutes), `injector`, `patchbay`, `resampler` and
`usb_capture` (1 to 2 minutes) with two workers; the others take a minute or less.

| Run | Asks | Bounds |
|---|---|---|
| `driver_paced` | maps that wait for the previous change: no freed FIFO, the last map in effect, the whole audio path, storage in step, the refinement of `DeviceView`, the inductive invariant with the types | no map, the stub, two maps of two channels, one of three; 4 maps, 1 restart, two rates: every ordered pair of branches of `applyChannelMap`, on a fresh and on a restarted plug-in |
| `injector` | app and driver at any pace: table, FIFOs and handler agree when all changes are through, the patch of the app in effect, and it always gets there | two maps of two channels and one of three, 3 broadcasts (so two pending changes, or one with a metadata-only map after it, and all of it again in the greeting), 1 crash of the app or lost connection, 1 restart of coreaudiod, at any point |
| `driver_rapid_dangling` | violated: `NoDanglingFifo` | 3 maps |
| `driver_rates` | violated: `RateFollowsSource` | 2 maps, 2 rates |
| `ring_buffer` | disjoint slots, refinement of `SampleQueue`, the inductive invariant with the types and the fill level | capacity 4, wrap at 8, calls of up to 5 frames, 11 samples: full, empty, clamped and wrapped, both counters past the wrap |
| `ring_live_reset` | violated: `ResetDiscardsStale` | the same, resets while IO runs |
| `resampler` | no drift, neighbours, the inductive invariant with the types | ratios 3/4, 6/4 and 9/4, calls of up to 3, 6 outputs per numbering, the stores of any number of changes of the rate at any point of a call and between calls; the scratch guard is reached at 9/4 |
| `server` | every listed client is up to date; descriptors and list agree; newcomers are accepted, the gone dropped, `stop` returns; the inductive invariant with the types | 2 connections, 3 descriptors, an empty and a real map, a bridge |
| `link` | whole messages, catches up, refinement of `Channel` with its liveness | 4 messages of alternating size, one of them an empty map, 5 pieces of buffer, 2 faults at any point |
| `usb_capture` | until calls are interleaved: whole frames in order, capture follows the bridge, one sender, no lost wake-up, stops end; the inductive invariant with the types | two threads, 3 selections among two bridges and none: a bridge captured before, and one selected while another is; 2 frames: one handed over, or dropped, behind another |
| `routing` | packets follow the table of the moment; driver, packets and UI agree after a change that no other overlaps; the inductive invariant with the types | two threads, 3 changes, tables of up to 2 slots over 2 USB channels |
| `patchbay` | the driver is sent each slot's real source in the end; unrelated entities reset nothing; the inductive invariant with the types | 3 entities, a listener of a clock and two audio streams, two names, bridges of 5 (two groups and a remainder) and 2 channels, 2 rows, 2 changes on the network at any point of 2 picks, ticks or switches: a change before, between and after the steps that read the network, with a second behind it |

Deadlock is checked in all runs but `link`, `usb_capture`, `routing` and
`patchbay`, where bounded faults, selections, changes or events run out and all
threads are idle.

**Fairness.** `Driver`: both threads keep running (weak fairness of each one's
steps); `PublishTable` waits for `fifoMutex_`, which the IPC thread takes for
every packet, so it gets strong fairness: the IPC thread releases the lock
before each blocking read, and no lock of the platform is passed by for ever.
`Injector` adds the app's server thread (weak fairness of accepting) and the
driver's connecting; taking a message gets strong fairness, because only
finitely many audio packets stand before it in the socket, and each is dealt
with. `IPCServer`: the server thread, and `stop()` once it is called. `Link`: the
app's writers and the driver's thread; the weak fairness of `Channel` follows
from it. `USBCapture`: ioProc, sender and control steps. `Patchbay`: an observer
that was called returns, and the message thread handles what is posted. Nobody
has to start the app, send a map or a packet, connect, hang up, pick or select
anything, and nothing has to happen on the network.

**Disagreements found.** Three runs refute what a comment promises:

1. `driver_rapid_dangling`. Maps of 2, 3 and again 2 channels, before the HAL
   has performed the first change: the third takes the metadata-only path
   (`GLA_Driver.h:155-163`) and points the table at the FIFOs that the pending
   change frees. Audio is then written to freed memory, in the window that the
   comment at 182-184 wants to close.
2. `driver_rates`. After packets at 44.1 kHz a map with another channel count
   makes new FIFOs at the default 48 kHz; the next packet has the same rate as
   the last (`GLA_Driver.h:248`), so nobody tells them.
3. `ring_live_reset`. `setSourceRate` comes from the IPC thread while the HAL
   reads, against `GLA_ResamplingFIFO.h:70-71`: `ResetHead`, `ResetTail`, then
   the release of a read that had begun, and the tail is ahead of the head.

Configurations beside the runs show further limits of the properties; TLC
refutes each: `DriverRapidOrder.cfg` (a metadata-only map does not raise the
generation, and the older pending change wins, `GLA_Driver.h:159, 193`),
`DriverStubReplaced.cfg` (a real map of one channel meets the stub's FIFO count
and is given no stream or IO handler, `GLA_Driver.h:55-57, 155`),
`DriverWithdrawn.cfg` (an empty map while a change is performed: the callback
finds no device, `GLA_Driver.h:103, 204`), `ResamplerSlow.cfg` (a source slower
than the device: the last outputs of a call lack their right-hand neighbour),
`ResamplerCursor.cfg` (`phase_` is reset between the condition of the loop and its
body, and the cursor is below 0 after the call, against the comment at
`GLA_ResamplingFIFO.h:58`),
`ServerHealthy.cfg` and `ServerForeign.cfg` (readiness matched by index between
two snapshots, and a descriptor closed twice, `GLA_IPCServer.h:173-192`),
`USBCaptureThreads.cfg` (bridges selected by the UI and by a client at once: the
one selected first is captured),
`RoutingThread.cfg` (the UI is called on the server thread, against
`GLA_AppBackend.h:275`), `PatchbayCombo.cfg` (the listener combo is restored by
position in a list that a new entity reorders, against the comment at
`GLA_MainComponent.h:226`, and shows another entity than the one in use),
`PatchbaySwitch.cfg` (after a switch of the interface the driver keeps the old
sources until something is found on the new one, `GLA_AVDECCController.h:75-82`),
`PatchbaySpill.cfg` (a stream wider than its group names channels of the next
one, `GLA_AppBackend.h:260-268`) and `DeviceClockRaced.cfg` (two first callers
make two anchors, and a stamp is ahead of the time, `GLA_UnifiedDevice.h:199-203`).
`DeviceClock.cfg` is no such limit: it checks the theorems of `TimingProofs`
on a small instance. Run them with the `MC` module of the same name, and the
two of the clock with `DeviceClock` itself.

`PatchInEffect` and `PatchReachesDevice` except a map that took the metadata-only
path while a change was outstanding (`raced`): that is finding 1 and
`DriverRapidOrder.cfg`. The next map that does not race ends the exception, and
both properties then ask for it to be in effect, table and handlers included.

## 4. Proofs

TLAPS proves the theorems for every value of the constants that satisfies the
named `ASSUME`s of the modules (TLC evaluates these in the runs). Where a theorem
assumes more, a configuration refutes it without.

| Module | Assumes besides | Without it |
|---|---|---|
| `DriverProofs`, paced | `Paced`: a map waits for the previous change | `DriverRapidDangling.cfg`, `DriverRapidOrder.cfg` |
| `DriverProofs`, any pace | `RealMaps`: every map has a channel | `DriverWithdrawn.cfg` |
| `DriverProofs`, the app's maps | `Patches`: every map has two channels or more | `DriverStubReplaced.cfg` |
| `RingBufferProofs` | `~LiveReset` | `RingBufferLiveReset.cfg` |
| `PatchbayProofs`, the last theorem | `StreamsFit`: no stream is wider than its group of channels | `PatchbaySpill.cfg` |
| `TimingProofs` | `Sane`: the first call is alone until it has stored the anchor | `DeviceClockRaced.cfg` |

* **Driver** (`DriverProofs`). `TypeCorrect` and `StorageFollows` hold for any maps
  at any pace. The second rests on `StorageKept`: until the first map of the
  app is received the device shows what was stored, and a map received later is
  stored before the next.
  * *Paced maps.* `PacedInv` is inductive: at most one change is outstanding and
    it is the one for the current map (`OneChange`), what the IPC thread knows at
    each step (`StepKnows`), the parts of the device agree but for the steps of a
    change (`DeviceAgrees`), the table points into the device's own FIFOs
    (`TableOwned`), and the path is whole (`PathKept`). None of the goals is
    inductive alone: that the table has no freed FIFO rests on its being empty
    while a change is outstanding, which rests on the pace and on where the IPC
    thread is. From it: `NoUseAfterFree`, `LastMapWins`;
    `CompletePath`, which also assumes that no real map has one channel
    (`NoSingleChannelMap`); and `ImplementsView`: every step of both threads is a
    step of `DeviceView` or none.
  * *Any pace.* `RapidInv` counts no changes. It says that the device stays
    (`DeviceStays`), what each step of a change leaves to the next
    (`SwapsAgree`), that the change requested last has the current generation
    (`LastChangeCurrent`), and that the table is the device's when no change is
    to come (`TableRepublished`). The last rests on the one before: an older
    change may find its generation overtaken, but then a newer one is pending.
    From it: `CoherentAtRest`.
  * *With the app.* `InjectorImplementsDriver`: each step of the composition is one
    of `Driver` or leaves it alone, so its theorems hold there; `FedDriverIsSound`
    states it for `CoherentAtRest` and `StorageFollows`. `InjectorInv` adds where the app's last map is: last on
    its way, or arrived (`MapArrives`); and where the driver's map is: at the IPC
    thread's step, in the change requested last, or in the device
    (`PatchApplied`), unless it took the metadata-only path while a change was
    outstanding (finding 1). From it: `PatchTakesEffect`, over lost connections
    and restarts of both sides.
* **Ring** (`RingBufferProofs`). `TypeCorrect` always; `RingInvariant` without live
  resets: counters are the true counts modulo `Wrap`, each thread's copy is one
  it may still act on, and every sample is in its slot. The lemmas on `%` and on
  residues of two counters less than `Capacity` apart are stated once. From it:
  `NeverMoreThanCapacity`, `DisjointSlots` (no data race on a slot),
  and `ImplementsQueue`: the ring is `SampleQueue`, for every
  capacity that divides the range of the counters. A write is atomic where
  `head` is published, a read where `head` is loaded.
* **Resampler** (`TimingProofs`), with the stores of a change of the rate anywhere,
  within a call too. `ResamplerInvariant`: in a call that none came into, the
  cursor identity `(consumed + inputIdx) * Dst + phase = start + produced * rate`
  (`InStep`), what the call still needs (`Asked`), and where its outputs lie
  (`Points`), from whatever `phase` was left by a call that one came into. That
  this is at least -1 and below 1 is part of the types: a reset between the
  condition of the loop and its body takes one whole sample off a `phase` of 0.
  From it: `AsksForWhatItUses`, `NeverDrifts`, `LeftPointIsFloor`,
  `RepeatsOnlyAtTheEnd`.
* **IPC server** (`IPCServerProofs`), for any number of clients and descriptors.
  Neither that nobody misses the map (`NobodyMissesTheMap`) nor that no descriptor
  leaks (`NoDescriptorLeaks`) is inductive alone: a descriptor is reused as soon
  as it is closed, so `ServerInv` adds that a connection has one descriptor and
  none before it is accepted (`OneDescriptor`), that no client can come between
  closing the victim and erasing it (`VictimKnown`), and how the cache follows the
  broadcasts (`CacheFollows`).
* **Link** (`LinkProofs`), for any buffer that holds a greeting, and any number of
  messages, crashes and lost connections. `LinkInv`: what was written and not
  handled is one framed stream (`Framed`), over the piece of a message that the
  driver has and those on the wire; the writer is where that stream ends
  (`WriterInPlace`), the reader has the first pieces of one message
  (`ReaderInPlace`), and a new connection starts empty (`FreshConnection`). That a
  failing write does not break the framing rests on two facts: `sendToClients`
  closes the client, and a greeting, which goes on after a failed write, never
  meets a full buffer (`GreetingFits`). From it: `HandlesWholeMessages` and
  `ImplementsChannel`, for which the messages that end in a stream of pieces
  (`Ends`) are shown to be those that end in its parts, one after the other.
* **USB capture** (`USBCaptureProofs`), for any threads that select, bridges, frames
  and number of selections. Nothing orders two selections, so the theorems say
  how far they may overlap: a thread may select while another is in
  `startCapture`, as long as its own call begins after that one
  (`overlap` is `"queued"`); from the moment two calls are interleaved nothing is
  claimed but the types. `CaptureInv`: one thread at a time is in a call
  (`OneWorks`), and what it knows at each of its steps of the device, the ioProc
  and the sender, and what the next one finds (`ControlKnows`); if no selections
  overlapped, the last call is that of the last selection (`LastCounts`); when the
  threads run (`ThreadsAgree`), who owns the one-frame buffer (`FrameKept`), and
  that the frames in ioProc, buffer and sender are later ones in this order
  (`FramesOrdered`). From it: `FramesAreWhole`, `SenderIsJoined` (a sender is
  replaced unjoined only by interleaved calls), `SelectionHolds` (the call that
  began last decides, and so the older selection if its call began later),
  `FramesInOrder`.
* **Routing** (`RoutingProofs`), for any threads, tables and number of changes.
  `RoutingInv`: whoever does not hold the mutex finds the matrix of the table, and
  a change that no other overlaps has built, sent and told what its step says.
  From it: `ChangesArrive` and `PacketsFollowTable`.
* **Patchbay** (`PatchbayProofs`), for any entities, streams, names, devices, and
  any number of changes, lists and picks. `PatchbayInv` has, beside the types:
  the controller's table is the network's but for what the running observer is
  about to enter (`TableFollows`); what the handler has read, and what is shown,
  is right unless an observer or a posted list is still on its way
  (`ReadingCurrent`); while nothing has happened that concerns the listener,
  nothing is stale and no rebuild is due (`Undisturbed`); and the rows and the map
  sent are those of what is shown (`RowsFollow`). No part is inductive without the
  others: a list may find the network changed between any two of the handler's
  reads, and what it then shows is put right only by the list of the change that
  came between; and that an unrelated entity changes nothing rests on the
  annotation depending on the listener, its talkers and their names in the table
  alone (`PresentKept`), while an entity enters the table, reorders it, or leaves
  the network. From it: `BystandersLeaveRouting`, and `QuietPatchbayIsTruthful`,
  which also needs that the group a channel falls in (`ch \div g`, `ch % g`) is the
  one whose stream is annotated from the group's offset on (`GroupOfChannel`).
  Sequences kept by a condition (`Only`) are a recursive function; what the proof
  needs of them is shown by the well-foundedness of `<` on the naturals (`UpTo`).
* **Device clock** (`TimingProofs`). For any number of threads and any
  length of a period: `ClockInv` says that all calls use one anchor, that no count
  is ahead of the clock, and that a call that has looked at the time knows of
  every period returned before it began. The counter itself may go back, since a
  slow thread may store an older period over a newer one; that the stamps do not
  (`TimeNeverGoesBack`) rests on each call's own look at the time. Also
  `TimeNeverAhead` and `TimeNeverStale`, which need the lemmas on quotients.

The runs check `PacedInv`, `RingInv`, `ResamplerInv`, `ServerInv`, `CaptureInv`,
`RoutingInv` and `PatchbayInv`. `RapidInv`, `InjectorInv` and `LinkInv` hold there too: add them as
INVARIANTs to `Injector.cfg` and `Link.cfg`. `ClockInv` is in `DeviceClock.cfg`.

Only model-checked: liveness and everything under fairness, so also the fairness
parts of `DeviceView` and `Channel` (`ShowsMaps` and `IsChannel` with it), and, of
`Patchbay`, that it catches up (`PatchbayCatchesUp`). Every
invariant and every action property that a passing run checks is proved.
`NeverMoreThanCapacity`, `AsksForWhatItUses` and
`LeftPointIsFloor` follow from invariants that the runs check, and have no run of
their own.

## 5. Not modelled, and the plan

Not modelled: the property queries of `GLA_UnifiedDevice.h`, which read the
entries; `GLAIPCClient::stop()` against `runLoop`, which can only happen when
coreaudiod unloads the plug-in; the list of network interfaces and the status
texts; the layout of messages (`GLA_IPCTypes.h`); `app/src/GLA_USBBridgeMonitor.h`
and `driver/GLA_USBReader.h`, which nothing includes; the monitor app, a
development tool; scripts and build files. la_avdecc, JUCE, libASPL and CoreAudio
are external. A change of a stream's format, which reaches no observer, a bridge
that changes its channel count, and a switch of the interface from the server
thread are outside `Patchbay`.

The order of work, most important behaviour first:

1. done: `Driver`, `UnifiedDevice`, `DeviceView`, with proofs; `RingBuffer`,
   `SampleQueue`, with proofs; `Resampler`, with proofs; `IPCServer`; `Link`;
   `USBCapture`; `Routing`.
2. done: `Patchbay` over `ChannelMatrix`: entity lists in any order, combos
   restored by position, the annotation of channels by strides, and the map
   rebuilt only when the annotation changes; the AVDECC entity table behind it.
3. done: `Channel`, implemented by `Link`, and `Injector`, its composition with
   `Driver`, over restarts of both and with the synchronous fetch of the first
   start.
4. done: `DeviceClock`, with proofs.
5. done: proofs for `Routing`, `USBCapture`, `IPCServer`, `Link` and `Injector`, and
   for `Driver` at any pace; the step simulations of `SampleQueue` by `RingBuffer`,
   of `DeviceView` by `Driver` and of `Channel` by `Link`.
6. done: proofs for `Patchbay`: its types and inductive invariant, that unrelated
   entities send no map, and that the slots show the real sources.
