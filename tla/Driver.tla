-------------------------------- MODULE Driver --------------------------------
(***************************************************************************)
(* The HAL plug-in (driver/GLA_Driver.h) with its one device.              *)
(*                                                                         *)
(* Two threads run here.  The IPC thread applies channel maps and writes   *)
(* audio into the FIFOs that slotFifos points at.  The HAL non-realtime    *)
(* thread runs the configuration changes the IPC thread requests: it swaps *)
(* the FIFOs (old ones are freed) and then publishes pointers to the new   *)
(* ones.  fifoMutex_ guards the pointer table only; the IPC thread holds   *)
(* it for the whole of handleAudioData (pc = "audio").                     *)
(*                                                                         *)
(* libASPL and coreaudiod are external: a requested change is performed    *)
(* some time later, in request order, never for a removed device, and the  *)
(* device object outlives a change that is being performed on it.          *)
(***************************************************************************)
EXTENDS UnifiedDevice

CONSTANTS Maps,          \* the channel maps the app may send
          Rates,         \* the source rates of its audio packets
          MaxMaps,       \* bound: maps received
          MaxRestarts,   \* bound: restarts of coreaudiod
          Paced          \* TRUE: the app sends no map while a change is outstanding

ASSUME MapsAssumption == Maps \subseteq Seq(Nat)
ASSUME RatesAssumption == Rates \subseteq Nat \ {0} /\ DefaultRate \in Nat \ {0}
ASSUME BoundsAssumption == MaxMaps \in Nat /\ MaxRestarts \in Nat /\ Paced \in BOOLEAN

VARIABLES
  pc,          \* where the IPC thread is in applyChannelMap / handleAudioData
  map,         \* the map it is applying, or applied last
  persist,     \* TRUE: applying a received map, which is saved afterwards
  unifiedDevice,
  slotFifos,
  reconfigGeneration,
  lastAudioSourceRate,
  pending,     \* changes requested, not yet performed
  hal,         \* the change being performed
  saved,       \* "channelMap" in the plug-in's storage
  alloc,       \* FIFO sets allocated so far
  received, restarts

vars == <<pc, map, persist, unifiedDevice, slotFifos, reconfigGeneration,
          lastAudioSourceRate, pending, hal, saved, alloc, received, restarts>>
bounds == <<received, restarts>>

IdleHal == [pc |-> "idle", entries |-> NoMap, gen |-> 0, orphan |-> FALSE]

DevicePresent == unifiedDevice.rings # 0
Outstanding   == pending # << >> \/ hal.pc # "idle"
Done          == IF persist THEN "save" ELSE "recv"

\* buildFifoTable: one pointer per entry, null beyond the device's FIFOs.
TableFor(d, m) == [i \in 1..Len(m) |-> GetChannelFIFO(d, i)]

Init ==
  /\ pc = "boot" /\ map = NoMap /\ persist = FALSE
  /\ unifiedDevice = NoDevice /\ slotFifos = << >>
  /\ reconfigGeneration = 0 /\ lastAudioSourceRate = 0
  /\ pending = << >> /\ hal = IdleHal
  /\ saved = NoMap /\ alloc = 0 /\ received = 0 /\ restarts = 0

-----------------------------------------------------------------------------
(* The IPC thread: which map, and how it is applied                        *)

\* The saved map, else one fetched from a running app, else the stub.
BootMaps == IF saved # NoMap THEN {saved} ELSE (Maps \ {NoMap}) \cup {Stub}

Initialize ==
  /\ pc = "boot"
  /\ map' \in BootMaps
  /\ persist' = FALSE
  /\ pc' = "create"
  /\ UNCHANGED <<unifiedDevice, slotFifos, reconfigGeneration, lastAudioSourceRate,
                 pending, hal, saved, alloc, bounds>>

\* Variant: a shrinking map takes the metadata-only path.
BranchShrinksInPlace(m) ==
  CASE m = NoMap /\ ~DevicePresent             -> "save"
    [] m # NoMap /\ ~DevicePresent             -> "create"
    [] DevicePresent /\ (m = NoMap \/ IsStub(m)) -> "remove"
    [] DevicePresent /\ m # NoMap /\ ~IsStub(m) ->
         IF Len(m) <= RingCount(unifiedDevice) THEN "update" ELSE "bump"

\* Variant: a growing map replaces the device.
BranchReplacesToGrow(m) ==
  CASE m = NoMap /\ ~DevicePresent             -> "save"
    [] m # NoMap /\ ~DevicePresent             -> "create"
    [] DevicePresent /\ (m = NoMap \/ IsStub(m) \/ Len(m) > RingCount(unifiedDevice)) -> "remove"
    [] DevicePresent /\ m # NoMap /\ ~IsStub(m) /\ Len(m) <= RingCount(unifiedDevice) ->
         IF Len(m) = RingCount(unifiedDevice) THEN "update" ELSE "bump"

\* The step of applyChannelMap that a map m takes, given the device.
Branch(m) ==
  CASE m = NoMap /\ ~DevicePresent             -> "save"
    [] m # NoMap /\ ~DevicePresent             -> "create"
    [] DevicePresent /\ (m = NoMap \/ IsStub(m)) -> "remove"
    [] DevicePresent /\ m # NoMap /\ ~IsStub(m) ->
         IF Len(m) = RingCount(unifiedDevice) THEN "update" ELSE "bump"

ReceiveMap ==
  /\ pc = "recv"
  /\ received < MaxMaps
  /\ Paced => ~Outstanding
  /\ map' \in Maps
  /\ pc' = Branch(map')
  /\ persist' = TRUE
  /\ received' = received + 1
  /\ UNCHANGED <<unifiedDevice, slotFifos, reconfigGeneration, lastAudioSourceRate,
                 pending, hal, saved, alloc, restarts>>

\* No device: construct one, AddDevice; the table is built afterwards.
CreateDevice ==
  /\ pc = "create"
  /\ unifiedDevice' = MakeDevice(map, alloc + 1)
  /\ alloc' = alloc + 1
  /\ pc' = IF IsStub(map) THEN Done ELSE "build"
  /\ UNCHANGED <<map, persist, slotFifos, reconfigGeneration, lastAudioSourceRate,
                 pending, hal, saved, bounds>>

\* Empty or stub map: RemoveDevice, clear the table, drop the device, and for
\* the stub create the new one.
RemoveDevice ==
  /\ pc = "remove"
  /\ pending' = << >>
  /\ pc' = "clear"
  /\ UNCHANGED <<map, persist, unifiedDevice, slotFifos, reconfigGeneration,
                 lastAudioSourceRate, hal, saved, alloc, bounds>>

\* Variant: the table is left as it is.
ClearTableForgotten ==
  /\ \/ pc = "clear" /\ pc' = "drop"
     \/ pc = "reclear" /\ pc' = "request"
  /\ UNCHANGED <<map, persist, unifiedDevice, slotFifos, reconfigGeneration,
                 lastAudioSourceRate, pending, hal, saved, alloc, bounds>>

ClearTable ==
  /\ \/ pc = "clear" /\ pc' = "drop"
     \/ pc = "reclear" /\ pc' = "request"
  /\ slotFifos' = << >>
  /\ UNCHANGED <<map, persist, unifiedDevice, reconfigGeneration,
                 lastAudioSourceRate, pending, hal, saved, alloc, bounds>>

DropDevice ==
  /\ pc = "drop"
  /\ unifiedDevice' = NoDevice
  /\ hal' = [hal EXCEPT !.orphan = hal.pc # "idle"]
  /\ pc' = IF map = NoMap THEN Done ELSE "create"
  /\ UNCHANGED <<map, persist, slotFifos, reconfigGeneration, lastAudioSourceRate,
                 pending, saved, alloc, bounds>>

\* Same channel count: only the metadata and the table are refreshed.
UpdateEntries ==
  /\ pc = "update"
  /\ unifiedDevice' = WithEntries(unifiedDevice, map)
  /\ pc' = "build"
  /\ UNCHANGED <<map, persist, slotFifos, reconfigGeneration, lastAudioSourceRate,
                 pending, hal, saved, alloc, bounds>>

BuildTable ==
  /\ pc = "build"
  /\ slotFifos' = TableFor(unifiedDevice, map)
  /\ pc' = Done
  /\ UNCHANGED <<map, persist, unifiedDevice, reconfigGeneration,
                 lastAudioSourceRate, pending, hal, saved, alloc, bounds>>

\* Another channel count: a new generation, an empty table, a request.
BumpGeneration ==
  /\ pc = "bump"
  /\ reconfigGeneration' = reconfigGeneration + 1
  /\ pc' = "reclear"
  /\ UNCHANGED <<map, persist, unifiedDevice, slotFifos, lastAudioSourceRate,
                 pending, hal, saved, alloc, bounds>>

\* Variant: the request carries the generation from before the bump.
RequestChangePostIncrement ==
  /\ pc = "request"
  /\ pending' = Append(pending, [entries |-> map, gen |-> reconfigGeneration - 1])
  /\ pc' = Done
  /\ UNCHANGED <<map, persist, unifiedDevice, slotFifos, reconfigGeneration,
                 lastAudioSourceRate, hal, saved, alloc, bounds>>

RequestChange ==
  /\ pc = "request"
  /\ pending' = Append(pending, [entries |-> map, gen |-> reconfigGeneration])
  /\ pc' = Done
  /\ UNCHANGED <<map, persist, unifiedDevice, slotFifos, reconfigGeneration,
                 lastAudioSourceRate, hal, saved, alloc, bounds>>

\* Variant: only the first map is stored.
SaveMapOnce ==
  /\ pc = "save"
  /\ saved' = IF saved = NoMap THEN map ELSE saved
  /\ pc' = "recv"
  /\ UNCHANGED <<map, persist, unifiedDevice, slotFifos, reconfigGeneration,
                 lastAudioSourceRate, pending, hal, alloc, bounds>>

SaveMap ==
  /\ pc = "save"
  /\ saved' = IF map = NoMap THEN saved ELSE map
  /\ pc' = "recv"
  /\ UNCHANGED <<map, persist, unifiedDevice, slotFifos, reconfigGeneration,
                 lastAudioSourceRate, pending, hal, alloc, bounds>>

-----------------------------------------------------------------------------
(* The IPC thread: audio                                                   *)

\* handleAudioData takes fifoMutex_, re-rates the FIFOs the table points at
\* when the packet's rate is not the last one seen, and writes channel n to
\* slot n.  A freed FIFO has no rate to set.
BeginAudio ==
  /\ pc = "recv"
  /\ lastAudioSourceRate' \in Rates
  /\ unifiedDevice' =
       IF lastAudioSourceRate' = lastAudioSourceRate THEN unifiedDevice
       ELSE [unifiedDevice EXCEPT !.rates =
              [i \in 1..RingCount(unifiedDevice) |->
                 IF \E n \in DOMAIN slotFifos : slotFifos[n] = GetChannelFIFO(unifiedDevice, i)
                 THEN lastAudioSourceRate' ELSE unifiedDevice.rates[i]]]
  /\ pc' = "audio"
  /\ UNCHANGED <<map, persist, slotFifos, reconfigGeneration, pending, hal,
                 saved, alloc, bounds>>

EndAudio ==
  /\ pc = "audio"
  /\ pc' = "recv"
  /\ UNCHANGED <<map, persist, unifiedDevice, slotFifos, reconfigGeneration,
                 lastAudioSourceRate, pending, hal, saved, alloc, bounds>>

-----------------------------------------------------------------------------
(* The HAL non-realtime thread: PerformConfigurationChange                 *)

\* A change performed on a device the driver has dropped changes that one.
OnDevice(d) == IF hal.orphan THEN unifiedDevice ELSE d

SwapEntries ==
  /\ hal.pc = "idle" /\ pending # << >> /\ pc # "crashed"
  /\ hal' = [pc |-> "rings", entries |-> Head(pending).entries,
             gen |-> Head(pending).gen, orphan |-> FALSE]
  /\ pending' = Tail(pending)
  /\ unifiedDevice' = SwapInEntries(unifiedDevice, Head(pending).entries)
  /\ UNCHANGED <<pc, map, persist, slotFifos, reconfigGeneration,
                 lastAudioSourceRate, saved, alloc, bounds>>

SwapRings ==
  /\ hal.pc = "rings" /\ pc # "crashed"
  /\ unifiedDevice' = OnDevice(SwapInRings(unifiedDevice, hal.entries, alloc + 1))
  /\ alloc' = alloc + 1
  /\ hal' = [hal EXCEPT !.pc = "handler"]
  /\ UNCHANGED <<pc, map, persist, slotFifos, reconfigGeneration,
                 lastAudioSourceRate, pending, saved, bounds>>

SwapHandler ==
  /\ hal.pc = "handler" /\ pc # "crashed"
  /\ unifiedDevice' = OnDevice(SwapInHandler(unifiedDevice))
  /\ hal' = [hal EXCEPT !.pc = "check"]
  /\ UNCHANGED <<pc, map, persist, slotFifos, reconfigGeneration,
                 lastAudioSourceRate, pending, saved, alloc, bounds>>

\* Variant: a stale change waits to become current.
CheckGenerationWaits ==
  /\ hal.pc = "check" /\ pc # "crashed"
  /\ hal' = IF hal.gen = reconfigGeneration THEN [hal EXCEPT !.pc = "publish"] ELSE hal
  /\ UNCHANGED <<pc, map, persist, unifiedDevice, slotFifos, reconfigGeneration,
                 lastAudioSourceRate, pending, saved, alloc, bounds>>

\* onRingsReady: a stale generation publishes nothing.
CheckGeneration ==
  /\ hal.pc = "check" /\ pc # "crashed"
  /\ hal' = IF hal.gen = reconfigGeneration THEN [hal EXCEPT !.pc = "publish"] ELSE IdleHal
  /\ UNCHANGED <<pc, map, persist, unifiedDevice, slotFifos, reconfigGeneration,
                 lastAudioSourceRate, pending, saved, alloc, bounds>>

\* onRingsReady under fifoMutex_: asks unifiedDevice for its FIFOs, whatever
\* unifiedDevice is by now; if it is null the process dies.
PublishTable ==
  /\ hal.pc = "publish" /\ pc \notin {"audio", "crashed"}
  /\ hal' = IdleHal
  /\ \/ DevicePresent /\ slotFifos' = TableFor(unifiedDevice, hal.entries) /\ pc' = pc
     \/ ~DevicePresent /\ pc' = "crashed" /\ UNCHANGED slotFifos
  /\ UNCHANGED <<map, persist, unifiedDevice, reconfigGeneration,
                 lastAudioSourceRate, pending, saved, alloc, bounds>>

-----------------------------------------------------------------------------
\* coreaudiod restarts: all but the plug-in's storage is lost.
Restart ==
  /\ pc # "boot" /\ restarts < MaxRestarts
  /\ pc' = "boot" /\ map' = NoMap /\ persist' = FALSE
  /\ unifiedDevice' = NoDevice /\ slotFifos' = << >>
  /\ reconfigGeneration' = 0 /\ lastAudioSourceRate' = 0
  /\ pending' = << >> /\ hal' = IdleHal /\ alloc' = 0
  /\ restarts' = restarts + 1
  /\ UNCHANGED <<saved, received>>

Apply == \/ Initialize \/ CreateDevice \/ RemoveDevice \/ ClearTable \/ DropDevice
         \/ UpdateEntries \/ BuildTable \/ BumpGeneration \/ RequestChange \/ SaveMap

Perform == SwapEntries \/ SwapRings \/ SwapHandler \/ CheckGeneration

Next == \/ Apply \/ ReceiveMap \/ BeginAudio \/ EndAudio
        \/ Perform \/ PublishTable \/ Restart

\* Both threads keep running.  PublishTable waits for the mutex, which the IPC
\* thread releases after every packet before it blocks in read(): it is not
\* overtaken for ever.  No map, packet or restart has to come.
Fairness == WF_vars(Apply \/ EndAudio) /\ WF_vars(Perform) /\ SF_vars(PublishTable)

Spec     == Init /\ [][Next]_vars
FairSpec == Spec /\ Fairness

-----------------------------------------------------------------------------
(* Properties                                                              *)

Device  == [rings: Nat, handler: Nat, entries: Seq(Nat), rates: Seq(Nat)]
Pointer == [rings: Nat, slot: Nat]
Job     == [entries: Seq(Nat), gen: Nat]
Change  == [pc: {"idle", "rings", "handler", "check", "publish"},
            entries: Seq(Nat), gen: Nat, orphan: BOOLEAN]

\* Every variable has its type; in particular maps are sequences of entity ids.
TypeOK ==
  /\ pc \in {"boot", "recv", "audio", "remove", "clear", "drop", "create", "update",
             "build", "bump", "reclear", "request", "save", "crashed"}
  /\ map \in Seq(Nat) /\ persist \in BOOLEAN /\ saved \in Seq(Nat)
  /\ unifiedDevice \in Device
  /\ slotFifos \in Seq(Pointer)
  /\ reconfigGeneration \in Nat /\ lastAudioSourceRate \in Nat
  /\ pending \in Seq(Job)
  /\ hal \in Change
  /\ alloc \in Nat /\ received \in Nat /\ restarts \in Nat

\* handleAudioData never dereferences a pointer to a freed FIFO: while it holds
\* the lock every non-null pointer in the table leads to a set of FIFOs that
\* the device or its IO handler owns (GLA_Driver.h:182-184).
NoDanglingFifo ==
  pc = "audio" => \A i \in DOMAIN slotFifos :
                    slotFifos[i] # Null => Live(unifiedDevice, slotFifos[i])

\* The IPC thread waits for the app and the HAL has nothing left to do.
Settled == pc = "recv" /\ ~Outstanding

\* Once settled the device shows the map received last, and there is no device
\* exactly when that map was empty (GLA_Driver.h:86-209).
MapInEffect ==
  Settled => unifiedDevice.entries = map /\ (DevicePresent <=> map # NoMap)

\* Once settled a real map has a complete audio path: the HAL reads the set of
\* FIFOs the device has, and packet channel n is written to slot n of that set
\* for each of its channels, whether the device was created, reconfigured or
\* only refreshed.
AudioPathComplete ==
  Settled /\ DevicePresent /\ ~IsStub(map) =>
    /\ unifiedDevice.handler = unifiedDevice.rings
    /\ slotFifos = TableFor(unifiedDevice, map)
    /\ RingCount(unifiedDevice) = Len(map)

\* When the app is silent, what a restarted driver shows is what it saved; and
\* what it saved is the last map it applied that had a channel, so a crash
\* between applying and saving loses at most that one map.
StorageInStep ==
  /\ pc = "recv" /\ ~persist /\ saved # NoMap => map = saved /\ unifiedDevice.entries = saved
  /\ Settled /\ persist /\ map # NoMap => saved = map

\* Whatever the pace of the maps: once the requested changes are performed and
\* the IPC thread is back at its socket, the table holds no pointer to a freed
\* FIFO, and a device with an IO handler has one that reads the device's own
\* FIFOs, one for each of its entries (GLA_Driver.h:190-208).
QuiescentCoherent ==
  pc \in {"recv", "audio"} /\ ~Outstanding =>
    /\ \A i \in DOMAIN slotFifos :
         slotFifos[i] # Null => Live(unifiedDevice, slotFifos[i])
    /\ unifiedDevice.handler \in {0, unifiedDevice.rings}
    /\ RingCount(unifiedDevice) = Len(unifiedDevice.entries)

\* Every FIFO audio is written to resamples from the rate of the packet that is
\* being written (GLA_ResamplingFIFO.h:17-18, GLA_Driver.h:245-254).
RateFollowsSource ==
  pc = "audio" => \A i \in 1..RingCount(unifiedDevice) :
    (\E n \in DOMAIN slotFifos : slotFifos[n] = GetChannelFIFO(unifiedDevice, i))
      => unifiedDevice.rates[i] = lastAudioSourceRate

\* onRingsReady never runs without a device.
NoNullDevice == pc # "crashed"

\* Maps that arrive one change at a time are shown as DeviceView says: each in
\* its turn, and without removing the device between two real maps.
View == INSTANCE DeviceView WITH want <- map, shown <- unifiedDevice.entries
ShowsMaps == View!Spec

-----------------------------------------------------------------------------
(* Why paced maps are safe: the inductive invariant of DriverProofs        *)

Real(m) == m # NoMap /\ ~IsStub(m)

\* No map of one channel but the stub (see AudioPathComplete).
NoSingleChannelMap == \A m \in Maps : Len(m) = 1 => IsStub(m)

\* At most one change is outstanding, it is the one for the current map, and
\* until it is done the table is empty.
OneChange ==
  /\ ~hal.orphan
  /\ Len(pending) <= 1
  /\ hal.pc # "idle" => pending = << >> /\ hal.entries = map /\ hal.gen = reconfigGeneration
  /\ pending # << >> => pending[1].entries = map /\ pending[1].gen = reconfigGeneration
  /\ Outstanding => /\ pc \in {"save", "recv", "audio"}
                    /\ slotFifos = << >> /\ DevicePresent /\ Real(map)

\* What the IPC thread knows of the map and the device at each of its steps.
StepKnows ==
  /\ pc # "crashed" /\ map \in Maps \cup {NoMap, Stub} /\ saved \in Maps \cup {NoMap, Stub}
  /\ pc = "boot" => map = NoMap
  /\ pc \in {"boot", "create"} => ~DevicePresent
  /\ pc = "create" => map # NoMap
  /\ pc \in {"remove", "clear", "drop"} => DevicePresent /\ (map = NoMap \/ IsStub(map))
  /\ pc \in {"update", "build", "bump", "reclear", "request"} => DevicePresent /\ Real(map)
  /\ pc \in {"drop", "request"} => slotFifos = << >>
  /\ pc = "update" => Len(map) = RingCount(unifiedDevice)
  /\ pc = "build" => unifiedDevice.entries = map
  /\ pc \in {"save", "recv", "audio"} /\ ~Outstanding =>
       unifiedDevice.entries = map /\ (DevicePresent <=> map # NoMap)

\* The parts of the device agree, but for the steps of a change.
DeviceAgrees ==
  /\ ~DevicePresent => unifiedDevice.entries = NoMap /\ slotFifos = << >>
  /\ hal.pc \notin {"rings"} => RingCount(unifiedDevice) = Len(unifiedDevice.entries)
  /\ hal.pc # "idle" => unifiedDevice.entries = map
  /\ hal.pc \in {"check", "publish"} => unifiedDevice.handler = unifiedDevice.rings

\* Every pointer in the table leads to the device's own FIFOs.
TableOwned ==
  \A i \in DOMAIN slotFifos :
    slotFifos[i] # Null => DevicePresent /\ slotFifos[i].rings = unifiedDevice.rings

\* A device that shows a real map has its IO handler and, unless a change is
\* outstanding, its whole table.
PathKept ==
  NoSingleChannelMap =>
    /\ hal.pc = "idle" /\ Real(unifiedDevice.entries) =>
         unifiedDevice.handler = unifiedDevice.rings
    /\ pc \in {"save", "recv", "audio"} /\ ~Outstanding /\ Real(map) =>
         /\ Len(slotFifos) = Len(map)
         /\ \A i \in 1..Len(map) : slotFifos[i] = [rings |-> unifiedDevice.rings, slot |-> i]

PacedInv == TypeOK /\ OneChange /\ StepKnows /\ DeviceAgrees /\ TableOwned /\ PathKept

-----------------------------------------------------------------------------
(* What holds at any pace, for the same purpose                            *)

\* Until a map is received the device shows the map chosen at the start, the
\* saved one if there is one; a map received later is saved before the next.
StorageKept ==
  /\ pc = "boot" => ~persist
  /\ ~persist => /\ pc \in {"boot", "create", "build", "recv", "audio"} /\ ~Outstanding
                 /\ pc # "boot" /\ saved # NoMap => map = saved
                 /\ pc \in {"build", "recv", "audio"} => unifiedDevice.entries = map
  /\ persist /\ pc \in {"recv", "audio"} /\ map # NoMap => saved = map

\* The maps are patches: the app neither withdraws its map nor sends a stub.
RealMaps == \A m \in Maps : Real(m)

\* The device, once it is there, stays.
DeviceStays ==
  /\ pc \notin {"remove", "clear", "drop", "crashed"} /\ ~hal.orphan
  /\ pc \in {"boot", "create"} => ~DevicePresent /\ ~Outstanding /\ slotFifos = << >>
  /\ pc \notin {"boot", "create"} => DevicePresent

\* What each step of a change leaves to the next.
SwapsAgree ==
  /\ IF hal.pc = "rings" THEN Len(unifiedDevice.entries) = Len(hal.entries)
                         ELSE RingCount(unifiedDevice) = Len(unifiedDevice.entries)
  /\ hal.pc # "handler" => unifiedDevice.handler \in {0, unifiedDevice.rings}

\* The change requested last has the current generation: it will be published.
LastChangeCurrent ==
  pc \notin {"reclear", "request"} =>
    /\ pending # << >> => pending[Len(pending)].gen = reconfigGeneration
    /\ pending = << >> /\ hal.pc # "idle" => hal.gen = reconfigGeneration

\* When no change is to come the table is the device's.
TableRepublished ==
  ~Outstanding /\ pc \notin {"reclear", "request"} =>
    \A i \in DOMAIN slotFifos :
      slotFifos[i] # Null => slotFifos[i].rings = unifiedDevice.rings

RapidInv == TypeOK /\ DeviceStays /\ SwapsAgree /\ LastChangeCurrent /\ TableRepublished
=============================================================================
