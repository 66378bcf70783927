------------------------------- MODULE Injector -------------------------------
(***************************************************************************)
(* The app and the driver together, as the user sees them: a patch made in *)
(* the app reaches the CoreAudio device.  Channel carries the app's maps   *)
(* to the driver, and Driver applies them; here the driver's maps are the  *)
(* ones the app sent, at the pace it sends them, over connections that are *)
(* lost and made again, and over restarts of either process.               *)
(*                                                                         *)
(* Audio packets are not queued: one may come at any time while there is a *)
(* connection, but only finitely many come before a message in the queue.  *)
(***************************************************************************)
EXTENDS Driver

CONSTANTS Other,      \* any message that is neither a map nor audio
          MaxSends,   \* bound: messages broadcast
          MaxFaults   \* bound: crashes of the app and clients it drops

ASSUME SendsAssumption  == MaxSends \in Nat
ASSUME FaultsAssumption == MaxFaults \in Nat
ASSUME OtherAssumption  == Other \notin Maps \cup {NoMap}

VARIABLES
  app, cached, conn, queue,   \* the channel
  raced,                      \* the last map took the metadata-only path while
                              \* a change was outstanding (DriverRapidOrder.cfg)
  sends, faults

C == INSTANCE Channel WITH None <- NoMap, Empties <- {m \in Maps : Len(m) = 0}

link    == <<app, cached, conn, queue>>
account == <<raced, sends, faults>>
all     == <<vars, link, account>>

InjectorInit == Init /\ C!Init /\ raced = FALSE /\ sends = 0 /\ faults = 0

-----------------------------------------------------------------------------
(* The app, and what happens to it                                         *)

AppStarts == C!Start /\ UNCHANGED <<vars, account>>

Broadcasts ==
  /\ sends < MaxSends
  /\ C!BroadcastOther \/ \E m \in Maps : C!BroadcastMap(m)
  /\ sends' = sends + 1
  /\ UNCHANGED <<vars, raced, faults>>

Fails ==
  /\ faults < MaxFaults
  /\ C!Crash \/ C!Drop
  /\ faults' = faults + 1
  /\ UNCHANGED <<vars, raced, sends>>

Accepts == C!Accept /\ UNCHANGED <<vars, account>>

-----------------------------------------------------------------------------
(* The driver's IPC thread at its socket                                   *)

Connects == pc = "recv" /\ C!Connect /\ UNCHANGED <<vars, account>>

TakeMap ==
  /\ queue # << >> /\ Head(queue) # Other
  /\ ReceiveMap /\ map' = Head(queue)
  /\ C!Deliver
  /\ raced' = (pc' = "update" /\ Outstanding)
  /\ UNCHANGED <<sends, faults>>

\* The bridge and the list of entities are not for the driver.
TakeOther ==
  /\ pc = "recv" /\ queue # << >> /\ Head(queue) = Other
  /\ C!Deliver
  /\ UNCHANGED <<vars, account>>

LosesConnection == pc = "recv" /\ C!Lose /\ UNCHANGED <<vars, account>>

Takes == TakeMap \/ TakeOther \/ LosesConnection

TakesAudio ==
  /\ conn \in {"listed", "closed"}
  /\ BeginAudio
  /\ UNCHANGED <<link, account>>

-----------------------------------------------------------------------------
(* The driver, apart from its socket                                       *)

\* Without a saved map the first message of a connection made for the purpose
\* decides: the app's map or, if that is unknown, late or behind the bridge, the
\* stub.
Boot ==
  /\ Initialize
  /\ saved = NoMap /\ map' # Stub => app = "up" /\ map' = cached
  /\ UNCHANGED <<link, account>>

Applies   == pc # "boot" /\ (Apply \/ EndAudio) /\ UNCHANGED <<link, account>>
Performs  == Perform /\ UNCHANGED <<link, account>>
Publishes == PublishTable /\ UNCHANGED <<link, account>>

DriverRestarts == Restart /\ C!Abandon /\ raced' = FALSE /\ UNCHANGED <<sends, faults>>

InjectorNext ==
  \/ AppStarts \/ Broadcasts \/ Fails \/ Accepts
  \/ Connects \/ Takes \/ TakesAudio
  \/ Boot \/ Applies \/ Performs \/ Publishes \/ DriverRestarts

\* The app's server thread accepts, and both threads of the driver run.  Takes
\* and Publishes only ever wait for a packet to end.  Nobody has to start the
\* app, broadcast, or end a failure.
InjectorFairness ==
  /\ WF_all(Accepts) /\ WF_all(Connects) /\ SF_all(Takes)
  /\ WF_all(Boot \/ Applies) /\ WF_all(Performs) /\ SF_all(Publishes)

InjectorSpec == InjectorInit /\ [][InjectorNext]_all /\ InjectorFairness

-----------------------------------------------------------------------------
(* Properties                                                              *)

\* The app's patch is known and the driver has read all it was sent.
UpToDate == conn = "listed" /\ queue = << >> /\ cached # NoMap /\ pc = "recv" /\ ~raced

\* Once a connected driver has read everything and performed its changes, the
\* device shows the map the app broadcast last and its audio path is complete,
\* whatever map it started with and however maps, changes and connections
\* overlapped; the one exception is a map that raced a change
\* (GLA_IPCServer.h:165-166, GLA_Driver.h:155-209).
PatchInEffect ==
  UpToDate /\ ~Outstanding =>
    /\ unifiedDevice.entries = cached /\ saved = cached
    /\ unifiedDevice.handler = unifiedDevice.rings
    /\ slotFifos = TableFor(unifiedDevice, cached)
    /\ RingCount(unifiedDevice) = Len(cached)

\* If the app stays up and has a patch, that patch gets to the device and stays
\* there, whatever was lost before: no wake-up, no reconnection and no change
\* is missed for good.
PatchReachesDevice ==
  <>[](app = "up" /\ cached # NoMap) => <>[](unifiedDevice.entries = cached \/ raced)

-----------------------------------------------------------------------------
(* Why, for maps of two channels or more: the inductive invariant of       *)
(* DriverProofs                                                            *)

Patches == \A m \in Maps : Len(m) > 1

\* Only a running app, and a driver past its start, are connected.
LinkSteady ==
  /\ queue \in Seq(Maps \cup {Other}) /\ cached \in Maps \cup {NoMap}
  /\ conn = "listed" => app = "up"
  /\ pc = "boot" => conn = "none"

\* The map broadcast last is the last one on its way, or has arrived.
MapArrives ==
  conn = "listed" /\ cached # NoMap =>
    \/ \E i \in DOMAIN queue :
         queue[i] = cached /\ \A j \in DOMAIN queue : j > i => queue[j] = Other
    \/ persist /\ map = cached /\ \A i \in DOMAIN queue : queue[i] = Other

\* A map that raced no change is refreshed in place, or is what the change
\* requested last will leave behind.
PatchApplied ==
  /\ pc = "update" => Len(map) > 1
  /\ ~raced =>
       /\ pc = "update" => Len(map) = RingCount(unifiedDevice)
       /\ pc \in {"update", "build"} => ~Outstanding
       /\ pc = "build" => unifiedDevice.entries = map
       /\ pc \in {"save", "recv", "audio"} =>
            /\ pending # << >> => pending[Len(pending)].entries = map
            /\ pending = << >> => /\ unifiedDevice.entries = map
                                  /\ hal.pc # "idle" => hal.entries = map
            /\ ~Outstanding /\ Len(map) > 1 => slotFifos = TableFor(unifiedDevice, map)

\* Only the stub has no IO handler.
HandlerKept ==
  /\ hal.pc \in {"check", "publish"} => unifiedDevice.handler = unifiedDevice.rings
  /\ hal.pc = "idle" => \/ unifiedDevice.handler = unifiedDevice.rings
                        \/ unifiedDevice.entries = Stub

InjectorInv == RapidInv /\ StorageKept /\ LinkSteady /\ MapArrives /\ PatchApplied /\ HandlerKept
=============================================================================
