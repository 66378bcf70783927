------------------------------ MODULE USBCapture ------------------------------
(***************************************************************************)
(* Capture from the USB bridge (app/src/GLA_USBCapture.h) and the calls    *)
(* that select the bridge (app/src/GLA_AppBackend.h).                      *)
(*                                                                         *)
(* CoreAudio's IO thread runs ioProc, which must not block: it hands one   *)
(* frame at a time to a sender thread over senderMutex_ and senderCv_, or  *)
(* drops it.  The threads that select a bridge start and stop both.        *)
(*                                                                         *)
(* Nothing orders two threads that select: the history `overlap' says how  *)
(* far their calls of startCapture have come into each other's way so far. *)
(*                                                                         *)
(* CoreAudio is external: once AudioDeviceStop and                         *)
(* AudioDeviceDestroyIOProcID have returned, no ioProc runs; a device may  *)
(* be missing, and creating or starting an ioProc may fail.  One ioProc is *)
(* modelled: two can exist only after calls have been interleaved, and     *)
(* nothing is claimed from then on.                                        *)
(***************************************************************************)
EXTENDS Integers, FiniteSets

CONSTANTS Controllers,  \* the threads that select a bridge
          Devices,      \* the UIDs of bridges; 0 is "no bridge"
          MaxSelects,   \* bound: bridges selected
          MaxFrames     \* bound: frames captured

ASSUME DevicesAssumption == Devices \subseteq Nat \ {0} /\ IsFiniteSet(Devices)
ASSUME BoundsAssumption == MaxSelects \in Nat /\ MaxFrames \in Nat

VARIABLES
  ctl,                 \* each controller: where it is, the UID it starts, where it goes next
  usbBridgeUID,
  deviceId, running, callback,
  active,              \* the device whose ioProc CoreAudio calls, or 0
  io,                  \* the IO thread in ioProc
  mutex,               \* who holds senderMutex_
  senderStop, senderHasData, pendingData,
  snd,                 \* the sender thread and its localData
  sent,                \* the frame the callback got last
  selects, captured,
  lastCall,            \* history: the UID of the startCapture that began last
  overlap              \* history: "none"; "queued" once a bridge was selected during
                       \* another selection; "interleaved" once a thread began to
                       \* stop or start the capture in the middle of another's call

control == <<ctl, usbBridgeUID, selects, lastCall, overlap>>
session == <<deviceId, running, callback, active>>
handoff == <<mutex, senderStop, senderHasData, pendingData>>
vars    == <<control, session, handoff, io, snd, sent, captured>>

\* A frame is its device and its number; it is copied in two halves, to show a
\* torn one.
NoFrame == [device |-> 0, n |-> 0]
Empty   == <<NoFrame, NoFrame>>
IdleCtl == [pc |-> "idle", uid |-> 0, next |-> "idle"]

Init ==
  /\ ctl = [t \in Controllers |-> IdleCtl]
  /\ usbBridgeUID = 0 /\ selects = 0 /\ captured = 0
  /\ deviceId = 0 /\ running = FALSE /\ callback = FALSE /\ active = 0
  /\ io = [pc |-> "idle", frame |-> NoFrame]
  /\ mutex = "free" /\ senderStop = FALSE /\ senderHasData = FALSE /\ pendingData = Empty
  /\ snd = [pc |-> "none", data |-> Empty]
  /\ sent = NoFrame /\ lastCall = 0 /\ overlap = "none"

Goto(t, next) == ctl' = [ctl EXCEPT ![t].pc = next]

\* After a stop: startCapture() goes on to start(), which begins with another.
Return(t) ==
  ctl' = [ctl EXCEPT ![t] = IF @.next = "again" THEN [@ EXCEPT !.pc = "stop", !.next = "start"]
                            ELSE [@ EXCEPT !.pc = ctl[t].next]]

\* A thread works from the stop() that startCapture begins with to its end.
Working(t) == ctl[t].pc # "idle" /\ (ctl[t].pc = "stop" => ctl[t].next = "start")

Queued == IF overlap = "none" /\ \E t \in Controllers : ctl[t].pc # "idle" THEN "queued"
          ELSE overlap

Woken == IF snd.pc = "asleep" THEN [snd EXCEPT !.pc = "lock"] ELSE snd

-----------------------------------------------------------------------------
(* Selecting a bridge: setUSBBridge / the server's callback, startCapture  *)

\* Variant: without a bridge nothing is stopped.
SelectReturnsEarly(t) == \E uid \in Devices \cup {0} :
  /\ ctl[t].pc = "idle" /\ selects < MaxSelects
  /\ usbBridgeUID' = uid
  /\ selects' = selects + 1 /\ overlap' = Queued
  /\ ctl' = [ctl EXCEPT ![t] = [pc |-> IF uid = 0 THEN "idle" ELSE "stop", uid |-> uid,
                               next |-> "again"]]
  /\ UNCHANGED <<session, handoff, io, snd, sent, captured, lastCall>>

\* startCapture stops what is running, then starts the new bridge, if any.
Select(t) == \E uid \in Devices \cup {0} :
  /\ ctl[t].pc = "idle" /\ selects < MaxSelects
  /\ usbBridgeUID' = uid
  /\ selects' = selects + 1 /\ overlap' = Queued
  /\ ctl' = [ctl EXCEPT ![t] = [pc |-> "stop", uid |-> uid,
                               next |-> IF uid = 0 THEN "idle" ELSE "again"]]
  /\ UNCHANGED <<session, handoff, io, snd, sent, captured, lastCall>>

\* stop(): nothing to do, or AudioDeviceStop and AudioDeviceDestroyIOProcID,
\* which wait for the ioProc.
Halt(t) ==
  /\ ctl[t].pc = "stop"
  /\ \/ ~running /\ Return(t) /\ UNCHANGED session
     \/ /\ running /\ io.pc = "idle"
        /\ active' = 0 /\ running' = FALSE
        /\ Goto(t, "flag")
        /\ UNCHANGED <<deviceId, callback>>
  /\ lastCall' = IF Working(t) THEN lastCall ELSE ctl[t].uid
  /\ overlap' = IF ~Working(t) /\ \E u \in Controllers : Working(u) THEN "interleaved" ELSE overlap
  /\ UNCHANGED <<usbBridgeUID, selects, handoff, io, snd, sent, captured>>

\* Variant: the flag is set without the lock.
RaiseStopUnlocked(t) ==
  /\ ctl[t].pc = "flag"
  /\ senderStop' = TRUE
  /\ Goto(t, "notify")
  /\ UNCHANGED <<usbBridgeUID, selects, lastCall, overlap, session, mutex, senderHasData, pendingData,
                 io, snd, sent, captured>>

\* stopSender(): the flag under the lock, then notify_one, then join.
RaiseStop(t) ==
  /\ ctl[t].pc = "flag" /\ mutex = "free"
  /\ senderStop' = TRUE
  /\ Goto(t, "notify")
  /\ UNCHANGED <<usbBridgeUID, selects, lastCall, overlap, session, mutex, senderHasData, pendingData,
                 io, snd, sent, captured>>

NotifyStop(t) ==
  /\ ctl[t].pc = "notify"
  /\ snd' = Woken
  /\ Goto(t, "join")
  /\ UNCHANGED <<usbBridgeUID, selects, lastCall, overlap, session, handoff, io, sent, captured>>

\* Variant: the thread is left to itself.
JoinForgotten(t) ==
  /\ ctl[t].pc = "join"
  /\ snd' = [pc |-> IF snd.pc = "exited" THEN "none" ELSE snd.pc, data |-> snd.data]
  /\ callback' = FALSE
  /\ Return(t)
  /\ UNCHANGED <<usbBridgeUID, selects, lastCall, overlap, deviceId, running, active, handoff, io, sent, captured>>

\* The callback is dropped when the sender has gone.
Join(t) ==
  /\ ctl[t].pc = "join" /\ snd.pc \in {"none", "exited"}
  /\ snd' = [pc |-> "none", data |-> Empty]
  /\ callback' = FALSE
  /\ Return(t)
  /\ UNCHANGED <<usbBridgeUID, selects, lastCall, overlap, deviceId, running, active, handoff, io, sent, captured>>

\* start(): find the device, reset the hand-off, spawn the sender.  Assigning
\* to a std::thread that has not been joined ends the program.
Prepare(t) ==
  /\ ctl[t].pc = "start"
  /\ \/ /\ deviceId' = 0 /\ Goto(t, "idle")
        /\ UNCHANGED <<callback, senderStop, senderHasData, snd>>
     \/ /\ deviceId' = ctl[t].uid
        /\ callback' = TRUE /\ senderStop' = FALSE /\ senderHasData' = FALSE
        /\ IF snd.pc = "none" THEN /\ snd' = [pc |-> "lock", data |-> Empty]
                                   /\ Goto(t, "create")
           ELSE /\ ctl' = [x \in Controllers |-> [ctl[x] EXCEPT !.pc = "crashed"]]
                /\ UNCHANGED snd
  /\ UNCHANGED <<usbBridgeUID, selects, lastCall, overlap, running, active, mutex, pendingData, io, sent, captured>>

\* AudioDeviceCreateIOProcID and AudioDeviceStart; when either fails the sender
\* is stopped again.
StartDevice(t) ==
  /\ ctl[t].pc = "create"
  /\ \/ active' = deviceId /\ Goto(t, "mark")
     \/ /\ ctl' = [ctl EXCEPT ![t].pc = "flag", ![t].next = "idle"]
        /\ UNCHANGED active
  /\ UNCHANGED <<usbBridgeUID, selects, lastCall, overlap, deviceId, running, callback, handoff, io, snd,
                 sent, captured>>

MarkRunning(t) ==
  /\ ctl[t].pc = "mark"
  /\ running' = TRUE
  /\ Goto(t, "idle")
  /\ UNCHANGED <<usbBridgeUID, selects, lastCall, overlap, deviceId, callback, active, handoff, io, snd,
                 sent, captured>>

-----------------------------------------------------------------------------
(* The IO thread: ioProc                                                   *)

IoCalled ==
  /\ io.pc = "idle" /\ active # 0 /\ callback /\ captured < MaxFrames
  /\ captured' = captured + 1
  /\ io' = [pc |-> "try", frame |-> [device |-> active, n |-> captured + 1]]
  /\ UNCHANGED <<control, session, handoff, snd, sent>>

TryLock ==
  /\ io.pc = "try"
  /\ IF mutex = "free" /\ ~senderHasData
     THEN mutex' = "io" /\ io' = [io EXCEPT !.pc = "half"]
     ELSE io' = [pc |-> "idle", frame |-> NoFrame] /\ UNCHANGED mutex
  /\ UNCHANGED <<control, session, senderStop, senderHasData, pendingData, snd, sent, captured>>

StoreHalf ==
  /\ io.pc = "half"
  /\ pendingData' = [pendingData EXCEPT ![1] = io.frame]
  /\ io' = [io EXCEPT !.pc = "rest"]
  /\ UNCHANGED <<control, session, mutex, senderStop, senderHasData, snd, sent, captured>>

\* Variant: the sender is not notified.
StoreRestSilently ==
  /\ io.pc = "rest"
  /\ pendingData' = [pendingData EXCEPT ![2] = io.frame]
  /\ senderHasData' = TRUE
  /\ mutex' = "free"
  /\ io' = [pc |-> "idle", frame |-> NoFrame]
  /\ UNCHANGED <<control, session, senderStop, snd, sent, captured>>

StoreRest ==
  /\ io.pc = "rest"
  /\ pendingData' = [pendingData EXCEPT ![2] = io.frame]
  /\ senderHasData' = TRUE
  /\ snd' = Woken
  /\ mutex' = "free"
  /\ io' = [pc |-> "idle", frame |-> NoFrame]
  /\ UNCHANGED <<control, session, senderStop, sent, captured>>

-----------------------------------------------------------------------------
(* The sender thread: senderLoop                                           *)

Acquire ==
  /\ snd.pc = "lock" /\ mutex = "free"
  /\ mutex' = "sender"
  /\ snd' = [snd EXCEPT !.pc = "check"]
  /\ UNCHANGED <<control, session, senderStop, senderHasData, pendingData, io, sent, captured>>

\* The predicate of wait(), and the way out of the loop.
Check ==
  /\ snd.pc = "check"
  /\ snd' = [snd EXCEPT !.pc = IF senderHasData THEN "half"
                               ELSE IF senderStop THEN "exited" ELSE "block"]
  /\ mutex' = IF senderStop /\ ~senderHasData THEN "free" ELSE mutex
  /\ UNCHANGED <<control, session, senderStop, senderHasData, pendingData, io, sent, captured>>

\* Variant: the lock is kept while asleep.
BlockHolding ==
  /\ snd.pc = "block"
  /\ snd' = [snd EXCEPT !.pc = "asleep"]
  /\ UNCHANGED <<control, session, handoff, io, sent, captured>>

\* wait() releases the lock and sleeps, in one step.
Block ==
  /\ snd.pc = "block"
  /\ mutex' = "free"
  /\ snd' = [snd EXCEPT !.pc = "asleep"]
  /\ UNCHANGED <<control, session, senderStop, senderHasData, pendingData, io, sent, captured>>

\* wait() may wake up for no reason.
Spurious ==
  /\ snd.pc = "asleep"
  /\ snd' = Woken
  /\ UNCHANGED <<control, session, handoff, io, sent, captured>>

\* Variant: the frame is copied outside the lock.
CopyHalfUnlocked ==
  /\ snd.pc = "half"
  /\ snd' = [pc |-> "rest", data |-> [snd.data EXCEPT ![1] = pendingData[1]]]
  /\ senderHasData' = FALSE /\ mutex' = "free"
  /\ UNCHANGED <<control, session, senderStop, pendingData, io, sent, captured>>

CopyHalf ==
  /\ snd.pc = "half"
  /\ snd' = [pc |-> "rest", data |-> [snd.data EXCEPT ![1] = pendingData[1]]]
  /\ UNCHANGED <<control, session, handoff, io, sent, captured>>

\* Variant: the flag is not taken back.
CopyRestAgain ==
  /\ snd.pc = "rest"
  /\ snd' = [pc |-> "send", data |-> [snd.data EXCEPT ![2] = pendingData[2]]]
  /\ mutex' = "free"
  /\ UNCHANGED <<control, session, senderStop, senderHasData, pendingData, io, sent, captured>>

CopyRest ==
  /\ snd.pc = "rest"
  /\ snd' = [pc |-> "send", data |-> [snd.data EXCEPT ![2] = pendingData[2]]]
  /\ senderHasData' = FALSE
  /\ mutex' = "free"
  /\ UNCHANGED <<control, session, senderStop, pendingData, io, sent, captured>>

Send ==
  /\ snd.pc = "send"
  /\ sent' = IF callback THEN snd.data[1] ELSE sent
  /\ snd' = [snd EXCEPT !.pc = "lock"]
  /\ UNCHANGED <<control, session, handoff, io, captured>>

-----------------------------------------------------------------------------
Control(t) == \/ Halt(t) \/ RaiseStop(t) \/ NotifyStop(t) \/ Join(t)
              \/ Prepare(t) \/ StartDevice(t) \/ MarkRunning(t)
IoProc == TryLock \/ StoreHalf \/ StoreRest
Sender == Acquire \/ Check \/ Block \/ CopyHalf \/ CopyRest \/ Send

Next == (\E t \in Controllers : Select(t) \/ Control(t)) \/ IoCalled \/ IoProc \/ Sender \/ Spurious

Spec == Init /\ [][Next]_vars

\* Every thread keeps running, and the sender is not kept from the lock for
\* ever.  Nobody has to select a bridge, and no frame has to come.
FairSpec == /\ Spec
            /\ \A t \in Controllers : SF_vars(Control(t))
            /\ WF_vars(IoProc) /\ SF_vars(Sender)

-----------------------------------------------------------------------------
(* Properties                                                              *)

Uids   == Devices \cup {0}
Frames == [device : Uids, n : Nat]
Pairs  == [{1, 2} -> Frames]

\* Every variable has its type, and senderMutex_ is held by the thread that is
\* in the region it guards.
TypeOK ==
  /\ ctl \in [Controllers -> [pc : {"idle", "stop", "flag", "notify", "join", "start",
                                    "create", "mark", "crashed"},
                              uid : Uids, next : {"idle", "again", "start"}]]
  /\ usbBridgeUID \in Uids /\ deviceId \in Uids /\ active \in Uids
  /\ running \in BOOLEAN /\ callback \in BOOLEAN
  /\ io \in [pc : {"idle", "try", "half", "rest"}, frame : Frames]
  /\ mutex \in {"free", "io", "sender"}
  /\ mutex = "io" <=> io.pc \in {"half", "rest"}
  /\ mutex = "sender" <=> snd.pc \in {"check", "block", "half", "rest"}
  /\ senderStop \in BOOLEAN /\ senderHasData \in BOOLEAN
  /\ pendingData \in Pairs
  /\ snd \in [pc : {"none", "lock", "check", "block", "asleep", "half", "rest", "send",
                    "exited"}, data : Pairs]
  /\ sent \in Frames /\ selects \in Nat /\ captured \in Nat
  /\ lastCall \in Uids /\ overlap \in {"none", "queued", "interleaved"}

Interleaved == overlap = "interleaved"

\* What the sender sends is one whole frame, of the device being captured now:
\* a frame is never torn, nor left over from the bridge before
\* (GLA_USBCapture.h:84-95, 113-141, 193-226).
WholeFrames ==
  snd.pc = "send" /\ ~Interleaved =>
     snd.data[1] = snd.data[2] /\ snd.data[1].device = deviceId

\* No frame is sent twice or after a later one, whatever is dropped.
InOrder == [][snd.pc = "send" /\ snd' # snd /\ ~Interleaved => sent'.n > sent.n]_vars

AllIdle == \A t \in Controllers : ctl[t].pc = "idle"

\* Once the selections are through, what is captured is the bridge of the call of
\* startCapture that began last, or nothing; that is the bridge selected last, if
\* no selections overlapped (GLA_AppBackend.h:44, 408-427).
CaptureFollowsBridge ==
  AllIdle /\ ~Interleaved =>
    /\ active \in {0, lastCall} /\ (running <=> active # 0)
    /\ overlap = "none" => lastCall = usbBridgeUID

\* It is the bridge selected last, whatever overlaps: not so.
CaptureFollowsAnyBridge == AllIdle => active \in {0, usbBridgeUID}

\* start() replaces a sender thread that has not been joined, which would end the
\* program, only when two threads are in startCapture at a time: one that has
\* not begun to stop the capture does no harm (GLA_USBCapture.h:54).
OneSender == ~Interleaved => \A t \in Controllers : ctl[t].pc # "crashed"

\* A frame that was handed over is taken: the wake-up is not lost.
HandedOverIsTaken == senderHasData ~> ~senderHasData \/ Interleaved

\* stop() returns: neither the sender nor the IO thread is left waiting.
SelectionEnds == \A t \in Controllers : ctl[t].pc = "stop" ~> ctl[t].pc = "idle" \/ Interleaved
-----------------------------------------------------------------------------
(* Why: the inductive invariant of USBCaptureProofs                        *)

\* Calls that do not interleave: one thread at a time works.
OneWorks == \A t, u \in Controllers : Working(t) /\ Working(u) => t = u

\* What the thread that works knows at each of its steps of the device, its
\* ioProc and the sender, and what the others find when none works.
WorkerKnows(t) ==
  /\ ctl[t].pc # "crashed"
  /\ ctl[t].uid = lastCall
  /\ ctl[t].pc \in {"create", "mark"} => deviceId = ctl[t].uid
  /\ ctl[t].pc \in {"start", "create"} => ctl[t].uid # 0
  /\ active # 0 => ctl[t].pc \in {"stop", "mark"}
  /\ ctl[t].pc = "mark" => ~running /\ active # 0
  /\ ctl[t].pc # "mark" => (running <=> active # 0)
  /\ ctl[t].pc = "stop" => (running <=> snd.pc # "none")
  /\ ctl[t].pc \in {"flag", "notify", "join", "create", "mark"} => snd.pc # "none"
  /\ ctl[t].pc = "start" => snd.pc = "none"
  /\ senderStop => ctl[t].pc \in {"notify", "join"} \/ snd.pc = "none"

ControlKnows ==
  /\ \A t \in Controllers : ctl[t].pc # "idle" /\ ctl[t].next # "idle" => ctl[t].uid # 0
  /\ \A t \in Controllers : Working(t) => WorkerKnows(t)
  /\ (\A t \in Controllers : ~Working(t)) =>
        /\ running <=> active # 0
        /\ running <=> snd.pc # "none"
        /\ senderStop => ~running
        /\ active \in {0, lastCall}
  /\ active # 0 => active = deviceId

\* Selections that do not overlap: there is one at a time, and it is the last.
LastCounts ==
  /\ \A t, u \in Controllers : ctl[t].pc # "idle" /\ ctl[u].pc # "idle" => t = u
  /\ \A t \in Controllers : ctl[t].pc # "idle" => ctl[t].uid = usbBridgeUID
  /\ AllIdle => lastCall = usbBridgeUID

\* The ioProc runs on the active device only, the callback is there as long as
\* the sender is, and a sender that ends leaves no frame behind.
ThreadsAgree ==
  /\ io.pc # "idle" => active # 0 /\ io.frame.device = active
  /\ callback <=> snd.pc # "none"
  /\ snd.pc = "exited" => senderStop
  /\ snd.pc \in {"none", "exited"} => ~senderHasData

\* What has been copied of a frame so far, on its way through pendingData.
FrameKept ==
  /\ io.pc \in {"half", "rest"} => ~senderHasData
  /\ io.pc = "rest" => pendingData[1] = io.frame
  /\ senderHasData => pendingData[1] = pendingData[2] /\ pendingData[1].device = deviceId
  /\ snd.pc \in {"half", "rest"} => senderHasData
  /\ snd.pc = "rest" => snd.data[1] = pendingData[1]

\* The frames in the ioProc, in pendingData and in the sender are later ones in
\* this order, and later than what was sent.
FramesOrdered ==
  /\ sent.n <= captured
  /\ snd.pc = "send" => sent.n < snd.data[1].n /\ snd.data[1].n <= captured
  /\ senderHasData => /\ sent.n < pendingData[1].n /\ pendingData[1].n <= captured
                      /\ snd.pc = "send" => snd.data[1].n < pendingData[1].n
  /\ io.pc # "idle" => /\ io.frame.n = captured /\ sent.n < captured
                       /\ senderHasData => pendingData[1].n < captured
                       /\ snd.pc = "send" => snd.data[1].n < captured

Kept == /\ OneWorks /\ ControlKnows /\ (overlap = "none" => LastCounts)
        /\ ThreadsAgree /\ FrameKept /\ WholeFrames /\ FramesOrdered

CaptureInv == TypeOK /\ (~Interleaved => Kept)
=============================================================================
