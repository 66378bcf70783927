--------------------------- MODULE USBCaptureProofs ---------------------------
(***************************************************************************)
(* Theorems about USBCapture, for any threads that select a bridge, any    *)
(* bridges and any bounds: the types always, the rest until two calls of   *)
(* startCapture have been interleaved.                                     *)
(***************************************************************************)
EXTENDS USBCapture, TLAPS

Control1 == [pc : {"idle", "stop", "flag", "notify", "join", "start", "create", "mark",
                   "crashed"}, uid : Uids, next : {"idle", "again", "start"}]
IoStates == [pc : {"idle", "try", "half", "rest"}, frame : Frames]
Senders  == [pc : {"none", "lock", "check", "block", "asleep", "half", "rest", "send",
                   "exited"}, data : Pairs]

LEMMA StartValues ==
  NoFrame \in Frames /\ Empty \in Pairs /\ IdleCtl \in Control1 /\ 0 \in Uids
<1>1. NoFrame \in Frames /\ IdleCtl \in Control1 /\ 0 \in Uids
  BY DEF NoFrame, Frames, IdleCtl, Control1, Uids
<1>2. Empty \in Pairs
  BY <1>1 DEF Empty, Pairs
<1> QED
  BY <1>1, <1>2

\* Where a controller goes keeps its type.
LEMMA ControlMoves ==
  ASSUME ctl \in [Controllers -> Control1], NEW t \in Controllers
  PROVE  /\ \A pc \in {"idle", "stop", "flag", "notify", "join", "start", "create", "mark"} :
              Goto(t, pc) => ctl' \in [Controllers -> Control1]
         /\ Return(t) => ctl' \in [Controllers -> Control1]
<1>0. ctl[t] \in Control1
  OBVIOUS
<1>1. ASSUME NEW pc \in {"idle", "stop", "flag", "notify", "join", "start", "create", "mark"},
             Goto(t, pc)
      PROVE  ctl' \in [Controllers -> Control1]
  <2>1. [ctl[t] EXCEPT !.pc = pc] \in Control1
    BY <1>0 DEF Control1
  <2> QED
    BY <1>1, <2>1 DEF Goto
<1>2. ASSUME Return(t) PROVE ctl' \in [Controllers -> Control1]
  <2>1. CASE ctl[t].next = "again"
    <3>1. [ctl[t] EXCEPT !.pc = "stop", !.next = "start"] \in Control1
      BY <1>0 DEF Control1
    <3> QED
      BY <1>2, <2>1, <3>1 DEF Return
  <2>2. CASE ctl[t].next # "again"
    <3>1. [ctl[t] EXCEPT !.pc = ctl[t].next] \in Control1
      BY <1>0, <2>2 DEF Control1
    <3> QED
      BY <1>2, <2>2, <3>1 DEF Return
  <2> QED
    BY <2>1, <2>2
<1> QED
  BY <1>1, <1>2

LEMMA WokenType ==
  ASSUME snd \in Senders
  PROVE  /\ Woken \in Senders /\ Woken.data = snd.data
         /\ snd.pc # "asleep" => Woken = snd
         /\ snd.pc = "asleep" => Woken.pc = "lock"
  BY DEF Woken, Senders

LEMMA InitType ==
  ASSUME Init
  PROVE  TypeOK
<1>1. ctl \in [Controllers -> Control1] /\ pendingData \in Pairs /\ sent \in Frames
  BY StartValues DEF Init
<1>2. io \in IoStates /\ io.pc = "idle" /\ snd \in Senders /\ snd.pc = "none"
  BY StartValues DEF Init, IoStates, Senders
<1> QED
  BY <1>1, <1>2, StartValues DEF Init, TypeOK, Control1, IoStates, Senders

LEMMA TypeStep ==
  ASSUME TypeOK, [Next]_vars
  PROVE  TypeOK'
<1> USE DEF control, session, handoff
<1>0. /\ ctl \in [Controllers -> Control1] /\ io \in IoStates /\ snd \in Senders
      /\ pendingData \in Pairs
  BY DEF TypeOK, Control1, IoStates, Senders
<1>1. ASSUME NEW t \in Controllers, Select(t) PROVE TypeOK'
  <2>1. usbBridgeUID' \in Uids /\ ctl' \in [Controllers -> Control1] /\ selects' \in Nat
    BY <1>0, <1>1 DEF Select, TypeOK, Uids, Control1
  <2> QED
    BY <1>1, <2>1 DEF Select, Queued, TypeOK, Control1
<1>2. ASSUME NEW t \in Controllers, Halt(t) PROVE TypeOK'
  <2>1. ctl' \in [Controllers -> Control1]
    BY <1>0, <1>2, ControlMoves DEF Halt
  <2> QED
    BY <1>2, <2>1, StartValues DEF Halt, TypeOK, Control1
<1>3. ASSUME NEW t \in Controllers, RaiseStop(t) PROVE TypeOK'
  <2>1. ctl' \in [Controllers -> Control1]
    BY <1>0, <1>3, ControlMoves DEF RaiseStop
  <2> QED
    BY <1>3, <2>1 DEF RaiseStop, TypeOK, Control1
<1>4. ASSUME NEW t \in Controllers, NotifyStop(t) PROVE TypeOK'
  <2>1. ctl' \in [Controllers -> Control1]
    BY <1>0, <1>4, ControlMoves DEF NotifyStop
  <2>2. snd' \in Senders /\ (snd.pc # "asleep" => snd' = snd) /\ (snd.pc = "asleep" => snd'.pc = "lock")
    BY <1>0, <1>4, WokenType DEF NotifyStop
  <2> QED
    BY <1>4, <2>1, <2>2 DEF NotifyStop, TypeOK, Control1, Senders
<1>5. ASSUME NEW t \in Controllers, Join(t) PROVE TypeOK'
  <2>1. ctl' \in [Controllers -> Control1]
    BY <1>0, <1>5, ControlMoves DEF Join
  <2> QED
    BY <1>5, <2>1, StartValues DEF Join, TypeOK, Control1
<1>6. ASSUME NEW t \in Controllers, Prepare(t) PROVE TypeOK'
  <2>1. ctl' \in [Controllers -> Control1]
    BY <1>0, <1>6, ControlMoves DEF Prepare, Control1
  <2>2. deviceId' \in Uids /\ callback' \in BOOLEAN /\ senderStop' \in BOOLEAN /\ senderHasData' \in BOOLEAN
    BY <1>0, <1>6, StartValues DEF Prepare, TypeOK, Control1
  <2>3. snd' \in Senders /\ (snd' = snd \/ (snd.pc = "none" /\ snd'.pc = "lock"))
    BY <1>0, <1>6, StartValues DEF Prepare, Senders
  <2> QED
    BY <1>6, <2>1, <2>2, <2>3 DEF Prepare, TypeOK, Control1, Senders
<1>7. ASSUME NEW t \in Controllers, StartDevice(t) PROVE TypeOK'
  <2>1. ctl' \in [Controllers -> Control1]
    BY <1>0, <1>7, ControlMoves DEF StartDevice, Control1
  <2> QED
    BY <1>7, <2>1 DEF StartDevice, TypeOK, Control1
<1>8. ASSUME NEW t \in Controllers, MarkRunning(t) PROVE TypeOK'
  <2>1. ctl' \in [Controllers -> Control1]
    BY <1>0, <1>8, ControlMoves DEF MarkRunning
  <2> QED
    BY <1>8, <2>1 DEF MarkRunning, TypeOK, Control1
<1>9. CASE IoCalled
  BY <1>9 DEF IoCalled, TypeOK, Frames
<1>10. CASE TryLock
  BY <1>0, <1>10, StartValues DEF TryLock, TypeOK, IoStates
<1>11. CASE StoreHalf
  <2>1. pendingData' \in Pairs
    BY <1>0, <1>11 DEF StoreHalf, Pairs, IoStates
  <2> QED
    BY <1>11, <2>1 DEF StoreHalf, TypeOK
<1>12. CASE StoreRest
  <2>1. pendingData' \in Pairs
    BY <1>0, <1>12 DEF StoreRest, Pairs, IoStates
  <2>2. snd' \in Senders /\ (snd.pc # "asleep" => snd' = snd) /\ (snd.pc = "asleep" => snd'.pc = "lock")
    BY <1>0, <1>12, WokenType DEF StoreRest
  <2> QED
    BY <1>12, <2>1, <2>2, StartValues DEF StoreRest, TypeOK, Senders
<1>13. CASE Acquire
  BY <1>13 DEF Acquire, TypeOK
<1>14. CASE Check
  <2>1. snd' \in Senders /\ snd'.pc \in {"half", "exited", "block"}
        /\ (snd'.pc = "exited" <=> senderStop /\ ~senderHasData)
    BY <1>0, <1>14 DEF Check, Senders
  <2>2. mutex = "sender" /\ mutex' = IF senderStop /\ ~senderHasData THEN "free" ELSE mutex
    BY <1>14 DEF Check, TypeOK
  <2> QED
    BY <1>14, <2>1, <2>2 DEF Check, TypeOK, Senders
<1>15. CASE Block
  <2>1. snd' \in Senders /\ snd'.pc = "asleep"
    BY <1>0, <1>15 DEF Block, Senders
  <2> QED
    BY <1>15, <2>1 DEF Block, TypeOK, Senders
<1>16. CASE Spurious
  <2>1. snd' \in Senders /\ snd'.pc = "lock"
    BY <1>0, <1>16, WokenType DEF Spurious
  <2> QED
    BY <1>16, <2>1 DEF Spurious, TypeOK, Senders
<1>17. CASE CopyHalf
  <2>1. [snd.data EXCEPT ![1] = pendingData[1]] \in Pairs
    BY <1>0 DEF Pairs, Senders
  <2> QED
    BY <1>17, <2>1 DEF CopyHalf, TypeOK
<1>18. CASE CopyRest
  <2>1. [snd.data EXCEPT ![2] = pendingData[2]] \in Pairs
    BY <1>0 DEF Pairs, Senders
  <2>2. snd' \in Senders /\ snd'.pc = "send"
    BY <1>18, <2>1 DEF CopyRest, Senders
  <2> QED
    BY <1>18, <2>2 DEF CopyRest, TypeOK, Senders
<1>19. CASE Send
  <2>1. snd.data[1] \in Frames
    BY <1>0 DEF Pairs, Senders
  <2> QED
    BY <1>19, <2>1 DEF Send, TypeOK
<1>20. CASE UNCHANGED vars
  BY <1>20 DEF vars, TypeOK
<1> QED
  BY <1>1, <1>2, <1>3, <1>4, <1>5, <1>6, <1>7, <1>8, <1>9, <1>10, <1>11, <1>12, <1>13,
     <1>14, <1>15, <1>16, <1>17, <1>18, <1>19, <1>20 DEF Next, Control, IoProc, Sender

\* Whoever selects bridges, every variable keeps its type, and senderMutex_ is
\* held by the thread that is in the region it guards.
THEOREM TypeCorrect == Spec => []TypeOK
<1>1. Init => TypeOK
  BY InitType
<1>2. TypeOK /\ [Next]_vars => TypeOK'
  BY TypeStep
<1> QED
  BY <1>1, <1>2, PTL DEF Spec
-----------------------------------------------------------------------------
LEMMA FrameParts ==
  ASSUME TypeOK
  PROVE  /\ ctl \in [Controllers -> Control1] /\ io \in IoStates /\ snd \in Senders
         /\ DOMAIN pendingData = {1, 2} /\ DOMAIN snd.data = {1, 2}
         /\ pendingData[1] \in Frames /\ pendingData[2] \in Frames
         /\ snd.data[1] \in Frames /\ snd.data[2] \in Frames
         /\ io.frame \in Frames /\ sent \in Frames /\ captured \in Nat
  BY DEF TypeOK, Control1, IoStates, Senders, Pairs

\* What is found when no thread works.
Rest ==
  /\ running <=> active # 0
  /\ running <=> snd.pc # "none"
  /\ senderStop => ~running
  /\ active \in {0, lastCall}

\* Calls once interleaved stay so.
LEMMA StaysInterleaved ==
  ASSUME [Next]_vars
  PROVE  /\ ~Interleaved' => ~Interleaved
         /\ overlap' = "none" => overlap = "none"
<1> USE DEF control
<1>1. ASSUME NEW t \in Controllers, Select(t) \/ Control(t) PROVE ~Interleaved' => ~Interleaved
  BY <1>1 DEF Control, Select, Queued, Halt, RaiseStop, NotifyStop, Join, Prepare, StartDevice,
     MarkRunning, Interleaved
<1>2. ASSUME NEW t \in Controllers, Select(t) \/ Control(t)
      PROVE  overlap' = "none" => overlap = "none"
  BY <1>2 DEF Control, Select, Queued, Halt, RaiseStop, NotifyStop, Join, Prepare, StartDevice,
     MarkRunning
<1>3. CASE ~\E t \in Controllers : Select(t) \/ Control(t)
  BY <1>3 DEF Next, vars, IoProc, Sender, IoCalled, TryLock, StoreHalf, StoreRest, Acquire, Check,
     Block, Spurious, CopyHalf, CopyRest, Send, Interleaved
<1> QED
  BY <1>1, <1>2, <1>3

\* Every step of a call but its first is made by the thread that works; with calls
\* that do not interleave the first one too finds no other at work.
LEMMA OthersWait ==
  ASSUME NEW t \in Controllers, OneWorks, ~Interleaved', Control(t)
  PROVE  \A u \in Controllers \ {t} : ~Working(u)
<1>1. CASE Working(t)
  BY <1>1 DEF OneWorks
<1>2. CASE ~Working(t)
  <2>1. Halt(t)
    BY <1>2 DEF Control, Working, RaiseStop, NotifyStop, Join, Prepare, StartDevice, MarkRunning
  <2> QED
    BY <1>2, <2>1 DEF Halt, Interleaved
<1> QED
  BY <1>1, <1>2

\* A step of one thread while the others wait is judged by what it knows after.
LEMMA ControlOf ==
  ASSUME NEW t \in Controllers, ControlKnows,
         \A u \in Controllers \ {t} : ctl'[u] = ctl[u] /\ ~Working(u),
         (ctl[t].pc # "idle" /\ ctl[t].next # "idle" => ctl[t].uid # 0)',
         Working(t)' => WorkerKnows(t)',
         ~Working(t)' => Rest',
         (active # 0 => active = deviceId)'
  PROVE  OneWorks' /\ ControlKnows'
<1>1. \A u \in Controllers \ {t} : ~Working(u)'
  BY DEF Working
<1>2. OneWorks'
  BY <1>1 DEF OneWorks
<1>3. \A u \in Controllers : Working(u)' => WorkerKnows(u)'
  BY <1>1
<1>4. \A u \in Controllers : ctl'[u].pc # "idle" /\ ctl'[u].next # "idle" => ctl'[u].uid # 0
  BY DEF ControlKnows
<1>5. (\A u \in Controllers : ~Working(u)') => Rest'
  OBVIOUS
<1> QED
  BY <1>2, <1>3, <1>4, <1>5 DEF ControlKnows, Rest

\* So is it judged while selections do not overlap.
LEMMA LastOf ==
  ASSUME NEW t \in Controllers, LastCounts, ctl[t].pc # "idle",
         \A u \in Controllers \ {t} : ctl'[u] = ctl[u],
         ctl'[t].uid = ctl[t].uid, usbBridgeUID' = usbBridgeUID,
         ctl'[t].pc = "idle" => lastCall' = usbBridgeUID
  PROVE  LastCounts'
<1>1. \A u \in Controllers \ {t} : ctl[u].pc = "idle" /\ ctl'[u].pc = "idle"
  BY DEF LastCounts
<1> QED
  BY <1>1 DEF LastCounts, AllIdle

\* A step that leaves the threads that select alone, and what they know of the
\* device and the sender, leaves them knowing it.
LEMMA ControlStays ==
  ASSUME Kept, UNCHANGED <<control, session>>, senderStop' = senderStop,
         snd'.pc = "none" <=> snd.pc = "none"
  PROVE  OneWorks' /\ ControlKnows' /\ (overlap' = "none" => LastCounts')
<1> USE DEF control, session
<1>1. OneWorks'
  BY DEF Kept, OneWorks, Working
<1>2. \A t \in Controllers : Working(t)' => WorkerKnows(t)'
  BY DEF Kept, ControlKnows, Working, WorkerKnows
<1>3. (\A t \in Controllers : ~Working(t)') => Rest'
  BY DEF Kept, ControlKnows, Working, Rest
<1>4. ControlKnows'
  BY <1>2, <1>3 DEF Kept, ControlKnows, Rest
<1>5. overlap' = "none" => LastCounts'
  BY DEF Kept, LastCounts, AllIdle
<1> QED
  BY <1>1, <1>4, <1>5

\* As long as CoreAudio calls the ioProc there is a sender that was not told to stop.
LEMMA SenderIsThere ==
  ASSUME ControlKnows, active # 0
  PROVE  snd.pc # "none" /\ ~senderStop
<1>1. CASE \E t \in Controllers : Working(t)
  BY <1>1 DEF ControlKnows, WorkerKnows
<1>2. CASE ~\E t \in Controllers : Working(t)
  BY <1>2 DEF ControlKnows
<1> QED
  BY <1>1, <1>2

\* As long as calls do not interleave, every step keeps what the threads know.
LEMMA CaptureStep ==
  ASSUME TypeOK, TypeOK', ~Interleaved', Kept, [Next]_vars
  PROVE  Kept'
<1> USE DEF control, session, handoff
<1>0. ~Interleaved /\ ~Interleaved' /\ TypeOK /\ TypeOK'
  BY StaysInterleaved
<1>1. ASSUME NEW t \in Controllers, Select(t)
      PROVE  Kept'
  <2>1. PICK uid \in Devices \cup {0} :
           /\ ctl[t].pc = "idle" /\ usbBridgeUID' = uid
           /\ ctl' = [ctl EXCEPT ![t] = [pc |-> "stop", uid |-> uid,
                                        next |-> IF uid = 0 THEN "idle" ELSE "again"]]
    BY <1>1 DEF Select
  <2>2. /\ ctl'[t].pc = "stop" /\ ctl'[t].uid = uid /\ ctl'[t].next \in {"idle", "again"}
        /\ ctl'[t].next # "idle" => uid # 0
        /\ \A u \in Controllers \ {t} : ctl'[u] = ctl[u]
    BY <2>1, FrameParts
  <2>3. \A u \in Controllers : Working(u)' <=> Working(u)
    BY <2>1, <2>2 DEF Working
  <2>4. OneWorks'
    BY <2>3 DEF Kept, OneWorks
  <2>5. \A u \in Controllers : Working(u) => u # t /\ WorkerKnows(u)
    BY <2>1 DEF Kept, ControlKnows, Working
  <2>6. \A u \in Controllers : Working(u)' => WorkerKnows(u)'
    BY <1>1, <2>2, <2>3, <2>5 DEF Select, WorkerKnows
  <2>7. (\A u \in Controllers : ~Working(u)') => Rest'
    BY <1>1, <2>3 DEF Select, Kept, ControlKnows, Rest
  <2>8. \A u \in Controllers : ctl'[u].pc # "idle" /\ ctl'[u].next # "idle" => ctl'[u].uid # 0
    BY <2>2 DEF Kept, ControlKnows
  <2>9. ControlKnows'
    BY <1>1, <2>6, <2>7, <2>8 DEF Select, Kept, ControlKnows, Rest
  <2>10. ASSUME overlap' = "none" PROVE LastCounts'
    <3>1. \A u \in Controllers : ctl[u].pc = "idle"
      BY <1>1, <2>10 DEF Select, Queued
    <3> QED
      BY <2>1, <2>2, <3>1 DEF LastCounts, AllIdle
  <2>11. ThreadsAgree'
    BY <1>1 DEF Select, Kept, ThreadsAgree
  <2>12. FrameKept'
    BY <1>1 DEF Select, Kept, FrameKept
  <2>13. WholeFrames'
    BY <1>0, <1>1 DEF Select, Kept, WholeFrames
  <2>14. FramesOrdered'
    BY <1>1 DEF Select, Kept, FramesOrdered
  <2> QED
    BY <2>4, <2>9, <2>10, <2>11, <2>12, <2>13, <2>14 DEF Kept
<1>2. ASSUME NEW t \in Controllers, Halt(t)
      PROVE  Kept'
  <2>1. \A u \in Controllers \ {t} : ~Working(u)
    BY <1>0, <1>2, OthersWait DEF Control, Kept
  <2>2. /\ running <=> active # 0
        /\ running <=> snd.pc # "none"
        /\ senderStop => snd.pc = "none"
        /\ ctl[t].next # "idle" => ctl[t].uid # 0
        /\ lastCall' = ctl[t].uid
    <3>1. CASE Working(t)
      BY <1>2, <3>1 DEF Halt, Kept, ControlKnows, WorkerKnows
    <3>2. CASE ~Working(t)
      BY <1>2, <2>1, <3>2 DEF Halt, Kept, ControlKnows
    <3> QED
      BY <3>1, <3>2
  <2>3. /\ ctl'[t].uid = ctl[t].uid
        /\ running => ctl'[t].pc = "flag" /\ ctl'[t].next = ctl[t].next
        /\ ~running => \/ ctl'[t].pc = "idle"
                       \/ ctl'[t].pc = "stop" /\ ctl'[t].next = "start" /\ ctl[t].next # "idle"
                       \/ ctl'[t].pc = "start" /\ ctl[t].next # "idle"
    BY <1>2, FrameParts DEF Halt, Goto, Return, Control1
  <2>4. \A u \in Controllers \ {t} : ctl'[u] = ctl[u]
    BY <1>2, FrameParts DEF Halt, Goto, Return
  <2>5. Working(t)' => WorkerKnows(t)'
    BY <1>2, <2>2, <2>3 DEF Halt, WorkerKnows, Working
  <2>6. ~Working(t)' => Rest'
    BY <1>2, <2>2, <2>3 DEF Halt, WorkerKnows, Working, Rest
  <2>7. (active # 0 => active = deviceId)'
    BY <1>2, <2>2, <2>3 DEF Halt, WorkerKnows, Kept, ControlKnows
  <2>8. OneWorks' /\ ControlKnows'
    <3>1. (ctl[t].pc # "idle" /\ ctl[t].next # "idle" => ctl[t].uid # 0)'
      BY <2>2, <2>3
    <3> QED
      BY <2>1, <2>4, <2>5, <2>6, <2>7, <3>1, ControlOf DEF Kept
  <2>9. ASSUME overlap' = "none" PROVE LastCounts'
    <3>1. LastCounts
      BY <2>9, StaysInterleaved DEF Kept
    <3>2. ctl[t].pc = "stop" /\ usbBridgeUID' = usbBridgeUID
      BY <1>2 DEF Halt
    <3>3. lastCall' = usbBridgeUID
      BY <1>2, <2>2, <2>3, <3>1, <3>2 DEF Halt, WorkerKnows, LastCounts
    <3> QED
      BY <2>3, <2>4, <3>1, <3>2, <3>3, LastOf
  <2>10. ThreadsAgree'
    BY <1>2, <2>2 DEF Halt, WorkerKnows, Kept, ThreadsAgree
  <2>11. FrameKept'
    BY <1>2, <2>2 DEF Halt, WorkerKnows, Kept, ThreadsAgree, FrameKept
  <2>12. WholeFrames'
    BY <1>0, <1>2, <2>2 DEF Halt, WorkerKnows, Kept, WholeFrames
  <2>13. FramesOrdered'
    BY <1>2, <2>2, FrameParts DEF Halt, WorkerKnows, Kept, ThreadsAgree, FramesOrdered
  <2> QED
    BY <2>8, <2>9, <2>10, <2>11, <2>12, <2>13 DEF Kept
<1>3. ASSUME NEW t \in Controllers, RaiseStop(t)
      PROVE  Kept'
  <2>1. \A u \in Controllers \ {t} : ~Working(u)
    BY <1>0, <1>3, OthersWait DEF Control, Kept
  <2>2. /\ Working(t) /\ WorkerKnows(t)
        /\ ctl[t].next # "idle" => ctl[t].uid # 0
    BY <1>3 DEF RaiseStop, Working, Kept, ControlKnows
  <2>3. /\ ctl'[t].pc = "notify" /\ ctl'[t].uid = ctl[t].uid /\ ctl'[t].next = ctl[t].next
    BY <1>3, FrameParts DEF RaiseStop, Goto, Control1
  <2>4. \A u \in Controllers \ {t} : ctl'[u] = ctl[u]
    BY <1>3, FrameParts DEF RaiseStop, Goto
  <2>5. Working(t)' => WorkerKnows(t)'
    BY <1>3, <2>2, <2>3 DEF RaiseStop, WorkerKnows, Working
  <2>6. ~Working(t)' => Rest'
    BY <1>3, <2>2, <2>3 DEF RaiseStop, WorkerKnows, Working, Rest
  <2>7. (active # 0 => active = deviceId)'
    BY <1>3, <2>2, <2>3 DEF RaiseStop, WorkerKnows, Kept, ControlKnows
  <2>8. OneWorks' /\ ControlKnows'
    <3>1. (ctl[t].pc # "idle" /\ ctl[t].next # "idle" => ctl[t].uid # 0)'
      BY <2>2, <2>3
    <3> QED
      BY <2>1, <2>4, <2>5, <2>6, <2>7, <3>1, ControlOf DEF Kept
  <2>9. ASSUME overlap' = "none" PROVE LastCounts'
    <3>1. LastCounts
      BY <2>9, StaysInterleaved DEF Kept
    <3>2. ctl[t].pc = "flag" /\ usbBridgeUID' = usbBridgeUID
      BY <1>3 DEF RaiseStop
    <3>3. lastCall' = usbBridgeUID
      BY <1>3, <2>2, <2>3, <3>1, <3>2 DEF RaiseStop, WorkerKnows, LastCounts
    <3> QED
      BY <2>3, <2>4, <3>1, <3>2, <3>3, LastOf
  <2>10. ThreadsAgree'
    BY <1>3, <2>2 DEF RaiseStop, WorkerKnows, Kept, ThreadsAgree
  <2>11. FrameKept'
    BY <1>3, <2>2 DEF RaiseStop, WorkerKnows, Kept, ThreadsAgree, FrameKept
  <2>12. WholeFrames'
    BY <1>0, <1>3, <2>2 DEF RaiseStop, WorkerKnows, Kept, WholeFrames
  <2>13. FramesOrdered'
    BY <1>3, <2>2, FrameParts DEF RaiseStop, WorkerKnows, Kept, ThreadsAgree, FramesOrdered
  <2> QED
    BY <2>8, <2>9, <2>10, <2>11, <2>12, <2>13 DEF Kept
<1>4. ASSUME NEW t \in Controllers, NotifyStop(t)
      PROVE  Kept'
  <2>1. \A u \in Controllers \ {t} : ~Working(u)
    BY <1>0, <1>4, OthersWait DEF Control, Kept
  <2>2. /\ Working(t) /\ WorkerKnows(t)
        /\ ctl[t].next # "idle" => ctl[t].uid # 0
    BY <1>4 DEF NotifyStop, Working, Kept, ControlKnows
  <2>3. /\ ctl'[t].pc = "join" /\ ctl'[t].uid = ctl[t].uid /\ ctl'[t].next = ctl[t].next
    BY <1>4, FrameParts DEF NotifyStop, Goto, Control1
  <2>4. \A u \in Controllers \ {t} : ctl'[u] = ctl[u]
    BY <1>4, FrameParts DEF NotifyStop, Goto
  <2>5. Working(t)' => WorkerKnows(t)'
    BY <1>4, <2>2, <2>3 DEF NotifyStop, WorkerKnows, Working, Woken
  <2>6. ~Working(t)' => Rest'
    BY <1>4, <2>2, <2>3 DEF NotifyStop, WorkerKnows, Working, Rest, Woken
  <2>7. (active # 0 => active = deviceId)'
    BY <1>4, <2>2, <2>3 DEF NotifyStop, WorkerKnows, Kept, ControlKnows
  <2>8. OneWorks' /\ ControlKnows'
    <3>1. (ctl[t].pc # "idle" /\ ctl[t].next # "idle" => ctl[t].uid # 0)'
      BY <2>2, <2>3
    <3> QED
      BY <2>1, <2>4, <2>5, <2>6, <2>7, <3>1, ControlOf DEF Kept
  <2>9. ASSUME overlap' = "none" PROVE LastCounts'
    <3>1. LastCounts
      BY <2>9, StaysInterleaved DEF Kept
    <3>2. ctl[t].pc = "notify" /\ usbBridgeUID' = usbBridgeUID
      BY <1>4 DEF NotifyStop
    <3>3. lastCall' = usbBridgeUID
      BY <1>4, <2>2, <2>3, <3>1, <3>2 DEF NotifyStop, WorkerKnows, LastCounts
    <3> QED
      BY <2>3, <2>4, <3>1, <3>2, <3>3, LastOf
  <2>10. ThreadsAgree'
    BY <1>4, <2>2 DEF NotifyStop, WorkerKnows, Kept, ThreadsAgree, Woken
  <2>11. FrameKept'
    BY <1>4, <2>2 DEF NotifyStop, WorkerKnows, Kept, ThreadsAgree, FrameKept, Woken
  <2>12. WholeFrames'
    BY <1>0, <1>4, <2>2 DEF NotifyStop, WorkerKnows, Kept, WholeFrames, Woken
  <2>13. FramesOrdered'
    BY <1>4, <2>2, FrameParts DEF NotifyStop, WorkerKnows, Kept, ThreadsAgree, FramesOrdered, Woken
  <2> QED
    BY <2>8, <2>9, <2>10, <2>11, <2>12, <2>13 DEF Kept
<1>5. ASSUME NEW t \in Controllers, Join(t)
      PROVE  Kept'
  <2>1. \A u \in Controllers \ {t} : ~Working(u)
    BY <1>0, <1>5, OthersWait DEF Control, Kept
  <2>2. /\ Working(t) /\ WorkerKnows(t)
        /\ ctl[t].next # "idle" => ctl[t].uid # 0
    BY <1>5 DEF Join, Working, Kept, ControlKnows
  <2>3. /\ ctl'[t].uid = ctl[t].uid
        /\ \/ ctl'[t].pc = "idle"
           \/ ctl'[t].pc = "stop" /\ ctl'[t].next = "start" /\ ctl[t].next # "idle"
           \/ ctl'[t].pc = "start" /\ ctl[t].next # "idle"
    BY <1>5, FrameParts DEF Join, Return, Control1
  <2>4. \A u \in Controllers \ {t} : ctl'[u] = ctl[u]
    BY <1>5, FrameParts DEF Join, Return
  <2>5. Working(t)' => WorkerKnows(t)'
    BY <1>5, <2>2, <2>3 DEF Join, WorkerKnows, Working
  <2>6. ~Working(t)' => Rest'
    BY <1>5, <2>2, <2>3 DEF Join, WorkerKnows, Working, Rest
  <2>7. (active # 0 => active = deviceId)'
    BY <1>5, <2>2, <2>3 DEF Join, WorkerKnows, Kept, ControlKnows
  <2>8. OneWorks' /\ ControlKnows'
    <3>1. (ctl[t].pc # "idle" /\ ctl[t].next # "idle" => ctl[t].uid # 0)'
      BY <2>2, <2>3
    <3> QED
      BY <2>1, <2>4, <2>5, <2>6, <2>7, <3>1, ControlOf DEF Kept
  <2>9. ASSUME overlap' = "none" PROVE LastCounts'
    <3>1. LastCounts
      BY <2>9, StaysInterleaved DEF Kept
    <3>2. ctl[t].pc = "join" /\ usbBridgeUID' = usbBridgeUID
      BY <1>5 DEF Join
    <3>3. lastCall' = usbBridgeUID
      BY <1>5, <2>2, <2>3, <3>1, <3>2 DEF Join, WorkerKnows, LastCounts
    <3> QED
      BY <2>3, <2>4, <3>1, <3>2, <3>3, LastOf
  <2>10. ThreadsAgree'
    BY <1>5, <2>2 DEF Join, WorkerKnows, Kept, ThreadsAgree
  <2>11. FrameKept'
    BY <1>5, <2>2 DEF Join, WorkerKnows, Kept, ThreadsAgree, FrameKept
  <2>12. WholeFrames'
    BY <1>0, <1>5, <2>2 DEF Join, WorkerKnows, Kept, WholeFrames
  <2>13. FramesOrdered'
    BY <1>5, <2>2, FrameParts DEF Join, WorkerKnows, Kept, ThreadsAgree, FramesOrdered
  <2> QED
    BY <2>8, <2>9, <2>10, <2>11, <2>12, <2>13 DEF Kept
<1>6. ASSUME NEW t \in Controllers, Prepare(t)
      PROVE  Kept'
  <2>1. \A u \in Controllers \ {t} : ~Working(u)
    BY <1>0, <1>6, OthersWait DEF Control, Kept
  <2>2. /\ Working(t) /\ WorkerKnows(t)
        /\ ctl[t].next # "idle" => ctl[t].uid # 0
    BY <1>6 DEF Prepare, Working, Kept, ControlKnows
  <2>3. /\ ctl'[t].uid = ctl[t].uid /\ ctl'[t].next = ctl[t].next
        /\ \/ ctl'[t].pc = "idle" /\ UNCHANGED <<senderStop, snd>>
           \/ /\ ctl'[t].pc = "create" /\ deviceId' = ctl[t].uid /\ ~senderStop'
              /\ snd'.pc = "lock"
    BY <1>6, <2>2, FrameParts DEF Prepare, Goto, Control1, WorkerKnows
  <2>4. \A u \in Controllers \ {t} : ctl'[u] = ctl[u]
    BY <1>6, <2>2, FrameParts DEF Prepare, Goto, WorkerKnows
  <2>5. Working(t)' => WorkerKnows(t)'
    BY <1>6, <2>2, <2>3 DEF Prepare, WorkerKnows, Working
  <2>6. ~Working(t)' => Rest'
    BY <1>6, <2>2, <2>3 DEF Prepare, WorkerKnows, Working, Rest
  <2>7. (active # 0 => active = deviceId)'
    BY <1>6, <2>2, <2>3 DEF Prepare, WorkerKnows, Kept, ControlKnows
  <2>8. OneWorks' /\ ControlKnows'
    <3>1. (ctl[t].pc # "idle" /\ ctl[t].next # "idle" => ctl[t].uid # 0)'
      BY <2>2, <2>3
    <3> QED
      BY <2>1, <2>4, <2>5, <2>6, <2>7, <3>1, ControlOf DEF Kept
  <2>9. ASSUME overlap' = "none" PROVE LastCounts'
    <3>1. LastCounts
      BY <2>9, StaysInterleaved DEF Kept
    <3>2. ctl[t].pc = "start" /\ usbBridgeUID' = usbBridgeUID
      BY <1>6 DEF Prepare
    <3>3. lastCall' = usbBridgeUID
      BY <1>6, <2>2, <2>3, <3>1, <3>2 DEF Prepare, WorkerKnows, LastCounts
    <3> QED
      BY <2>3, <2>4, <3>1, <3>2, <3>3, LastOf
  <2>10. ThreadsAgree'
    BY <1>6, <2>2 DEF Prepare, WorkerKnows, Kept, ThreadsAgree
  <2>11. FrameKept'
    BY <1>6, <2>2 DEF Prepare, WorkerKnows, Kept, ThreadsAgree, FrameKept
  <2>12. WholeFrames'
    BY <1>0, <1>6, <2>2 DEF Prepare, WorkerKnows, Kept, WholeFrames
  <2>13. FramesOrdered'
    BY <1>6, <2>2, FrameParts DEF Prepare, WorkerKnows, Kept, ThreadsAgree, FramesOrdered
  <2> QED
    BY <2>8, <2>9, <2>10, <2>11, <2>12, <2>13 DEF Kept
<1>7. ASSUME NEW t \in Controllers, StartDevice(t)
      PROVE  Kept'
  <2>1. \A u \in Controllers \ {t} : ~Working(u)
    BY <1>0, <1>7, OthersWait DEF Control, Kept
  <2>2. /\ Working(t) /\ WorkerKnows(t)
        /\ ctl[t].next # "idle" => ctl[t].uid # 0
    BY <1>7 DEF StartDevice, Working, Kept, ControlKnows
  <2>3. /\ ctl'[t].uid = ctl[t].uid
        /\ \/ ctl'[t].pc = "mark" /\ ctl'[t].next = ctl[t].next /\ active' = deviceId
           \/ ctl'[t].pc = "flag" /\ ctl'[t].next = "idle" /\ UNCHANGED active
    BY <1>7, FrameParts DEF StartDevice, Goto, Control1
  <2>4. \A u \in Controllers \ {t} : ctl'[u] = ctl[u]
    BY <1>7, FrameParts DEF StartDevice, Goto
  <2>5. Working(t)' => WorkerKnows(t)'
    BY <1>7, <2>2, <2>3 DEF StartDevice, WorkerKnows, Working
  <2>6. ~Working(t)' => Rest'
    BY <1>7, <2>2, <2>3 DEF StartDevice, WorkerKnows, Working, Rest
  <2>7. (active # 0 => active = deviceId)'
    BY <1>7, <2>2, <2>3 DEF StartDevice, WorkerKnows, Kept, ControlKnows
  <2>8. OneWorks' /\ ControlKnows'
    <3>1. (ctl[t].pc # "idle" /\ ctl[t].next # "idle" => ctl[t].uid # 0)'
      BY <2>2, <2>3
    <3> QED
      BY <2>1, <2>4, <2>5, <2>6, <2>7, <3>1, ControlOf DEF Kept
  <2>9. ASSUME overlap' = "none" PROVE LastCounts'
    <3>1. LastCounts
      BY <2>9, StaysInterleaved DEF Kept
    <3>2. ctl[t].pc = "create" /\ usbBridgeUID' = usbBridgeUID
      BY <1>7 DEF StartDevice
    <3>3. lastCall' = usbBridgeUID
      BY <1>7, <2>2, <2>3, <3>1, <3>2 DEF StartDevice, WorkerKnows, LastCounts
    <3> QED
      BY <2>3, <2>4, <3>1, <3>2, <3>3, LastOf
  <2>10. ThreadsAgree'
    BY <1>7, <2>2 DEF StartDevice, WorkerKnows, Kept, ThreadsAgree
  <2>11. FrameKept'
    BY <1>7, <2>2 DEF StartDevice, WorkerKnows, Kept, ThreadsAgree, FrameKept
  <2>12. WholeFrames'
    BY <1>0, <1>7, <2>2 DEF StartDevice, WorkerKnows, Kept, WholeFrames
  <2>13. FramesOrdered'
    BY <1>7, <2>2, FrameParts DEF StartDevice, WorkerKnows, Kept, ThreadsAgree, FramesOrdered
  <2> QED
    BY <2>8, <2>9, <2>10, <2>11, <2>12, <2>13 DEF Kept
<1>8. ASSUME NEW t \in Controllers, MarkRunning(t)
      PROVE  Kept'
  <2>1. \A u \in Controllers \ {t} : ~Working(u)
    BY <1>0, <1>8, OthersWait DEF Control, Kept
  <2>2. /\ Working(t) /\ WorkerKnows(t)
        /\ ctl[t].next # "idle" => ctl[t].uid # 0
    BY <1>8 DEF MarkRunning, Working, Kept, ControlKnows
  <2>3. /\ ctl'[t].pc = "idle" /\ ctl'[t].uid = ctl[t].uid /\ ctl'[t].next = ctl[t].next
    BY <1>8, FrameParts DEF MarkRunning, Goto, Control1
  <2>4. \A u \in Controllers \ {t} : ctl'[u] = ctl[u]
    BY <1>8, FrameParts DEF MarkRunning, Goto
  <2>5. Working(t)' => WorkerKnows(t)'
    BY <1>8, <2>2, <2>3 DEF MarkRunning, WorkerKnows, Working
  <2>6. ~Working(t)' => Rest'
    BY <1>8, <2>2, <2>3 DEF MarkRunning, WorkerKnows, Working, Rest, Kept, ControlKnows
  <2>7. (active # 0 => active = deviceId)'
    BY <1>8, <2>2, <2>3 DEF MarkRunning, WorkerKnows, Kept, ControlKnows
  <2>8. OneWorks' /\ ControlKnows'
    <3>1. (ctl[t].pc # "idle" /\ ctl[t].next # "idle" => ctl[t].uid # 0)'
      BY <2>2, <2>3
    <3> QED
      BY <2>1, <2>4, <2>5, <2>6, <2>7, <3>1, ControlOf DEF Kept
  <2>9. ASSUME overlap' = "none" PROVE LastCounts'
    <3>1. LastCounts
      BY <2>9, StaysInterleaved DEF Kept
    <3>2. ctl[t].pc = "mark" /\ usbBridgeUID' = usbBridgeUID
      BY <1>8 DEF MarkRunning
    <3>3. lastCall' = usbBridgeUID
      BY <1>8, <2>2, <2>3, <3>1, <3>2 DEF MarkRunning, WorkerKnows, LastCounts
    <3> QED
      BY <2>3, <2>4, <3>1, <3>2, <3>3, LastOf
  <2>10. ThreadsAgree'
    BY <1>8, <2>2 DEF MarkRunning, WorkerKnows, Kept, ThreadsAgree
  <2>11. FrameKept'
    BY <1>8, <2>2 DEF MarkRunning, WorkerKnows, Kept, ThreadsAgree, FrameKept
  <2>12. WholeFrames'
    BY <1>0, <1>8, <2>2 DEF MarkRunning, WorkerKnows, Kept, WholeFrames
  <2>13. FramesOrdered'
    BY <1>8, <2>2, FrameParts DEF MarkRunning, WorkerKnows, Kept, ThreadsAgree, FramesOrdered
  <2> QED
    BY <2>8, <2>9, <2>10, <2>11, <2>12, <2>13 DEF Kept
<1>9. CASE IoCalled
  <2>1. OneWorks' /\ ControlKnows' /\ (overlap' = "none" => LastCounts')
    BY <1>9, ControlStays DEF IoCalled
  <2>2. ThreadsAgree'
    BY <1>9 DEF IoCalled, Kept, ThreadsAgree
  <2>3. FrameKept'
    BY <1>9 DEF IoCalled, Kept, FrameKept, WholeFrames
  <2>4. WholeFrames'
    BY <1>0, <1>9 DEF IoCalled, Kept, WholeFrames
  <2>5. FramesOrdered'
    BY <1>9, FrameParts DEF IoCalled, Kept, Frames, FramesOrdered
  <2> QED
    BY <2>1, <2>2, <2>3, <2>4, <2>5 DEF Kept
<1>10. CASE TryLock
  <2>1. OneWorks' /\ ControlKnows' /\ (overlap' = "none" => LastCounts')
    BY <1>10, ControlStays DEF TryLock
  <2>2. ThreadsAgree'
    BY <1>10, FrameParts DEF TryLock, Kept, IoStates, ThreadsAgree
  <2>3. FrameKept'
    BY <1>10, FrameParts DEF TryLock, Kept, IoStates, FrameKept
  <2>4. WholeFrames'
    BY <1>0, <1>10 DEF TryLock, Kept, WholeFrames
  <2>5. FramesOrdered'
    BY <1>10, FrameParts DEF TryLock, Kept, IoStates, FramesOrdered
  <2> QED
    BY <2>1, <2>2, <2>3, <2>4, <2>5 DEF Kept
<1>11. CASE StoreHalf
  <2>1. OneWorks' /\ ControlKnows' /\ (overlap' = "none" => LastCounts')
    BY <1>11, ControlStays DEF StoreHalf
  <2>2. ThreadsAgree'
    BY <1>11 DEF StoreHalf, Kept, ThreadsAgree
  <2>3. FrameKept'
    BY <1>11, FrameParts DEF StoreHalf, Kept, FrameKept
  <2>4. WholeFrames'
    BY <1>0, <1>11 DEF StoreHalf, Kept, WholeFrames
  <2>5. FramesOrdered'
    BY <1>11 DEF StoreHalf, Kept, FrameKept, FramesOrdered
  <2> QED
    BY <2>1, <2>2, <2>3, <2>4, <2>5 DEF Kept
<1>12. CASE StoreRest
  <2>0. snd.pc \notin {"none", "exited"} /\ active = deviceId
    BY <1>12, SenderIsThere DEF StoreRest, Kept, ControlKnows, ThreadsAgree
  <2>1. OneWorks' /\ ControlKnows' /\ (overlap' = "none" => LastCounts')
    BY <1>12, ControlStays DEF StoreRest, Woken
  <2>2. ThreadsAgree'
    BY <1>12, <2>0 DEF StoreRest, Woken, Kept, ThreadsAgree
  <2>3. FrameKept'
    BY <1>12, <2>0, FrameParts DEF StoreRest, Woken, Kept, ThreadsAgree, FrameKept
  <2>4. WholeFrames'
    BY <1>0, <1>12 DEF StoreRest, Woken, Kept, WholeFrames
  <2>5. FramesOrdered'
    BY <1>12, FrameParts DEF StoreRest, Woken, Kept, FrameKept, FramesOrdered
  <2> QED
    BY <2>1, <2>2, <2>3, <2>4, <2>5 DEF Kept
<1>13. CASE Acquire
  <2>1. OneWorks' /\ ControlKnows' /\ (overlap' = "none" => LastCounts')
    BY <1>13, ControlStays DEF Acquire
  <2>2. ThreadsAgree'
    BY <1>13 DEF Acquire, Kept, ThreadsAgree
  <2>3. FrameKept'
    BY <1>13 DEF Acquire, Kept, FrameKept
  <2>4. WholeFrames'
    BY <1>0, <1>13 DEF Acquire, WholeFrames
  <2>5. FramesOrdered'
    BY <1>13 DEF Acquire, Kept, FramesOrdered
  <2> QED
    BY <2>1, <2>2, <2>3, <2>4, <2>5 DEF Kept
<1>14. CASE Check
  <2>1. OneWorks' /\ ControlKnows' /\ (overlap' = "none" => LastCounts')
    BY <1>14, ControlStays DEF Check
  <2>2. ThreadsAgree'
    BY <1>14 DEF Check, Kept, ThreadsAgree
  <2>3. FrameKept'
    BY <1>14 DEF Check, Kept, FrameKept
  <2>4. WholeFrames'
    BY <1>0, <1>14 DEF Check, WholeFrames
  <2>5. FramesOrdered'
    BY <1>14 DEF Check, Kept, FramesOrdered
  <2> QED
    BY <2>1, <2>2, <2>3, <2>4, <2>5 DEF Kept
<1>15. CASE Block
  <2>1. OneWorks' /\ ControlKnows' /\ (overlap' = "none" => LastCounts')
    BY <1>15, ControlStays DEF Block
  <2>2. ThreadsAgree'
    BY <1>15 DEF Block, Kept, ThreadsAgree
  <2>3. FrameKept'
    BY <1>15 DEF Block, Kept, FrameKept
  <2>4. WholeFrames'
    BY <1>0, <1>15 DEF Block, WholeFrames
  <2>5. FramesOrdered'
    BY <1>15 DEF Block, Kept, FramesOrdered
  <2> QED
    BY <2>1, <2>2, <2>3, <2>4, <2>5 DEF Kept
<1>16. CASE Spurious
  <2>1. OneWorks' /\ ControlKnows' /\ (overlap' = "none" => LastCounts')
    BY <1>16, ControlStays DEF Spurious, Woken
  <2>2. ThreadsAgree'
    BY <1>16 DEF Spurious, Woken, Kept, ThreadsAgree
  <2>3. FrameKept'
    BY <1>16 DEF Spurious, Woken, Kept, FrameKept
  <2>4. WholeFrames'
    BY <1>0, <1>16 DEF Spurious, Woken, WholeFrames
  <2>5. FramesOrdered'
    BY <1>16 DEF Spurious, Woken, Kept, FramesOrdered
  <2> QED
    BY <2>1, <2>2, <2>3, <2>4, <2>5 DEF Kept
<1>17. CASE CopyHalf
  <2>1. OneWorks' /\ ControlKnows' /\ (overlap' = "none" => LastCounts')
    BY <1>17, ControlStays DEF CopyHalf
  <2>2. ThreadsAgree'
    BY <1>17 DEF CopyHalf, Kept, ThreadsAgree
  <2>3. FrameKept'
    BY <1>17, FrameParts DEF CopyHalf, Kept, FrameKept
  <2>4. WholeFrames'
    BY <1>0, <1>17 DEF CopyHalf, WholeFrames
  <2>5. FramesOrdered'
    BY <1>17 DEF CopyHalf, Kept, FramesOrdered
  <2> QED
    BY <2>1, <2>2, <2>3, <2>4, <2>5 DEF Kept
<1>18. CASE CopyRest
  <2>1. OneWorks' /\ ControlKnows' /\ (overlap' = "none" => LastCounts')
    BY <1>18, ControlStays DEF CopyRest
  <2>2. ThreadsAgree'
    BY <1>18 DEF CopyRest, Kept, ThreadsAgree
  <2>3. FrameKept'
    BY <1>0, <1>18 DEF CopyRest, TypeOK, FrameKept
  <2>4. WholeFrames'
    BY <1>0, <1>18, FrameParts DEF CopyRest, Kept, FrameKept, WholeFrames
  <2>5. FramesOrdered'
    BY <1>18 DEF CopyRest, Kept, FrameKept, FramesOrdered
  <2> QED
    BY <2>1, <2>2, <2>3, <2>4, <2>5 DEF Kept
<1>19. CASE Send
  <2>1. OneWorks' /\ ControlKnows' /\ (overlap' = "none" => LastCounts')
    BY <1>19, ControlStays DEF Send
  <2>2. ThreadsAgree'
    BY <1>19 DEF Send, Kept, ThreadsAgree
  <2>3. FrameKept'
    BY <1>19 DEF Send, Kept, FrameKept
  <2>4. WholeFrames'
    BY <1>0, <1>19 DEF Send, WholeFrames
  <2>5. FramesOrdered'
    BY <1>19 DEF Send, Kept, FramesOrdered
  <2> QED
    BY <2>1, <2>2, <2>3, <2>4, <2>5 DEF Kept
<1>20. CASE UNCHANGED vars
  <2>1. OneWorks' /\ ControlKnows' /\ (overlap' = "none" => LastCounts')
    BY <1>20, ControlStays DEF vars
  <2>2. ThreadsAgree' /\ FrameKept' /\ FramesOrdered'
    BY <1>20 DEF vars, Kept, ThreadsAgree, FrameKept, FramesOrdered
  <2>3. WholeFrames'
    BY <1>0, <1>20 DEF vars, Kept, WholeFrames
  <2> QED
    BY <2>1, <2>2, <2>3 DEF Kept
<1> QED
  BY <1>1, <1>2, <1>3, <1>4, <1>5, <1>6, <1>7, <1>8, <1>9, <1>10, <1>11, <1>12, <1>13, <1>14,
     <1>15, <1>16, <1>17, <1>18, <1>19, <1>20 DEF Next, Control, IoProc, Sender

-----------------------------------------------------------------------------
\* What the threads know of each other is inductive, wherever a second thread selects
\* a bridge, until it begins to stop or start the capture in the middle of a call.
THEOREM CaptureInvariant == Spec => []CaptureInv
<1>1. Init => CaptureInv
  <2> SUFFICES ASSUME Init PROVE CaptureInv
    OBVIOUS
  <2>1. TypeOK
    BY InitType
  <2>2. /\ \A t \in Controllers : ctl[t] = IdleCtl
        /\ active = 0 /\ running = FALSE /\ io.pc = "idle" /\ snd.pc = "none"
        /\ callback = FALSE /\ senderHasData = FALSE /\ senderStop = FALSE
        /\ sent.n = 0 /\ captured = 0 /\ lastCall = 0 /\ usbBridgeUID = 0
    BY DEF Init, NoFrame
  <2>3. \A t \in Controllers : ctl[t].pc = "idle" /\ ~Working(t)
    BY <2>2 DEF IdleCtl, Working
  <2>4. OneWorks /\ ControlKnows /\ LastCounts /\ ThreadsAgree
    BY <2>2, <2>3 DEF OneWorks, ControlKnows, LastCounts, ThreadsAgree
  <2>5. FrameKept /\ WholeFrames /\ FramesOrdered
    BY <2>2 DEF FrameKept, WholeFrames, FramesOrdered
  <2> QED
    BY <2>1, <2>4, <2>5 DEF CaptureInv, Kept
<1>2. CaptureInv /\ [Next]_vars => CaptureInv'
  BY TypeStep, CaptureStep, StaysInterleaved DEF CaptureInv
<1> QED
  BY <1>1, <1>2, PTL DEF Spec

\* The sender sends whole frames of the device captured now.
THEOREM FramesAreWhole == Spec => []WholeFrames
<1>1. CaptureInv => WholeFrames
  BY DEF CaptureInv, Kept, WholeFrames
<1> QED
  BY <1>1, CaptureInvariant, PTL

\* A thread that selects a bridge while another is at it cannot bring the program to
\* replace a sender that was not joined, unless their calls interleave.
THEOREM SenderIsJoined == Spec => []OneSender
<1>1. CaptureInv => OneSender
  <2> SUFFICES ASSUME CaptureInv, ~Interleaved, NEW t \in Controllers, ctl[t].pc = "crashed"
               PROVE  FALSE
    BY DEF OneSender
  <2>1. Working(t)
    BY DEF Working
  <2> QED
    BY <2>1 DEF CaptureInv, Kept, ControlKnows, WorkerKnows
<1> QED
  BY <1>1, CaptureInvariant, PTL

\* Whichever threads select bridges, and in whichever order their calls begin, what
\* is captured in the end is the bridge of the call that began last: the one selected
\* last, unless it was selected during another selection.
THEOREM SelectionHolds == Spec => []CaptureFollowsBridge
<1>1. CaptureInv => CaptureFollowsBridge
  <2> SUFFICES ASSUME CaptureInv, AllIdle, ~Interleaved
               PROVE  /\ active \in {0, lastCall} /\ (running <=> active # 0)
                      /\ overlap = "none" => lastCall = usbBridgeUID
    BY DEF CaptureFollowsBridge
  <2>1. Kept
    BY DEF CaptureInv
  <2>2. \A t \in Controllers : ~Working(t)
    BY DEF AllIdle, Working
  <2> QED
    BY <2>1, <2>2 DEF Kept, ControlKnows, LastCounts
<1> QED
  BY <1>1, CaptureInvariant, PTL

\* Each frame sent is later than the one before.
THEOREM FramesInOrder == Spec => InOrder
<1>1. ASSUME CaptureInv, [Next]_vars, snd.pc = "send", snd' # snd, ~Interleaved
      PROVE  sent'.n > sent.n
  <2> USE DEF control, session, handoff
  <2>0. Kept /\ TypeOK
    BY <1>1 DEF CaptureInv
  <2>1. CASE Send
    BY <1>1, <2>0, <2>1, FrameParts DEF Send, Kept, ThreadsAgree, FramesOrdered, Frames
  <2>2. ASSUME NEW t \in Controllers, Join(t) \/ Prepare(t) PROVE FALSE
    BY <1>1, <2>2 DEF Join, Prepare
  <2> QED
    BY <1>1, <2>1, <2>2 DEF Next, Control, IoProc, Sender, vars, Select, Halt, RaiseStop,
       NotifyStop, StartDevice, MarkRunning, IoCalled, TryLock, StoreHalf, StoreRest, Acquire,
       Check, Block, Spurious, CopyHalf, CopyRest, Woken
<1> QED
  BY <1>1, CaptureInvariant, PTL DEF Spec, InOrder

=============================================================================
