----------------------------- MODULE DeviceClock -----------------------------
(***************************************************************************)
(* The clock of the virtual device: GetZeroTimeStampImpl of                *)
(* driver/GLA_UnifiedDevice.h.  Threads of the HAL ask for the zero time   *)
(* stamp, a period's number and the host time at which it began.  Anchor   *)
(* and period counter are shared: each load and each store is a step, and  *)
(* none is a compare-and-swap.                                             *)
(*                                                                         *)
(* A period lasts Num / Den host ticks (512 samples at 48 kHz are 256000   *)
(* or 32000000 / 3 ticks), a positive constant: the guards for anything    *)
(* else are left out.  Arithmetic in double is taken to be exact.          *)
(***************************************************************************)
EXTENDS Integers

CONSTANTS Threads,      \* the HAL threads that ask
          Num, Den,     \* the ticks of a period
          MaxTime,      \* bound: host ticks
          RacedStart    \* TRUE: threads may ask at once before there is an anchor

VARIABLES
  time,                 \* mach_absolute_time()
  anchorHostTime,       \* 0: not set
  periodCounter,
  pc,                   \* where each thread is in its call
  anchor, now, ctr,     \* its locals
  latest,               \* history: the last period ever returned
  since                 \* history: latest, when the call began

locals == <<anchor, now, ctr>>
vars   == <<time, anchorHostTime, periodCounter, pc, locals, latest, since>>

Init ==
  /\ time = 1 /\ anchorHostTime = 0 /\ periodCounter = 0
  /\ pc = [t \in Threads |-> "idle"]
  /\ anchor = [t \in Threads |-> 0] /\ now = anchor /\ ctr = anchor
  /\ latest = 0 /\ since = anchor

\* Periods begun in so many ticks, and ticks in so many periods.
Periods(ticks) == (ticks * Den) \div Num
Ticks(periods) == (periods * Num) \div Den

-----------------------------------------------------------------------------
Tick ==
  /\ time < MaxTime
  /\ time' = time + 1
  /\ UNCHANGED <<anchorHostTime, periodCounter, pc, locals, latest, since>>

Ask(t) ==
  /\ pc[t] = "idle"
  /\ RacedStart \/ anchorHostTime # 0 \/ \A u \in Threads : pc[u] = "idle"
  /\ pc' = [pc EXCEPT ![t] = "load"]
  /\ since' = [since EXCEPT ![t] = latest]
  /\ UNCHANGED <<time, anchorHostTime, periodCounter, locals, latest>>

LoadAnchor(t) ==
  /\ pc[t] = "load"
  /\ anchor' = [anchor EXCEPT ![t] = anchorHostTime]
  /\ pc' = [pc EXCEPT ![t] = IF anchorHostTime = 0 THEN "make" ELSE "look"]
  /\ UNCHANGED <<time, anchorHostTime, periodCounter, now, ctr, latest, since>>

MakeAnchor(t) ==
  /\ pc[t] = "make"
  /\ anchor' = [anchor EXCEPT ![t] = time]
  /\ pc' = [pc EXCEPT ![t] = "store"]
  /\ UNCHANGED <<time, anchorHostTime, periodCounter, now, ctr, latest, since>>

StoreAnchor(t) ==
  /\ pc[t] = "store"
  /\ anchorHostTime' = anchor[t]
  /\ pc' = [pc EXCEPT ![t] = "look"]
  /\ UNCHANGED <<time, periodCounter, locals, latest, since>>

LookAtTime(t) ==
  /\ pc[t] = "look"
  /\ now' = [now EXCEPT ![t] = time]
  /\ pc' = [pc EXCEPT ![t] = "count"]
  /\ UNCHANGED <<time, anchorHostTime, periodCounter, anchor, ctr, latest, since>>

\* The period that time t saw is in.
NewCtr(t) == IF now[t] >= anchor[t] THEN Periods(now[t] - anchor[t]) ELSE 0

LoadCounter(t) ==
  /\ pc[t] = "count"
  /\ \/ /\ NewCtr(t) > periodCounter
        /\ ctr' = [ctr EXCEPT ![t] = NewCtr(t)]
        /\ pc' = [pc EXCEPT ![t] = "advance"]
     \/ /\ NewCtr(t) <= periodCounter
        /\ ctr' = [ctr EXCEPT ![t] = periodCounter]
        /\ pc' = [pc EXCEPT ![t] = "stamp"]
  /\ UNCHANGED <<time, anchorHostTime, periodCounter, anchor, now, latest, since>>

\* Another thread may have stored a later period meanwhile.
StoreCounter(t) ==
  /\ pc[t] = "advance"
  /\ periodCounter' = ctr[t]
  /\ pc' = [pc EXCEPT ![t] = "stamp"]
  /\ UNCHANGED <<time, anchorHostTime, locals, latest, since>>

HostTime(t) == anchor[t] + Ticks(ctr[t])

Return(t) ==
  /\ pc[t] = "stamp"
  /\ latest' = IF ctr[t] > latest THEN ctr[t] ELSE latest
  /\ pc' = [pc EXCEPT ![t] = "idle"]
  /\ UNCHANGED <<time, anchorHostTime, periodCounter, locals, since>>

GetZeroTimeStamp(t) ==
  \/ LoadAnchor(t) \/ MakeAnchor(t) \/ StoreAnchor(t) \/ LookAtTime(t)
  \/ LoadCounter(t) \/ StoreCounter(t) \/ Return(t)

Next == Tick \/ \E t \in Threads : Ask(t) \/ GetZeroTimeStamp(t)

Spec == Init /\ [][Next]_vars

-----------------------------------------------------------------------------
(* Properties                                                              *)

\* A call returns no earlier period than any call that ended before it began,
\* although the shared counter itself may go back (GLA_UnifiedDevice.h:224-227).
NeverBack == \A t \in Threads : pc[t] = "stamp" => since[t] <= ctr[t]

\* The host time of a stamp is never in the future (GLA_UnifiedDevice.h:229-230).
NeverAhead == \A t \in Threads : pc[t] = "stamp" => HostTime(t) <= time

\* Nor is it a whole period old when the call looks at the time: the counter is
\* advanced "in one shot" (GLA_UnifiedDevice.h:219-220).
NeverStale ==
  \A t \in Threads : pc[t] = "stamp" => (now[t] - anchor[t]) * Den < (ctr[t] + 1) * Num

-----------------------------------------------------------------------------
(* Why: the inductive invariant of TimingProofs                            *)

Asking == {"load", "make", "store", "look", "count", "advance", "stamp"}

TypeOK ==
  /\ time \in Nat /\ anchorHostTime \in Nat /\ periodCounter \in Nat /\ latest \in Nat
  /\ pc \in [Threads -> Asking \cup {"idle"}]
  /\ anchor \in [Threads -> Nat] /\ now \in [Threads -> Nat] /\ ctr \in [Threads -> Nat]
  /\ since \in [Threads -> Nat]

\* The period the present is in; none has begun without an anchor.
Present == IF anchorHostTime = 0 THEN 0 ELSE Periods(time - anchorHostTime)

\* The first caller is alone until it has stored the anchor; all others use it.
OneAnchor ==
  /\ 0 < time /\ anchorHostTime <= time
  /\ \A t \in Threads :
       /\ pc[t] \in {"make", "store"} => anchorHostTime = 0
       /\ pc[t] = "store" => 0 < anchor[t] /\ anchor[t] <= time
       /\ pc[t] \in {"look", "count", "advance", "stamp"} =>
            anchorHostTime # 0 /\ anchor[t] = anchorHostTime
  /\ anchorHostTime = 0 => \A t, u \in Threads : pc[t] \in Asking /\ pc[u] \in Asking => t = u

\* No period that was counted or returned is later than the present one; a call
\* that has looked at the time knows of every period returned before it began.
CountsKeepUp ==
  /\ periodCounter <= Present /\ latest <= Present
  /\ \A t \in Threads :
       /\ pc[t] \in Asking => since[t] <= Present
       /\ pc[t] \in {"count", "advance", "stamp"} =>
            anchor[t] <= now[t] /\ now[t] <= time /\ since[t] <= NewCtr(t)
       /\ pc[t] \in {"advance", "stamp"} => NewCtr(t) <= ctr[t] /\ ctr[t] <= Present

ClockInv == TypeOK /\ OneAnchor /\ CountsKeepUp
=============================================================================
