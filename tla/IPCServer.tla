------------------------------ MODULE IPCServer ------------------------------
(***************************************************************************)
(* The app's end of the local socket (app/src/GLA_IPCServer.h): a server   *)
(* thread that accepts, polls and reads clients, and the app's threads     *)
(* that broadcast to them.  Both close file descriptors.  clientsMutex     *)
(* guards the client list; an action is one region under it, or one system *)
(* call.                                                                   *)
(*                                                                         *)
(* The kernel is external: it hands out the lowest free descriptor, to an  *)
(* accepted client or to any other part of the app.  On macOS an accepted  *)
(* socket inherits O_NONBLOCK from the listening one (GLA_Socket.h:105),   *)
(* so a read of an idle socket fails and so does a write to a full one.  A *)
(* write to a client that has hung up is taken to fail, not to raise       *)
(* SIGPIPE.                                                                *)
(***************************************************************************)
EXTENDS Integers, Sequences, SequencesExt, FiniteSets

CONSTANTS Conns,      \* the connections clients make, each used once
          Fds,        \* file descriptors, smallest first
          MapValues,  \* channel maps broadcast; 0 is the empty one
          Uids,       \* bridge UIDs broadcast; 0 is the empty one
          None        \* an unused descriptor
Other == "other"      \* a descriptor some other part of the app owns

ASSUME FdsAssumption == Fds \subseteq Nat /\ IsFiniteSet(Fds) /\ IsFiniteSet(Conns)
ASSUME NamesAssumption == None \notin Conns /\ Other \notin Conns /\ None # Other
ASSUME ValuesAssumption == MapValues \subseteq Nat /\ Uids \subseteq Nat

VARIABLES
  pc,        \* the server thread in runLoop
  pfds,      \* the clients it polled, in order
  ready,     \* which of them had POLLIN
  copy, idx, \* clientsCopy and i
  victim,    \* the descriptor it is about to close and erase
  phase,     \* the app: up, stopping, stopped
  clients, currentChannelMap, currentBridgeUID,
  table,     \* the process's descriptors
  peer,      \* the other end of each connection
  inbox,     \* whether a message from it is waiting to be read
  lastMap,   \* the last map broadcast
  seen       \* the last map and UID sent on each connection

server == <<pc, pfds, ready, copy, idx, victim>>
shared == <<clients, currentChannelMap, currentBridgeUID, lastMap, seen>>
world  == <<peer, inbox>>
vars   == <<server, phase, shared, table, world>>

Nothing == [map |-> 0, uid |-> 0]

Init ==
  /\ pc = "top" /\ pfds = << >> /\ ready = << >> /\ copy = << >> /\ idx = 1 /\ victim = 0
  /\ phase = "up"
  /\ clients = << >> /\ currentChannelMap = 0 /\ currentBridgeUID = 0
  /\ table = [f \in Fds |-> None]
  /\ peer = [c \in Conns |-> "new"] /\ inbox = [c \in Conns |-> FALSE]
  /\ lastMap = 0 /\ seen = [c \in Conns |-> Nothing]

Names(f)  == IF f \in Fds THEN table[f] ELSE None
Live(c)   == c \in Conns /\ peer[c] = "connected"
Lowest    == CHOOSE f \in Fds : table[f] = None /\ \A g \in Fds : table[g] = None => f <= g
HasFree   == \E f \in Fds : table[f] = None
Waiting   == {c \in Conns : peer[c] = "waiting"}

\* Variant: a client that hangs up is not ready.
HungryInboxOnly(f) == Names(f) \in Conns /\ inbox[Names(f)]

\* poll() reports a message or a hang-up.
Hungry(f) == Names(f) \in Conns /\ (peer[Names(f)] = "gone" \/ inbox[Names(f)])

\* s without the elements of dead, in its order: the positions that are left,
\* smallest first, and what is there.
Without(s, dead) ==
  LET left == {i \in DOMAIN s : s[i] \notin dead}
      at   == CHOOSE p \in BoundedSeq(left, Len(s)) :
                Range(p) = left /\ \A j, k \in DOMAIN p : j < k => p[j] < p[k]
  IN  [k \in DOMAIN at |-> s[at[k]]]

-----------------------------------------------------------------------------
(* Broadcasts, from any thread: sendToClients under clientsMutex           *)

\* The app closes these connections: whatever their peers do is of no account.
Dropped(cs) ==
  /\ peer' = [c \in Conns |-> IF c \in cs THEN "gone" ELSE peer[c]]
  /\ inbox' = [c \in Conns |-> inbox[c] /\ c \notin cs]

\* Sends to a closed descriptor or a client that has hung up fail; others may
\* (a full buffer).  Those clients are closed; the others have now seen what
\* after says.
SendToClients(after) ==
  \E dead \in SUBSET Range(clients) :
    /\ \A f \in Range(clients) \ dead : Live(Names(f)) \/ Names(f) = Other
    /\ clients' = Without(clients, dead)
    /\ table' = [f \in Fds |-> IF f \in dead THEN None ELSE table[f]]
    /\ seen' = [c \in Conns |-> IF \E f \in Range(clients) \ dead : table[f] = c
                                THEN after[c] ELSE Nothing]
    /\ Dropped({c \in Conns : \E f \in dead : table[f] = c})

BroadcastChannelMap == \E m \in MapValues :
  /\ phase # "stopped"
  /\ currentChannelMap' = IF m = 0 THEN currentChannelMap ELSE m
  /\ lastMap' = m
  /\ SendToClients([c \in Conns |-> [seen[c] EXCEPT !.map = m]])
  /\ UNCHANGED <<server, phase, currentBridgeUID>>

BroadcastUSBBridge == \E u \in Uids :
  /\ phase # "stopped"
  /\ currentBridgeUID' = u
  /\ SendToClients([c \in Conns |-> [seen[c] EXCEPT !.uid = u]])
  /\ UNCHANGED <<server, phase, currentChannelMap, lastMap>>

\* sendAudioData and broadcastEntityList: nothing is kept.
BroadcastOther ==
  /\ phase # "stopped"
  /\ SendToClients(seen)
  /\ UNCHANGED <<server, phase, currentChannelMap, currentBridgeUID, lastMap>>

-----------------------------------------------------------------------------
(* The server thread: runLoop                                              *)

Snapshot ==
  /\ pc = "top" /\ phase = "up"
  /\ pfds' = clients
  /\ pc' = "poll"
  /\ UNCHANGED <<ready, copy, idx, victim, phase, shared, table, world>>

\* `running` is false: the thread ends.
LeaveLoop ==
  /\ pc = "top" /\ phase = "stopping"
  /\ pc' = "done"
  /\ UNCHANGED <<pfds, ready, copy, idx, victim, phase, shared, table, world>>

\* Variant: newcomers wait until no client is ready.
AfterPollClientsFirst(newcomer, active) ==
  IF active THEN "copy" ELSE IF newcomer THEN "accept" ELSE "top"

\* Variant: poll() has no timeout.
AfterPollForever(newcomer, active) ==
  IF newcomer THEN "accept" ELSE IF active THEN "copy" ELSE "poll"

\* What poll() leads to; "top" when it times out.
AfterPoll(newcomer, active) ==
  IF newcomer THEN "accept" ELSE IF active THEN "copy" ELSE "top"

\* A stale descriptor is not ready, unless it names something else by now.
Poll ==
  /\ pc = "poll"
  /\ ready' \in [1..Len(pfds) -> BOOLEAN]
  /\ \A i \in 1..Len(pfds) : Names(pfds[i]) # Other => ready'[i] = Hungry(pfds[i])
  /\ pc' = AfterPoll(Waiting # {} /\ phase = "up", TRUE \in Range(ready'))
  /\ UNCHANGED <<pfds, copy, idx, victim, phase, shared, table, world>>

\* Variant: a new client gets the bridge UID only.
GreetingWithoutMap == [map |-> 0, uid |-> currentBridgeUID]

\* A new client is sent the bridge UID and the map, if they are known.
Greeting == [map |-> currentChannelMap, uid |-> currentBridgeUID]

Accept ==
  /\ pc = "accept"
  /\ \/ \E c \in Waiting :
          /\ phase = "up" /\ HasFree
          /\ table' = [table EXCEPT ![Lowest] = c]
          /\ clients' = Append(clients, Lowest)
          /\ peer' = [peer EXCEPT ![c] = "connected"]
          /\ seen' = [seen EXCEPT ![c] = Greeting]
     \/ /\ Waiting = {} \/ phase # "up" \/ ~HasFree
        /\ UNCHANGED <<table, clients, peer, seen>>
  /\ pc' = "copy"
  /\ UNCHANGED <<pfds, ready, copy, idx, victim, phase, currentChannelMap,
                 currentBridgeUID, lastMap, inbox>>

CopyClients ==
  /\ pc = "copy"
  /\ copy' = clients /\ idx' = 1
  /\ pc' = "loop"
  /\ UNCHANGED <<pfds, ready, victim, phase, shared, table, world>>

InLoop == pc = "loop" /\ idx <= Len(copy) /\ idx <= Len(pfds)

SkipClient ==
  /\ InLoop /\ ~ready[idx]
  /\ idx' = idx + 1
  /\ UNCHANGED <<pc, pfds, ready, copy, victim, phase, shared, table, world>>

\* A message: its handler changes nothing here (it may broadcast).
ReadClient ==
  /\ InLoop /\ ready[idx]
  /\ \/ /\ Names(copy[idx]) \in Conns
        /\ inbox[Names(copy[idx])]
        /\ inbox' = [inbox EXCEPT ![Names(copy[idx])] = FALSE]
     \/ Names(copy[idx]) = Other /\ UNCHANGED inbox
  /\ idx' = idx + 1
  /\ UNCHANGED <<pc, pfds, ready, copy, victim, phase, shared, table, peer>>

\* read() fails at once: end of file, no such descriptor, or nothing to read.
NothingToRead(f) == Names(f) \in Conns => ~inbox[Names(f)]

ReadFails ==
  /\ InLoop /\ ready[idx]
  /\ NothingToRead(copy[idx])
  /\ victim' = copy[idx]
  /\ pc' = "close"
  /\ UNCHANGED <<pfds, ready, copy, idx, phase, shared, table, world>>

\* Variant: the client is only taken off the list.
CloseForgotten ==
  /\ pc = "close"
  /\ pc' = "erase"
  /\ UNCHANGED <<pfds, ready, copy, idx, victim, phase, shared, table, world>>

CloseVictim ==
  /\ pc = "close"
  /\ table' = [table EXCEPT ![victim] = None]
  /\ pc' = "erase"
  /\ Dropped({table[victim]} \cap Conns)
  /\ seen' = [c \in Conns |-> IF c = table[victim] THEN Nothing ELSE seen[c]]
  /\ UNCHANGED <<pfds, ready, copy, idx, victim, phase, clients, currentChannelMap,
                 currentBridgeUID, lastMap>>

\* Variant: the closed descriptor stays in the list.
EraseForgotten ==
  /\ pc = "erase"
  /\ idx' = idx + 1 /\ victim' = 0
  /\ pc' = "loop"
  /\ UNCHANGED <<pfds, ready, copy, phase, shared, table, world>>

EraseVictim ==
  /\ pc = "erase"
  /\ clients' = Without(clients, {victim})
  /\ idx' = idx + 1 /\ victim' = 0
  /\ pc' = "loop"
  /\ UNCHANGED <<pfds, ready, copy, phase, currentChannelMap, currentBridgeUID,
                 lastMap, seen, table, world>>

EndLoop ==
  /\ pc = "loop" /\ ~InLoop
  /\ pc' = "top" /\ copy' = << >> /\ pfds' = << >> /\ ready' = << >> /\ idx' = 1
  /\ UNCHANGED <<victim, phase, shared, table, world>>

-----------------------------------------------------------------------------
(* stop()                                                                  *)

Stop ==
  /\ phase = "up"
  /\ phase' = "stopping"
  /\ UNCHANGED <<server, shared, table, world>>

\* The thread has been joined.
StopJoined ==
  /\ phase = "stopping" /\ pc = "done"
  /\ phase' = "stopped"
  /\ table' = [f \in Fds |-> IF f \in Range(clients) THEN None ELSE table[f]]
  /\ clients' = << >>
  /\ Dropped({c \in Conns : \E f \in Range(clients) : table[f] = c})
  /\ seen' = [c \in Conns |-> Nothing]
  /\ UNCHANGED <<server, currentChannelMap, currentBridgeUID, lastMap>>

-----------------------------------------------------------------------------
(* Clients, and the rest of the app                                        *)

Connect == \E c \in Conns :
  /\ peer[c] = "new" /\ phase = "up"
  /\ peer' = [peer EXCEPT ![c] = "waiting"]
  /\ UNCHANGED <<server, phase, shared, table, inbox>>

PeerSends == \E c \in Conns :
  /\ Live(c) /\ ~inbox[c]
  /\ inbox' = [inbox EXCEPT ![c] = TRUE]
  /\ UNCHANGED <<server, phase, shared, table, peer>>

HangUp == \E c \in Conns :
  /\ Live(c)
  /\ peer' = [peer EXCEPT ![c] = "gone"]
  /\ UNCHANGED <<server, phase, shared, table, inbox>>

\* Another part of the app opens or closes one descriptor of its own.
OtherOpens ==
  /\ HasFree /\ \A f \in Fds : table[f] # Other
  /\ table' = [table EXCEPT ![Lowest] = Other]
  /\ UNCHANGED <<server, phase, shared, world>>

OtherCloses ==
  /\ \E f \in Fds : table[f] = Other /\ table' = [table EXCEPT ![f] = None]
  /\ UNCHANGED <<server, phase, shared, world>>

Broadcast == BroadcastChannelMap \/ BroadcastUSBBridge \/ BroadcastOther
RunLoop   == \/ Snapshot \/ LeaveLoop \/ Poll \/ Accept \/ CopyClients \/ SkipClient
             \/ ReadClient \/ ReadFails \/ CloseVictim \/ EraseVictim \/ EndLoop
Outside   == Connect \/ PeerSends \/ HangUp \/ OtherOpens \/ OtherCloses

Next == Broadcast \/ RunLoop \/ Stop \/ StopJoined \/ Outside

\* The server thread keeps running and stop(), once called, goes on.  Nobody
\* has to broadcast, connect, send, hang up or call stop().
Spec     == Init /\ [][Next]_vars
FairSpec == Spec /\ WF_vars(RunLoop) /\ WF_vars(StopJoined)

-----------------------------------------------------------------------------
(* Properties                                                              *)

\* Every variable has its type, and the client list has no duplicates.
TypeOK ==
  /\ pc \in {"top", "poll", "accept", "copy", "loop", "close", "erase", "done"}
  /\ pfds \in Seq(Fds) /\ ready \in Seq(BOOLEAN) /\ copy \in Seq(Fds)
  /\ idx \in Nat \ {0} /\ victim \in Fds \cup {0}
  /\ phase \in {"up", "stopping", "stopped"}
  /\ clients \in Seq(Fds) /\ IsInjective(clients)
  /\ currentChannelMap \in MapValues \cup {0} /\ lastMap \in MapValues \cup {0}
  /\ currentBridgeUID \in Uids \cup {0}
  /\ table \in [Fds -> Conns \cup {None, Other}]
  /\ peer \in [Conns -> {"new", "waiting", "connected", "gone"}]
  /\ inbox \in [Conns -> BOOLEAN]
  /\ seen \in [Conns -> [map: MapValues \cup {0}, uid: Uids \cup {0}]]

\* No client misses a map or a bridge, however its connection races with a
\* broadcast: the last map sent to a listed client is the last one broadcast,
\* or, if it joined after an empty one, the map cached for newcomers; the last
\* UID is the current one (GLA_IPCServer.h:74-84, 158-166).
ClientsUpToDate ==
  \A f \in Range(clients) : table[f] \in Conns =>
    /\ seen[table[f]].map = lastMap \/ (lastMap = 0 /\ seen[table[f]].map = currentChannelMap)
    /\ seen[table[f]].uid = currentBridgeUID

\* No descriptor leaks and no client is lost: a descriptor is listed exactly
\* while it names a client, except the one the server thread has closed and is
\* about to erase.
ListedExactly ==
  \A f \in Fds : /\ table[f] \in Conns => f \in Range(clients)
                 /\ f \in Range(clients) /\ table[f] \notin Conns => pc = "erase" /\ f = victim

\* The server thread disconnects only a client that has hung up: readiness is
\* never attributed to another client than the one that was polled
\* (GLA_IPCServer.h:170-173, 189-192).
OnlyGoneDisconnected == pc = "close" => ~Live(Names(victim))

\* The server thread closes no descriptor that belongs to another part of the
\* app (GLA_IPCServer.h:192; GLA_IPCClient.h:84-86).
NoForeignClose == pc = "close" => Names(victim) # Other

\* While the server is up every connection that waits is taken, whatever the
\* other clients do.
NewcomersServed ==
  \A c \in Conns : peer[c] = "waiting" ~> peer[c] # "waiting" \/ phase # "up"

\* A client that has hung up does not stay in the list.
GoneAreDropped ==
  \A c \in Conns : peer[c] = "gone" ~> \A f \in Range(clients) : table[f] # c

\* stop() returns: the server thread sees `running` go false within a poll
\* (GLA_IPCServer.h:148).
StopReturns == phase = "stopping" ~> phase = "stopped"

-----------------------------------------------------------------------------
(* Why: the inductive invariant of IPCServerProofs                         *)

\* The server thread closes a descriptor, and nobody connects before it has
\* erased it.
VictimKnown == pc \in {"close", "erase"} =>
  victim \in Fds /\ (pc = "erase" => table[victim] \notin Conns)

\* A connection has one descriptor, and none before it is accepted.
OneDescriptor ==
  /\ \A f, g \in Fds : table[f] \in Conns /\ table[f] = table[g] => f = g
  /\ \A c \in Conns : peer[c] \in {"new", "waiting"} => \A f \in Fds : table[f] # c

\* The map for newcomers is the last one broadcast, unless that was empty.
CacheFollows == lastMap # 0 => currentChannelMap = lastMap

ServerInv ==
  TypeOK /\ VictimKnown /\ ListedExactly /\ OneDescriptor /\ CacheFollows /\ ClientsUpToDate
=============================================================================
