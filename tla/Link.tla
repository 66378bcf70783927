--------------------------------- MODULE Link ---------------------------------
(***************************************************************************)
(* The connection between one driver (driver/GLA_IPCClient.h) and the app  *)
(* (the sending half of app/src/GLA_IPCServer.h), over a byte stream       *)
(* framed by common/GLA_Socket.h.  A message is a length word and a        *)
(* payload that write() and read() may take in pieces; either end may go   *)
(* away between two pieces, and the driver connects again.                 *)
(*                                                                         *)
(* Channel maps are numbered in the order they are broadcast, and some of  *)
(* them are empty; every other message (audio, the bridge, entities) is 0. *)
(* The kernel is external: it delivers what was written before a close,    *)
(* then end of file; connect() succeeds once the app listens; a full       *)
(* buffer makes a write fail, as for a socket that inherited O_NONBLOCK,   *)
(* and the driver's own reads wait.                                        *)
(***************************************************************************)
EXTENDS Integers, Sequences

CONSTANTS Buffer,     \* pieces the socket's buffers hold
          MaxSends,   \* bound: messages broadcast
          Empties,    \* the broadcasts that have no channel, if they send a map
          MaxFaults   \* bound: crashes of the app and clients it drops

ASSUME LinkAssumption == MaxSends \in Nat /\ MaxFaults \in Nat
ASSUME EmptiesAssumption == Empties \subseteq 1..MaxSends
\* A greeting, the bridge and a map, always fits the empty buffer of a new
\* socket (256 KB, and 72 bytes a channel).
ASSUME BufferAssumption == Buffer \in Nat /\ Buffer >= 5

VARIABLES
  app,               \* up or down
  current,           \* the map a newcomer is sent; 0: none was broadcast yet
  latest,            \* history: the map this run of the app broadcast last
  todo, piece,       \* messages the app is writing, pieces of the first written
  greeting,          \* TRUE: they greet a newcomer
  link,              \* none, backlog, listed, or closed by the app
  wire,              \* pieces written and not yet read
  pc, got, backoff,  \* the driver's thread, what it has read of a message
  handled,           \* the last map it handed to the driver
  sends, faults

sender == <<app, current, latest, todo, piece, greeting, sends, faults>>
client == <<pc, got, backoff, handled>>
vars   == <<sender, link, wire, client>>

\* Pieces of a payload: long and short messages alternate.
Size(m) == 1 + (m % 2)

\* A message on the wire; piece 0 is the length word.
Pieces(m) == [i \in 1..(Size(m) + 1) |-> [msg |-> m, k |-> i - 1]]

Init ==
  /\ app = "down" /\ current = 0 /\ latest = 0
  /\ todo = << >> /\ piece = 0 /\ greeting = FALSE
  /\ link = "none" /\ wire = << >>
  /\ pc = "connect" /\ got = << >> /\ backoff = 1 /\ handled = 0
  /\ sends = 0 /\ faults = 0

-----------------------------------------------------------------------------
(* The app                                                                 *)

AppStarts ==
  /\ app = "down"
  /\ app' = "up" /\ current' = 0 /\ latest' = 0
  /\ UNCHANGED <<todo, piece, greeting, sends, faults, link, wire, client>>

HungUp == IF link \in {"backlog", "listed"} THEN "closed" ELSE link

AppCrashes ==
  /\ app = "up" /\ faults < MaxFaults
  /\ app' = "down" /\ todo' = << >> /\ piece' = 0 /\ greeting' = FALSE
  /\ link' = HungUp
  /\ faults' = faults + 1
  /\ UNCHANGED <<current, latest, sends, wire, client>>

\* The server thread closes a client, maybe while another thread is writing to
\* it; what is left of that write fails.
AppDropsClient ==
  /\ link = "listed" /\ faults < MaxFaults
  /\ link' = "closed"
  /\ todo' = << >> /\ piece' = 0 /\ greeting' = FALSE
  /\ faults' = faults + 1
  /\ UNCHANGED <<app, current, latest, sends, wire, client>>

\* A map that has a channel is cached for newcomers.
Caches(isMap) ==
  /\ latest' = IF isMap THEN sends + 1 ELSE latest
  /\ current' = IF isMap /\ sends + 1 \notin Empties THEN sends + 1 ELSE current

\* Variant: the mutex is not taken, and the message overtakes another.
BroadcastUnlocked == \E isMap \in BOOLEAN :
  /\ app = "up" /\ sends < MaxSends
  /\ sends' = sends + 1
  /\ Caches(isMap)
  /\ todo' = IF link = "listed" THEN << IF isMap THEN sends + 1 ELSE 0 >> \o todo ELSE todo
  /\ UNCHANGED <<app, piece, greeting, faults, link, wire, client>>

\* Under clientsMutex: a map is cached, if it is not empty, and sent; anything
\* else is only sent.
Broadcast == \E isMap \in BOOLEAN :
  /\ app = "up" /\ todo = << >> /\ sends < MaxSends
  /\ sends' = sends + 1
  /\ Caches(isMap)
  /\ todo' = IF link = "listed" THEN << IF isMap THEN sends + 1 ELSE 0 >> ELSE << >>
  /\ UNCHANGED <<app, piece, greeting, faults, link, wire, client>>

\* Variant: a newcomer is not sent the map.
AcceptWithoutMap ==
  /\ app = "up" /\ link = "backlog" /\ todo = << >>
  /\ link' = "listed"
  /\ todo' = <<0>> /\ greeting' = TRUE
  /\ UNCHANGED <<app, current, latest, piece, sends, faults, wire, client>>

\* Also under clientsMutex: the newcomer is listed and greeted with the bridge
\* and the map.
Accept ==
  /\ app = "up" /\ link = "backlog" /\ todo = << >>
  /\ link' = "listed"
  /\ todo' = IF current = 0 THEN <<0>> ELSE <<0, current>>
  /\ greeting' = TRUE
  /\ UNCHANGED <<app, current, latest, piece, sends, faults, wire, client>>

\* glaSendMessage, one write() at a time.
WritePiece ==
  /\ todo # << >> /\ Len(wire) < Buffer
  /\ wire' = Append(wire, [msg |-> Head(todo), k |-> piece])
  /\ LET last == piece = Size(Head(todo)) IN
     /\ todo' = IF last THEN Tail(todo) ELSE todo
     /\ piece' = IF last THEN 0 ELSE piece + 1
     /\ greeting' = (greeting /\ todo' # << >>)
  /\ UNCHANGED <<app, current, latest, sends, faults, link, client>>

\* Variant: the client is kept after a write that failed.
WriteFailsKeepsClient ==
  /\ todo # << >> /\ Len(wire) = Buffer
  /\ todo' = Tail(todo) /\ piece' = 0
  /\ greeting' = (greeting /\ todo' # << >>)
  /\ UNCHANGED <<app, current, latest, sends, faults, link, wire, client>>

\* A write fails: sendToClients closes the client; a greeting goes on with the
\* next message.
WriteFails ==
  /\ todo # << >> /\ Len(wire) = Buffer
  /\ todo' = Tail(todo) /\ piece' = 0
  /\ greeting' = (greeting /\ todo' # << >>)
  /\ link' = IF greeting THEN link ELSE "closed"
  /\ UNCHANGED <<app, current, latest, sends, faults, wire, client>>

-----------------------------------------------------------------------------
(* The driver: runLoop                                                     *)

Connect ==
  /\ pc = "connect"
  /\ \/ /\ app = "up"
        /\ link' = "backlog" /\ pc' = "read" /\ backoff' = 1
     \/ /\ app = "down"
        /\ pc' = "sleep" /\ UNCHANGED link
        /\ backoff' = IF backoff * 2 < 5 THEN backoff * 2 ELSE 5
  /\ UNCHANGED <<got, handled, wire, sender>>

Wake ==
  /\ pc = "sleep"
  /\ pc' = "connect"
  /\ UNCHANGED <<got, backoff, handled, link, wire, sender>>

\* What the length word says; a piece of a payload may say anything.
Wanted == IF got[1].k = 0 THEN {Size(got[1].msg)} ELSE 0..2

\* glaRecvMessage, one read() at a time.
ReadPiece ==
  /\ pc = "read" /\ wire # << >>
  /\ got' = Append(got, Head(wire))
  /\ wire' = Tail(wire)
  /\ pc' \in IF Len(got) = 0 THEN {"read"}
             ELSE {IF Len(got) >= n THEN "handle" ELSE "read" : n \in Wanted}
  /\ UNCHANGED <<backoff, handled, link, sender>>

\* handleMessage; anything but a map is of no account here.
HandleMessage ==
  /\ pc = "handle"
  /\ handled' = IF got[1].msg = 0 THEN handled ELSE got[1].msg
  /\ got' = << >>
  /\ pc' = "read"
  /\ UNCHANGED <<backoff, link, wire, sender>>

\* End of file: what was read of a message is dropped, and after a pause the
\* driver connects again.
LoseConnection ==
  /\ pc = "read" /\ wire = << >> /\ link = "closed"
  /\ link' = "none"
  /\ pc' = "sleep" /\ got' = << >>
  /\ UNCHANGED <<backoff, handled, wire, sender>>

-----------------------------------------------------------------------------
Writing == Accept \/ WritePiece \/ WriteFails
RunLoop == Connect \/ Wake \/ ReadPiece \/ HandleMessage \/ LoseConnection

Next == AppStarts \/ AppCrashes \/ AppDropsClient \/ Broadcast \/ Writing \/ RunLoop

\* The driver's thread and the app's server and sender threads keep running.
\* The app need not be started, nor broadcast anything.
Spec     == Init /\ [][Next]_vars
FairSpec == Spec /\ WF_vars(Writing) /\ WF_vars(RunLoop)

-----------------------------------------------------------------------------
(* Properties                                                              *)

\* The driver handles whole messages only: never the rest of one connection's
\* message in front of the next connection's, never a payload taken for a
\* length, whatever write fails in between (GLA_Socket.h:39-74).
WholeMessages == pc = "handle" => got = Pieces(got[1].msg)

\* The messages whose last piece is in s.
Ends(s) ==
  LET upTo[i \in 0..Len(s)] ==
        IF i = 0 THEN << >>
        ELSE IF s[i].k = Size(s[i].msg) THEN Append(upTo[i - 1], s[i].msg)
        ELSE upTo[i - 1]
  IN  upTo[Len(s)]

\* The messages whose last piece is on the wire or read.
Arriving == Ends(got \o wire)

\* Pieces, failing writes and pauses come to no more than the channel's
\* promises: in order, nothing lost but the last messages of a connection,
\* everything delivered in the end, and a newcomer greeted with the map.
C == INSTANCE Channel WITH Maps <- 1..MaxSends, Other <- 0, None <- 0,
                           cached <- current, conn <- link, queue <- Arriving \o todo
IsChannel == C!Spec

\* However often the connection is lost, the driver ends up with the map the app
\* broadcast last, once the app stays up; where that is empty and a connection was
\* lost after it, with the last one that is not (GLA_IPCClient.h:58-93,
\* GLA_IPCServer.h:78-82, 165-166).
CatchesUp == <>[](app = "up") => <>[](current # 0 => handled \in {latest, current})

-----------------------------------------------------------------------------
(* Why: the inductive invariant of LinkProofs                              *)

Messages == 0..MaxSends
Piece    == [msg: Messages, k: Nat]

\* Every variable has its type.
TypeOK ==
  /\ app \in {"up", "down"} /\ link \in {"none", "backlog", "listed", "closed"}
  /\ pc \in {"connect", "sleep", "read", "handle"}
  /\ current \in Messages /\ latest \in Messages /\ sends \in Messages /\ todo \in Seq(Messages)
  /\ piece \in Nat /\ greeting \in BOOLEAN
  /\ wire \in Seq(Piece) /\ got \in Seq(Piece)

\* s begins with a length word; a message's pieces follow one another, and after
\* the last comes a length word.
Framed(s) ==
  /\ s # << >> => s[1].k = 0
  /\ \A i \in 1..(Len(s) - 1) :
       IF s[i].k = Size(s[i].msg) THEN s[i + 1].k = 0
       ELSE s[i + 1] = [msg |-> s[i].msg, k |-> s[i].k + 1]

\* s ends with a message's last piece.
Ended(s) == s = << >> \/ s[Len(s)].k = Size(s[Len(s)].msg)

\* The app writes to a client it has listed; what is written ends with the piece
\* before the one it writes next.
WriterInPlace ==
  /\ todo # << >> => app = "up" /\ link = "listed" /\ piece <= Size(Head(todo))
  /\ todo = << >> => piece = 0
  /\ link = "listed" /\ piece = 0 => Ended(got \o wire)
  /\ piece # 0 => /\ got \o wire # << >>
                  /\ (got \o wire)[Len(got \o wire)] = [msg |-> Head(todo), k |-> piece - 1]

\* A greeting is the bridge and maybe a map, and it fits the buffer.
GreetingFits ==
  /\ ~greeting => Len(todo) <= 1
  /\ greeting => \/ Len(todo) = 2 /\ Head(todo) = 0 /\ Len(wire) <= piece
                 \/ Len(todo) = 1 /\ Len(wire) <= 2 + piece

\* The driver has read the first pieces of one message, and all before it is
\* handled.
ReaderInPlace ==
  /\ \A i \in 1..Len(got) : got[i] = [msg |-> got[1].msg, k |-> i - 1]
  /\ pc = "read" /\ got # << >> => Len(got) <= Size(got[1].msg)
  /\ pc = "handle" => got # << >> /\ Len(got) = Size(got[1].msg) + 1

\* A connection is new until it is listed, and gone before the next.
FreshConnection ==
  /\ link \in {"none", "backlog"} => wire = << >> /\ got = << >>
  /\ pc \in {"connect", "sleep"} <=> link = "none"

LinkInv ==
  /\ TypeOK /\ Framed(got \o wire)
  /\ WriterInPlace /\ GreetingFits /\ ReaderInPlace /\ FreshConnection
=============================================================================
