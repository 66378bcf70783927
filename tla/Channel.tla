------------------------------- MODULE Channel -------------------------------
(***************************************************************************)
(* What the connection between the app and one driver promises, message by *)
(* message: while it lasts, messages arrive whole and in order; when it is *)
(* lost, so are the last of them, and no others; a driver that connects    *)
(* again is greeted with the last map that was not empty.                  *)
(* (app/src/GLA_IPCServer.h, driver/GLA_IPCClient.h, common/GLA_Socket.h;  *)
(* Link shows how.)                                                        *)
(***************************************************************************)
EXTENDS Integers, Sequences, SequencesExt

CONSTANTS Maps,    \* the channel maps the app may broadcast
          Empties, \* those that have no channel
          Other,   \* any other message
          None     \* no map was broadcast yet

VARIABLES
  app,             \* up or down
  cached,          \* the map for newcomers
  conn,            \* none, backlog, listed, or closed by the app
  queue            \* messages sent and not yet handled

channel == <<app, cached, conn, queue>>

Init == app = "down" /\ cached = None /\ conn = "none" /\ queue = << >>

\* The connection is cut: what was sent last may be lost.
Cut ==
  /\ conn' = IF conn \in {"backlog", "listed"} THEN "closed" ELSE conn
  /\ queue' \in Prefixes(queue)

Start == app = "down" /\ app' = "up" /\ cached' = None /\ UNCHANGED <<conn, queue>>
Crash == app = "up" /\ app' = "down" /\ Cut /\ UNCHANGED cached
Drop  == conn = "listed" /\ Cut /\ UNCHANGED <<app, cached>>

Send(m) ==
  /\ app = "up"
  /\ queue' = IF conn = "listed" THEN Append(queue, m) ELSE queue
  /\ UNCHANGED <<app, conn>>

\* An empty map is sent, but no newcomer is to lose a saved device to it.
BroadcastMap(m) ==
  /\ m \in Maps
  /\ Send(m)
  /\ cached' = IF m \in Empties THEN cached ELSE m

BroadcastOther  == Send(Other) /\ UNCHANGED cached

Connect ==
  /\ conn = "none" /\ app = "up"
  /\ conn' = "backlog"
  /\ UNCHANGED <<app, cached, queue>>

\* Variant: a newcomer is greeted with the bridge only.
AcceptWithoutMap ==
  /\ conn = "backlog" /\ app = "up"
  /\ conn' = "listed"
  /\ queue' = <<Other>>
  /\ UNCHANGED <<app, cached>>

\* A newcomer is greeted with the bridge and the map, if they are known.
Accept ==
  /\ conn = "backlog" /\ app = "up"
  /\ conn' = "listed"
  /\ \E bridge \in {<< >>, <<Other>>} :
       queue' = bridge \o IF cached = None THEN << >> ELSE <<cached>>
  /\ UNCHANGED <<app, cached>>

Deliver == queue # << >> /\ queue' = Tail(queue) /\ UNCHANGED <<app, cached, conn>>

\* The driver has read what there was, and meets the end of the connection.
Lose == conn = "closed" /\ queue = << >> /\ conn' = "none" /\ UNCHANGED <<app, cached, queue>>

\* The driver's process ends.
Abandon == conn' = "none" /\ queue' = << >> /\ UNCHANGED <<app, cached>>

Next == \/ Start \/ Crash \/ Drop \/ BroadcastOther \/ (\E m \in Maps : BroadcastMap(m))
        \/ Connect \/ Accept \/ Deliver \/ Lose \/ Abandon

Spec == /\ Init /\ [][Next]_channel
        /\ WF_channel(Connect) /\ WF_channel(Accept) /\ WF_channel(Deliver) /\ WF_channel(Lose)
=============================================================================
