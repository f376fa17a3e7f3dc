------------------------------ MODULE Speedtest ------------------------------
(***************************************************************************)
(* The speed test between two hosts (netscanx/performance/speedtest.py):   *)
(* the client, one measurement after the other, the server, and the        *)
(* network between them.  The latency comes from ping_stats                *)
(* (netscanx/scanner/layer3.py).                                           *)
(*                                                                         *)
(* TCP data are counted in chunks, UDP datagrams in datagrams: no side     *)
(* looks at their sequence numbers.  A turn of a loop takes time, and the  *)
(* time of a test is over after at most MaxTurns of them.                  *)
(***************************************************************************)
EXTENDS Integers

CONSTANTS
  Pings,      \* latency_count
  Window,     \* the chunks that buffers and the network hold before drain waits
  MaxTurns,   \* bound: the turns of a loop until its deadline
  MaxExtra    \* bound: datagrams the network duplicates, or sends unasked

ASSUME CountsAssumption ==
  Pings \in Nat /\ Window \in Nat /\ MaxTurns \in Nat /\ MaxExtra \in Nat

VARIABLES
  client,    \* where SpeedtestClient.run is, its options and counters
  alive,     \* the server process is there
  link,      \* the TCP connection, as far as the client's side of it knows
  handler,   \* _handle_tcp
  wire,      \* chunks written and not read
  got,       \* total of _handle_tcp
  echo,      \* the datagrams on their way out and back
  fate       \* datagrams lost, and come from nowhere: no variable of the program

tcp      == <<link, handler, wire, got>>
udp      == <<echo, fate>>
testVars == <<client, alive, tcp, udp>>

SpeedtestInit ==
  /\ client = [at |-> "idle", tcp |-> TRUE, udp |-> TRUE, pings |-> Pings, answered |-> 0,
               turns |-> MaxTurns, total |-> 0, sent |-> 0, received |-> 0]
  /\ alive = TRUE
  /\ link = "none" /\ handler = "none"
  /\ wire = 0 /\ got = 0
  /\ echo = [out |-> 0, back |-> 0]
  /\ fate = [lost |-> 0, extra |-> 0]

At(place)   == client.at = place
Goto(place) == client' = [client EXCEPT !.at = place]

-----------------------------------------------------------------------------
(* Latency: ping_stats, one ping after the other.                          *)

RunTest ==
  /\ At("idle")
  /\ \E t, u \in BOOLEAN : client' = [client EXCEPT !.at = "ping", !.tcp = t, !.udp = u]
  /\ UNCHANGED <<alive, tcp, udp>>

\* Slip: one ping too many.
SlipPing ==
  /\ At("ping") /\ client.pings >= 0
  /\ \E n \in {0, 1} : client' = [client EXCEPT !.pings = @ - 1, !.answered = @ + n]
  /\ UNCHANGED <<alive, tcp, udp>>

\* A ping is answered, or fails, or times out.
Ping ==
  /\ At("ping") /\ client.pings > 0
  /\ \E n \in {0, 1} : client' = [client EXCEPT !.pings = @ - 1, !.answered = @ + n]
  /\ UNCHANGED <<alive, tcp, udp>>

AfterTcp == IF client.udp THEN "send" ELSE "over"

EndPings ==
  /\ At("ping") /\ client.pings = 0
  /\ Goto(IF client.tcp THEN "connect" ELSE AfterTcp)
  /\ UNCHANGED <<alive, tcp, udp>>

-----------------------------------------------------------------------------
(* Throughput: _tcp_test and _handle_tcp.                                  *)

\* The UDP test has a time of its own.
EndTcp == client' = [client EXCEPT !.at = AfterTcp, !.turns = MaxTurns]

Connect ==
  /\ At("connect") /\ alive
  /\ Goto("write")
  /\ link' = "open" /\ handler' = "reading"
  /\ UNCHANGED <<alive, wire, got, udp>>

\* Slip: to connect, the client waits for a server.
SlipConnectFails ==
  /\ At("connect") /\ alive
  /\ EndTcp
  /\ UNCHANGED <<alive, tcp, udp>>

\* Refused, or not made within five seconds: the server may have accepted it
\* for all that, and sees it end.
ConnectFails ==
  /\ At("connect")
  /\ EndTcp
  /\ \/ UNCHANGED <<link, handler>>
     \/ alive /\ link' = "eof" /\ handler' = "reading"
  /\ UNCHANGED <<alive, wire, got, udp>>

Write ==
  /\ At("write") /\ client.turns > 0
  /\ client' = [client EXCEPT !.at = "drain", !.turns = @ - 1]
  /\ wire' = IF link = "open" THEN wire + 1 ELSE wire
  /\ UNCHANGED <<alive, link, handler, got, udp>>

\* Slip: drain waits for nothing.
SlipDrain ==
  /\ At("drain") /\ link = "open"
  /\ client' = [client EXCEPT !.at = "write", !.total = @ + 1]
  /\ UNCHANGED <<alive, tcp, udp>>

\* A chunk is counted when the buffers have room again: it need not have
\* arrived.
Drain ==
  /\ At("drain") /\ link = "open" /\ wire <= Window
  /\ client' = [client EXCEPT !.at = "write", !.total = @ + 1]
  /\ UNCHANGED <<alive, tcp, udp>>

\* The connection is gone: what was counted so far is the result.
DrainRaises ==
  /\ At("drain") /\ link = "broken"
  /\ EndTcp
  /\ UNCHANGED <<alive, tcp, udp>>

TcpTimeUp ==
  /\ At("write")
  /\ Goto("closing")
  /\ link' = IF link = "open" THEN "eof" ELSE link
  /\ UNCHANGED <<alive, handler, wire, got, udp>>

\* Closed, or two seconds have passed.
EndClosing == At("closing") /\ EndTcp /\ UNCHANGED <<alive, tcp, udp>>

Read ==
  /\ handler = "reading" /\ wire > 0
  /\ wire' = wire - 1 /\ got' = got + 1
  /\ UNCHANGED <<client, alive, link, handler, udp>>

SeeEnd ==
  /\ handler = "reading" /\ wire = 0 /\ link \in {"eof", "broken"}
  /\ handler' = "closed"
  /\ UNCHANGED <<client, alive, link, wire, got, udp>>

\* Slip: the handler waits for the end of a stream that has no end.
SlipReadTimeout == FALSE /\ UNCHANGED testVars

\* Nothing arrives for ten seconds.
ReadTimeout ==
  /\ handler = "reading" /\ link \in {"open", "eof"}
  /\ handler' = "closed"
  /\ UNCHANGED <<client, alive, link, wire, got, udp>>

\* TCP notices that nobody reads any more.
Reset ==
  /\ link = "open" /\ handler = "closed"
  /\ link' = "broken" /\ wire' = 0
  /\ UNCHANGED <<client, alive, handler, got, udp>>

-----------------------------------------------------------------------------
(* Loss: _udp_test and _UDPServerProtocol.                                 *)

\* Slip: a datagram counts as sent whatever the socket says.
SlipSend ==
  /\ At("send") /\ client.turns > 0
  /\ client' = [client EXCEPT !.at = "receive", !.turns = @ - 1, !.sent = @ + 1]
  /\ \/ echo' = [echo EXCEPT !.out = @ + 1]
     \/ UNCHANGED echo
  /\ UNCHANGED <<alive, tcp, fate>>

Send ==
  /\ At("send") /\ client.turns > 0
  /\ client' = [client EXCEPT !.at = "receive", !.turns = @ - 1, !.sent = @ + 1]
  /\ echo' = [echo EXCEPT !.out = @ + 1]
  /\ UNCHANGED <<alive, tcp, fate>>

\* A send that fails is not counted; one given up after a tenth of a second
\* may leave for all that.
SendFails ==
  /\ At("send") /\ client.turns > 0
  /\ client' = [client EXCEPT !.at = "receive", !.turns = @ - 1]
  /\ \/ UNCHANGED udp
     \/ /\ fate.extra < MaxExtra
        /\ echo' = [echo EXCEPT !.out = @ + 1]
        /\ fate' = [fate EXCEPT !.extra = @ + 1]
  /\ UNCHANGED <<alive, tcp>>

\* At most one echo in a turn, of whichever datagram.
ReceiveEcho ==
  /\ At("receive") /\ echo.back > 0
  /\ client' = [client EXCEPT !.at = "send", !.received = @ + 1]
  /\ echo' = [echo EXCEPT !.back = @ - 1]
  /\ UNCHANGED <<alive, tcp, fate>>

\* A timeout, an error, or a datagram that is no echo.
ReceiveNothing == At("receive") /\ Goto("send") /\ UNCHANGED <<alive, tcp, udp>>

UdpTimeUp == At("send") /\ Goto("over") /\ UNCHANGED <<alive, tcp, udp>>

\* datagram_received.
SendBack ==
  /\ alive /\ echo.out > 0
  /\ echo' = [out |-> echo.out - 1, back |-> echo.back + 1]
  /\ UNCHANGED <<client, alive, tcp, fate>>

Lose(way) ==
  /\ echo[way] > 0
  /\ echo' = [echo EXCEPT ![way] = @ - 1]
  /\ fate' = [fate EXCEPT !.lost = @ + 1]
  /\ UNCHANGED <<client, alive, tcp>>

Duplicate(way) ==
  /\ echo[way] > 0 /\ fate.extra < MaxExtra
  /\ echo' = [echo EXCEPT ![way] = @ + 1]
  /\ fate' = [fate EXCEPT !.extra = @ + 1]
  /\ UNCHANGED <<client, alive, tcp>>

-----------------------------------------------------------------------------
(* Either process may be stopped.                                          *)

ServerStops ==
  /\ alive
  /\ alive' = FALSE
  /\ handler' = IF handler = "reading" THEN "closed" ELSE handler
  /\ UNCHANGED <<client, link, wire, got, udp>>

\* With its process a client's connection ends, with its host it does not.
ClientStops ==
  /\ client.at \notin {"idle", "over", "stopped"}
  /\ Goto("stopped")
  /\ \/ UNCHANGED link
     \/ link = "open" /\ link' = "eof"
  /\ UNCHANGED <<alive, handler, wire, got, udp>>

-----------------------------------------------------------------------------

Measure ==
  \/ Ping \/ EndPings
  \/ Connect \/ ConnectFails \/ Write \/ Drain \/ DrainRaises \/ TcpTimeUp \/ EndClosing
  \/ Send \/ SendFails \/ ReceiveEcho \/ ReceiveNothing \/ UdpTimeUp

Handle == Read \/ SeeEnd \/ ReadTimeout

Travel == SendBack \/ \E way \in {"out", "back"} : Lose(way) \/ Duplicate(way)

SpeedtestNext == RunTest \/ Measure \/ Handle \/ Reset \/ Travel \/ ServerStops \/ ClientStops

SpeedtestSpec == SpeedtestInit /\ [][SpeedtestNext]_testVars

-----------------------------------------------------------------------------

\* The types of the variables.
SpeedtestTypeOK ==
  /\ client \in [at : {"idle", "ping", "connect", "write", "drain", "closing", "send", "receive",
                      "over", "stopped"},
                 tcp : BOOLEAN, udp : BOOLEAN, pings : Nat, answered : Nat, turns : Nat,
                 total : Nat, sent : Nat, received : Nat]
  /\ alive \in BOOLEAN
  /\ link \in {"none", "open", "eof", "broken"}
  /\ handler \in {"none", "reading", "closed"}
  /\ wire \in Nat /\ got \in Nat
  /\ echo \in [out : Nat, back : Nat]
  /\ fate \in [lost : Nat, extra : Nat]

\* The packets that the result calls lost (speedtest.py:172) are those lost on
\* the way, those that had not come back by the end, and less the echoes of
\* datagrams nobody counted: nothing is lost, or won, in between.
LossAddsUp ==
  client.sent - client.received = fate.lost + echo.out + echo.back - fate.extra

\* The throughput (speedtest.py:122) counts what was written, not what was
\* read; the two differ by what the buffers hold, even if the connection
\* breaks, the server is stopped, or the client gives up in the midst of it.
ThroughputWithinWindow == client.total <= got + Window /\ got <= client.total + 1

\* A test ends, whether or not there is a server, and although drain has no
\* timeout: somebody reads, or the connection breaks.
TestEnds == client.at # "idle" ~> client.at \in {"over", "stopped"}

\* The server lets go of every connection, although its client may vanish
\* without a word.
HandlerEnds == handler = "reading" ~> handler = "closed"

=============================================================================
