--------------------------- MODULE CommandsProofs ---------------------------
(***************************************************************************)
(* Proofs about detect_mtu, for every range and every path, about the      *)
(* speed test, for every number of pings, turns and strayed datagrams and  *)
(* every size of the buffers, about the reports of the checks, whatever    *)
(* they find out and in whichever order they end, and about the commands:  *)
(* they are their components, one at a time, and what is proved of a       *)
(* component holds of every invocation.                                    *)
(***************************************************************************)
EXTENDS Commands, FiniteSetTheorems, TLAPS

-----------------------------------------------------------------------------
(* detect_mtu. *)

\* The sizes above the range have failed, those below it have passed, and
\* last_ok is the last that did, as far as the network told the truth.
RangeInv ==
  /\ search.at = "idle" =>
       /\ search.low = MinSize /\ search.high = MaxSize /\ search.last_ok = MinSize
       /\ ~ luck.lost
  /\ search.low = search.last_ok + 1 \/ search.low = MinSize
  /\ search.last_ok = MinSize \/ luck.told \/ search.last_ok <= limit
  /\ \A size \in MinSize..MaxSize : search.high < size /\ size <= limit => luck.lost
  /\ search.mtu # NoMtu => search.low > search.high /\ search.mtu = search.last_ok

MtuInv == MtuTypeOK /\ RangeInv

\* The middle of a range lies in it.
LEMMA MidInRange ==
  ASSUME MtuTypeOK, Searching
  PROVE  Mid \in Int /\ search.low <= Mid /\ Mid <= search.high
BY DEF MtuTypeOK, Searching, Mid

Locals == [at : {"idle", "search", "over"}, low : Int, high : Int, last_ok : Int, mtu : Int]
Luck   == [lost : BOOLEAN, told : BOOLEAN]

\* An answer, and its absence, keep the locals of their types.
LEMMA TakeAnswerLocals ==
  ASSUME search \in Locals, Mid \in Int, TakeAnswer
  PROVE  search' \in Locals
<1> DEFINE passed == [search EXCEPT !.last_ok = Mid]
<1>1. passed \in Locals
  BY DEF Locals
<1>2. search' = [passed EXCEPT !.low = Mid + 1]
  BY DEF TakeAnswer
<1> HIDE DEF passed
<1> QED BY <1>1, <1>2 DEF Locals

LEMMA TimeOutTypes ==
  ASSUME search \in Locals, luck \in Luck, Mid \in Int, TimeOut
  PROVE  search' \in Locals /\ luck' \in Luck
<1>1. search' \in Locals
  BY DEF TimeOut, Locals
<1>2. luck' \in Luck
  BY DEF TimeOut, Luck
<1> QED BY <1>1, <1>2

LEMMA MtuInitInv == MtuInit => MtuInv
BY SizesAssumption DEF MtuInit, MtuInv, MtuTypeOK, RangeInv, NoMtu

LEMMA MtuNextInv == MtuInv /\ [MtuNext]_mtuVars => MtuInv'
<1> SUFFICES ASSUME MtuInv, [MtuNext]_mtuVars PROVE MtuInv'
  OBVIOUS
<1> USE SizesAssumption DEF MtuInv, MtuTypeOK, NoMtu
<1>1. CASE DetectMtu
  BY <1>1 DEF DetectMtu, RangeInv
<1>2. CASE Pass
  <2>1. /\ Searching /\ Mid \in Int /\ search.low <= Mid /\ Mid <= search.high
        /\ search.at = "search" /\ search.mtu = NoMtu /\ Mid <= limit
    BY <1>2, MidInRange DEF Pass, Searching, RangeInv
  <2>2. search' \in Locals /\ search' = [search EXCEPT !.last_ok = Mid, !.low = Mid + 1]
    BY <1>2, <2>1, TakeAnswerLocals DEF Pass, TakeAnswer, Locals
  <2>3. MtuTypeOK'
    BY <1>2, <2>2 DEF Pass, Locals
  <2> QED BY <1>2, <2>1, <2>2, <2>3 DEF Pass, RangeInv
<1>3. CASE Tell
  <2>1. /\ Searching /\ Mid \in Int /\ search.low <= Mid /\ Mid <= search.high
        /\ search.at = "search" /\ search.mtu = NoMtu
    BY <1>3, MidInRange DEF Tell, Searching, RangeInv
  <2>2. search' \in Locals /\ search' = [search EXCEPT !.last_ok = Mid, !.low = Mid + 1]
    BY <1>3, <2>1, TakeAnswerLocals DEF Tell, TakeAnswer, Locals
  <2>3. MtuTypeOK'
    BY <1>3, <2>2 DEF Tell, Locals
  <2> QED BY <1>3, <2>1, <2>2, <2>3 DEF Tell, RangeInv
<1>4. CASE TimeOut
  <2>1. /\ Searching /\ Mid \in Int /\ search.low <= Mid /\ Mid <= search.high
        /\ search.at = "search" /\ search.mtu = NoMtu
    BY <1>4, MidInRange DEF TimeOut, Searching, RangeInv
  <2>2. MtuTypeOK' /\ luck'.lost = (luck.lost \/ Mid <= limit)
    <3>1. search' \in Locals /\ luck' \in Luck
      BY <1>4, <2>1, TimeOutTypes DEF Locals, Luck
    <3>2. luck'.lost = (luck.lost \/ Mid <= limit)
      BY <1>4, <2>1 DEF TimeOut
    <3> QED BY <1>4, <3>1, <3>2 DEF TimeOut, Locals, Luck
  <2>3. ASSUME NEW size \in MinSize..MaxSize, search'.high < size, size <= limit'
        PROVE  luck'.lost
    BY <1>4, <2>1, <2>2, <2>3 DEF TimeOut, RangeInv
  <2>4. /\ search'.at = "search" /\ search'.mtu = NoMtu
        /\ search'.low = search.low /\ search'.last_ok = search.last_ok
        /\ limit' = limit /\ luck'.told = luck.told
    BY <1>4, <2>1 DEF TimeOut
  <2>5. RangeInv'
    BY <2>3, <2>4 DEF RangeInv
  <2> QED BY <2>2, <2>5
<1>5. CASE ReturnMtu
  <2> DEFINE over == [search EXCEPT !.at = "over"]
  <2>1. over \in Locals
    BY DEF Locals
  <2>2. \/ search' = over
        \/ search.low > search.high /\ search' = [over EXCEPT !.mtu = search.last_ok]
    BY <1>5 DEF ReturnMtu
  <2>3. search' \in Locals
    BY <2>1, <2>2 DEF Locals
  <2> QED BY <1>5, <2>2, <2>3 DEF ReturnMtu, RangeInv, Locals
<1>6. CASE UNCHANGED mtuVars
  BY <1>6 DEF mtuVars, RangeInv
<1> QED BY <1>1, <1>2, <1>3, <1>4, <1>5, <1>6 DEF MtuNext, MtuLoop

LEMMA MtuInvHolds == MtuSpec => []MtuInv
BY MtuInitInv, MtuNextInv, PTL DEF MtuSpec

LEMMA MtuInvRight == MtuInv => MtuIsRight
BY SizesAssumption DEF MtuInv, MtuTypeOK, RangeInv, MtuIsRight

\* The types of the variables.
THEOREM MtuTypes == MtuSpec => []MtuTypeOK
BY MtuInvHolds, PTL DEF MtuInv

\* detect_mtu finds the largest size that passes, unless the network misleads
\* it: whatever the range, the path, and the losses.
THEOREM MtuRight == MtuSpec => []MtuIsRight
BY MtuInvHolds, MtuInvRight, PTL

\* What is left of the range.
Span == search.high - search.low + 1

\* Every turn of the loop leaves less of the range, which is never less than
\* nothing: the loop ends, whatever the network answers.
RangeShrinks == Searching /\ (Pass \/ Tell \/ TimeOut) => Span' < Span /\ 0 <= Span'

THEOREM SearchEnds == MtuSpec => [][RangeShrinks]_mtuVars
<1>1. ASSUME MtuInv, MtuNext PROVE RangeShrinks
  <2> SUFFICES ASSUME Searching, Pass \/ Tell \/ TimeOut
               PROVE  Span' < Span /\ 0 <= Span'
    BY DEF RangeShrinks
  <2>1. Mid \in Int /\ search.low <= Mid /\ Mid <= search.high
    BY <1>1, MidInRange DEF MtuInv
  <2>2. CASE Pass \/ Tell
    <3>1. search'.low = Mid + 1 /\ search'.high = search.high
      BY <1>1, <2>2 DEF Pass, Tell, TakeAnswer, MtuInv, MtuTypeOK
    <3> QED BY <1>1, <2>1, <3>1 DEF Span, MtuInv, MtuTypeOK
  <2>3. CASE TimeOut
    <3>1. search'.high = Mid - 1 /\ search'.low = search.low
      BY <1>1, <2>3 DEF TimeOut, MtuInv, MtuTypeOK
    <3> QED BY <1>1, <2>1, <3>1 DEF Span, MtuInv, MtuTypeOK
  <2> QED BY <2>2, <2>3
<1> QED BY <1>1, MtuInvHolds, PTL DEF MtuSpec

-----------------------------------------------------------------------------
(* The speed test. *)

Places == {"idle", "ping", "connect", "write", "drain", "closing", "send", "receive",
           "over", "stopped"}

Client == [at : Places, tcp : BOOLEAN, udp : BOOLEAN, pings : Nat, answered : Nat, turns : Nat,
           total : Nat, sent : Nat, received : Nat]

\* How the actions change the client's record.
LEMMA ClientMoves ==
  ASSUME client \in Client, NEW place \in Places
  PROVE  /\ [client EXCEPT !.at = place] \in Client
         /\ \A n \in Nat : [client EXCEPT !.at = place, !.turns = n] \in Client
         /\ \A n \in Nat : [client EXCEPT !.at = place, !.total = n] \in Client
         /\ \A n \in Nat : [client EXCEPT !.at = place, !.received = n] \in Client
         /\ \A n, s \in Nat : [client EXCEPT !.at = place, !.turns = n, !.sent = s] \in Client
         /\ \A t, u \in BOOLEAN : [client EXCEPT !.at = place, !.tcp = t, !.udp = u] \in Client
         /\ \A n, a \in Nat : [client EXCEPT !.pings = n, !.answered = a] \in Client
<1> DEFINE moved == [client EXCEPT !.at = place]
<1>1. moved \in Client
  BY DEF Client
<1>2. ASSUME NEW n \in Nat PROVE [client EXCEPT !.at = place, !.turns = n] \in Client
  <2>1. [client EXCEPT !.at = place, !.turns = n] = [moved EXCEPT !.turns = n]
    OBVIOUS
  <2> HIDE DEF moved
  <2> QED BY <1>1, <2>1 DEF Client
<1>3. ASSUME NEW n \in Nat PROVE [client EXCEPT !.at = place, !.total = n] \in Client
  <2>1. [client EXCEPT !.at = place, !.total = n] = [moved EXCEPT !.total = n]
    OBVIOUS
  <2> HIDE DEF moved
  <2> QED BY <1>1, <2>1 DEF Client
<1>4. ASSUME NEW n \in Nat PROVE [client EXCEPT !.at = place, !.received = n] \in Client
  <2>1. [client EXCEPT !.at = place, !.received = n] = [moved EXCEPT !.received = n]
    OBVIOUS
  <2> HIDE DEF moved
  <2> QED BY <1>1, <2>1 DEF Client
<1>5. ASSUME NEW n \in Nat, NEW s \in Nat
      PROVE  [client EXCEPT !.at = place, !.turns = n, !.sent = s] \in Client
  <2> DEFINE turned == [moved EXCEPT !.turns = n]
  <2>1. [client EXCEPT !.at = place, !.turns = n, !.sent = s] = [turned EXCEPT !.sent = s]
    OBVIOUS
  <2> HIDE DEF moved
  <2>2. turned \in Client
    BY <1>1 DEF Client
  <2> HIDE DEF turned
  <2> QED BY <2>1, <2>2 DEF Client
<1>6. ASSUME NEW t \in BOOLEAN, NEW u \in BOOLEAN
      PROVE  [client EXCEPT !.at = place, !.tcp = t, !.udp = u] \in Client
  <2> DEFINE chosen == [moved EXCEPT !.tcp = t]
  <2>1. [client EXCEPT !.at = place, !.tcp = t, !.udp = u] = [chosen EXCEPT !.udp = u]
    OBVIOUS
  <2> HIDE DEF moved
  <2>2. chosen \in Client
    BY <1>1 DEF Client
  <2> HIDE DEF chosen
  <2> QED BY <2>1, <2>2 DEF Client
<1>7. ASSUME NEW n \in Nat, NEW a \in Nat
      PROVE  [client EXCEPT !.pings = n, !.answered = a] \in Client
  <2> DEFINE pinged == [client EXCEPT !.pings = n]
  <2>1. [client EXCEPT !.pings = n, !.answered = a] = [pinged EXCEPT !.answered = a]
    OBVIOUS
  <2>2. pinged \in Client
    BY DEF Client
  <2> HIDE DEF pinged
  <2> QED BY <2>1, <2>2 DEF Client
<1> HIDE DEF moved
<1> QED BY <1>1, <1>2, <1>3, <1>4, <1>5, <1>6, <1>7 DEF moved


-----------------------------------------------------------------------------
(* Types.                                                                  *)

\* Where the client is, and what it counts, after each of its steps.
LEMMA ClientTypes ==
  ASSUME client \in Client, RunTest \/ Measure \/ ClientStops
  PROVE  client' \in Client
<1> USE CountsAssumption
<1>1. /\ client.pings \in Nat /\ client.answered \in Nat /\ client.turns \in Nat
      /\ client.total \in Nat /\ client.sent \in Nat /\ client.received \in Nat
  BY DEF Client
<1>2. AfterTcp \in Places
  BY DEF AfterTcp, Places
<1>3. ASSUME EndTcp PROVE client' \in Client
  BY <1>2, <1>3, ClientMoves DEF EndTcp
<1>4. ASSUME NEW place \in Places, Goto(place) PROVE client' \in Client
  BY <1>4, ClientMoves DEF Goto
<1>5. CASE RunTest
  <2>1. PICK t, u \in BOOLEAN : client' = [client EXCEPT !.at = "ping", !.tcp = t, !.udp = u]
    BY <1>5 DEF RunTest
  <2> QED BY <2>1, ClientMoves DEF Places
<1>6. CASE Ping
  <2>1. PICK n \in {0, 1} :
          client' = [client EXCEPT !.pings = client.pings - 1, !.answered = client.answered + n]
    BY <1>6 DEF Ping
  <2>2. client.pings - 1 \in Nat /\ client.answered + n \in Nat
    BY <1>1, <1>6 DEF Ping
  <2> QED BY <2>1, <2>2, ClientMoves DEF Places
<1>7. CASE EndPings
  BY <1>2, <1>4, <1>7 DEF EndPings, Places
<1>8. CASE Connect \/ TcpTimeUp \/ ReceiveNothing \/ UdpTimeUp \/ ClientStops
  BY <1>4, <1>8 DEF Connect, TcpTimeUp, ReceiveNothing, UdpTimeUp, ClientStops, Places
<1>9. CASE ConnectFails \/ DrainRaises \/ EndClosing
  BY <1>3, <1>9 DEF ConnectFails, DrainRaises, EndClosing
<1>10. CASE Write \/ SendFails
  <2>1. PICK place \in Places : client' = [client EXCEPT !.at = place, !.turns = client.turns - 1]
    BY <1>10 DEF Write, SendFails, Places
  <2>2. client.turns - 1 \in Nat
    BY <1>1, <1>10 DEF Write, SendFails
  <2> QED BY <2>1, <2>2, ClientMoves
<1>11. CASE Drain
  <2>1. client.total + 1 \in Nat /\ "write" \in Places
    BY <1>1 DEF Places
  <2>2. client' = [client EXCEPT !.at = "write", !.total = client.total + 1]
    BY <1>11 DEF Drain
  <2> QED BY <2>1, <2>2, ClientMoves
<1>12. CASE Send
  <2>1. client.turns - 1 \in Nat /\ client.sent + 1 \in Nat
    BY <1>1, <1>12 DEF Send
  <2> QED BY <1>12, <2>1, ClientMoves DEF Send, Places
<1>13. CASE ReceiveEcho
  <2>1. client.received + 1 \in Nat /\ "send" \in Places
    BY <1>1 DEF Places
  <2>2. client' = [client EXCEPT !.at = "send", !.received = client.received + 1]
    BY <1>13 DEF ReceiveEcho
  <2> QED BY <2>1, <2>2, ClientMoves
<1> QED BY <1>5, <1>6, <1>7, <1>8, <1>9, <1>10, <1>11, <1>12, <1>13 DEF Measure

LEMMA ClientUnchanged ==
  ASSUME SpeedtestNext, ~ (RunTest \/ Measure \/ ClientStops)
  PROVE  client' = client
BY DEF SpeedtestNext, Handle, Read, SeeEnd, ReadTimeout, Reset, Travel, SendBack, Lose,
       Duplicate, ServerStops

\* The connection, its handler and the counts of its chunks.
TcpTypes ==
  /\ alive \in BOOLEAN
  /\ link \in {"none", "open", "eof", "broken"}
  /\ handler \in {"none", "reading", "closed"}
  /\ wire \in Nat /\ got \in Nat

LEMMA TcpTypesNext ==
  ASSUME TcpTypes, SpeedtestNext
  PROVE  TcpTypes'
<1> USE DEF TcpTypes, tcp
<1>1. CASE RunTest \/ Ping \/ EndPings \/ Send \/ SendFails \/ ReceiveEcho \/ ReceiveNothing \/ UdpTimeUp
  BY <1>1 DEF RunTest, Ping, EndPings, Send, SendFails, ReceiveEcho, ReceiveNothing, UdpTimeUp
<1>2. CASE Connect \/ ConnectFails \/ Write \/ Drain \/ DrainRaises \/ TcpTimeUp \/ EndClosing
  <2>1. CASE Connect \/ ConnectFails
    BY <2>1 DEF Connect, ConnectFails
  <2>2. CASE Write
    BY <2>2 DEF Write
  <2>3. CASE Drain \/ DrainRaises \/ TcpTimeUp \/ EndClosing
    BY <2>3 DEF Drain, DrainRaises, TcpTimeUp, EndClosing
  <2> QED BY <1>2, <2>1, <2>2, <2>3
<1>3. CASE Handle
  <2>1. CASE Read
    BY <2>1 DEF Read
  <2>2. CASE SeeEnd \/ ReadTimeout
    BY <2>2 DEF SeeEnd, ReadTimeout
  <2> QED BY <1>3, <2>1, <2>2 DEF Handle
<1>4. CASE Reset \/ ServerStops \/ ClientStops
  <2>1. CASE Reset
    BY <2>1 DEF Reset
  <2>2. CASE ServerStops
    BY <2>2 DEF ServerStops
  <2>3. CASE ClientStops
    BY <2>3 DEF ClientStops
  <2> QED BY <1>4, <2>1, <2>2, <2>3
<1>5. CASE Travel
  BY <1>5 DEF Travel, SendBack, Lose, Duplicate
<1> QED BY <1>1, <1>2, <1>3, <1>4, <1>5 DEF SpeedtestNext, Measure

\* The datagrams.
UdpTypes == echo \in [out : Nat, back : Nat] /\ fate \in [lost : Nat, extra : Nat]

LEMMA UdpTypesNext ==
  ASSUME UdpTypes, SpeedtestNext
  PROVE  UdpTypes'
<1> USE DEF UdpTypes, udp
<1>1. CASE RunTest \/ Ping \/ EndPings \/ ReceiveNothing \/ UdpTimeUp \/ Handle \/ Reset
           \/ ServerStops \/ ClientStops
  BY <1>1 DEF RunTest, Ping, EndPings, ReceiveNothing, UdpTimeUp, Handle, Read, SeeEnd,
              ReadTimeout, Reset, ServerStops, ClientStops
<1>2. CASE Connect \/ ConnectFails \/ Write \/ Drain \/ DrainRaises \/ TcpTimeUp \/ EndClosing
  BY <1>2 DEF Connect, ConnectFails, Write, Drain, DrainRaises, TcpTimeUp, EndClosing
<1>3. CASE Send \/ ReceiveEcho \/ SendBack
  BY <1>3 DEF Send, ReceiveEcho, SendBack
<1>4. CASE SendFails
  BY <1>4 DEF SendFails
<1>5. ASSUME NEW way \in {"out", "back"}, Lose(way) \/ Duplicate(way) PROVE UdpTypes'
  BY <1>5 DEF Lose, Duplicate
<1> QED BY <1>1, <1>2, <1>3, <1>4, <1>5 DEF SpeedtestNext, Measure, Travel

LEMMA TypesSplit == SpeedtestTypeOK <=> client \in Client /\ TcpTypes /\ UdpTypes
BY DEF SpeedtestTypeOK, Client, Places, TcpTypes, UdpTypes

LEMMA SpeedtestInitTypes == SpeedtestInit => SpeedtestTypeOK
BY CountsAssumption DEF SpeedtestInit, SpeedtestTypeOK

LEMMA SpeedtestNextTypes == SpeedtestTypeOK /\ [SpeedtestNext]_testVars => SpeedtestTypeOK'
<1> SUFFICES ASSUME SpeedtestTypeOK, [SpeedtestNext]_testVars PROVE SpeedtestTypeOK'
  OBVIOUS
<1>1. CASE SpeedtestNext
  <2>1. client' \in Client
    BY <1>1, TypesSplit, ClientTypes, ClientUnchanged
  <2>2. TcpTypes' /\ UdpTypes'
    BY <1>1, TypesSplit, TcpTypesNext, UdpTypesNext
  <2> QED BY <2>1, <2>2 DEF SpeedtestTypeOK, Client, Places, TcpTypes, UdpTypes
<1>2. CASE UNCHANGED testVars
  BY <1>2 DEF testVars, tcp, udp, SpeedtestTypeOK
<1> QED BY <1>1, <1>2

\* The types of the variables.
THEOREM SpeedtestTypes == SpeedtestSpec => []SpeedtestTypeOK
BY SpeedtestInitTypes, SpeedtestNextTypes, PTL DEF SpeedtestSpec

-----------------------------------------------------------------------------
(* The datagrams add up: what is sent and not received is lost, on its     *)
(* way, or more than made up for by what nobody counted.                   *)

LEMMA LossInit == SpeedtestInit => LossAddsUp
BY DEF SpeedtestInit, LossAddsUp

LEMMA LossNext ==
  ASSUME SpeedtestTypeOK, LossAddsUp, [SpeedtestNext]_testVars
  PROVE  LossAddsUp'
<1> USE DEF LossAddsUp, udp
<1>1. /\ client.sent \in Nat /\ client.received \in Nat
      /\ echo.out \in Nat /\ echo.back \in Nat /\ fate.lost \in Nat /\ fate.extra \in Nat
      /\ echo \in [out : Nat, back : Nat] /\ fate \in [lost : Nat, extra : Nat]
  BY DEF SpeedtestTypeOK
<1>2. SUFFICES ASSUME SpeedtestNext PROVE LossAddsUp'
  BY DEF testVars
<1>3. ASSUME client'.sent = client.sent, client'.received = client.received, UNCHANGED udp
      PROVE  LossAddsUp'
  BY <1>3
<1>4. CASE RunTest
  BY <1>4, <1>3 DEF RunTest, SpeedtestTypeOK
<1>5. CASE Ping \/ EndPings
  BY <1>5, <1>3 DEF Ping, EndPings, Goto, SpeedtestTypeOK
<1>6. CASE Connect \/ ConnectFails \/ Write \/ Drain \/ DrainRaises \/ TcpTimeUp \/ EndClosing
  BY <1>6, <1>3 DEF Connect, ConnectFails, Write, Drain, DrainRaises, TcpTimeUp, EndClosing,
                    EndTcp, Goto, SpeedtestTypeOK
<1>7. CASE Handle \/ Reset \/ ServerStops
  BY <1>7, <1>3 DEF Handle, Read, SeeEnd, ReadTimeout, Reset, ServerStops
<1>8. CASE ReceiveNothing \/ UdpTimeUp \/ ClientStops
  BY <1>8, <1>3 DEF ReceiveNothing, UdpTimeUp, ClientStops, Goto, SpeedtestTypeOK
<1>9. CASE Send
  <2>1. /\ client'.sent = client.sent + 1 /\ client'.received = client.received
        /\ echo'.out = echo.out + 1 /\ echo'.back = echo.back /\ fate' = fate
    BY <1>1, <1>9 DEF Send, SpeedtestTypeOK
  <2> QED BY <1>1, <2>1
<1>10. CASE SendFails
  <2>1. client'.sent = client.sent /\ client'.received = client.received
    BY <1>10 DEF SendFails, SpeedtestTypeOK
  <2>2. \/ UNCHANGED udp
        \/ /\ echo'.out = echo.out + 1 /\ echo'.back = echo.back
           /\ fate'.lost = fate.lost /\ fate'.extra = fate.extra + 1
    BY <1>1, <1>10 DEF SendFails
  <2> QED BY <1>1, <2>1, <2>2
<1>11. CASE ReceiveEcho
  <2>1. /\ client'.sent = client.sent /\ client'.received = client.received + 1
        /\ echo'.out = echo.out /\ echo'.back = echo.back - 1 /\ fate' = fate
    BY <1>1, <1>11 DEF ReceiveEcho, SpeedtestTypeOK
  <2> QED BY <1>1, <2>1
<1>12. CASE SendBack
  BY <1>1, <1>12 DEF SendBack
<1>13. ASSUME NEW way \in {"out", "back"}, Lose(way) PROVE LossAddsUp'
  <2>1. client' = client /\ fate'.lost = fate.lost + 1 /\ fate'.extra = fate.extra
    BY <1>1, <1>13 DEF Lose
  <2>2. echo' = [echo EXCEPT ![way] = echo[way] - 1]
    BY <1>13 DEF Lose
  <2>3. \/ echo'.out = echo.out - 1 /\ echo'.back = echo.back
        \/ echo'.out = echo.out /\ echo'.back = echo.back - 1
    <3>1. CASE way = "out"
      BY <1>1, <2>2, <3>1
    <3>2. CASE way = "back"
      BY <1>1, <2>2, <3>2
    <3> QED BY <3>1, <3>2
  <2> QED BY <1>1, <2>1, <2>3
<1>14. ASSUME NEW way \in {"out", "back"}, Duplicate(way) PROVE LossAddsUp'
  <2>1. client' = client /\ fate'.lost = fate.lost /\ fate'.extra = fate.extra + 1
    BY <1>1, <1>14 DEF Duplicate
  <2>2. echo' = [echo EXCEPT ![way] = echo[way] + 1]
    BY <1>14 DEF Duplicate
  <2>3. \/ echo'.out = echo.out + 1 /\ echo'.back = echo.back
        \/ echo'.out = echo.out /\ echo'.back = echo.back + 1
    <3>1. CASE way = "out"
      BY <1>1, <2>2, <3>1
    <3>2. CASE way = "back"
      BY <1>1, <2>2, <3>2
    <3> QED BY <3>1, <3>2
  <2> QED BY <1>1, <2>1, <2>3
<1> QED BY <1>2, <1>4, <1>5, <1>6, <1>7, <1>8, <1>9, <1>10, <1>11, <1>12, <1>13, <1>14
        DEF SpeedtestNext, Measure, Travel

\* No datagram is lost or won in between, whatever the network does.
THEOREM LossHolds == SpeedtestSpec => []LossAddsUp
<1>1. SpeedtestInit => SpeedtestTypeOK /\ LossAddsUp
  BY SpeedtestInitTypes, LossInit
<1>2. SpeedtestTypeOK /\ LossAddsUp /\ [SpeedtestNext]_testVars => (SpeedtestTypeOK /\ LossAddsUp)'
  BY SpeedtestNextTypes, LossNext
<1> QED BY <1>1, <1>2, PTL DEF SpeedtestSpec

-----------------------------------------------------------------------------
(* What is counted, and what arrives.  ThroughputWithinWindow alone is not *)
(* inductive: that nothing is read twice, or after the connection broke,   *)
(* and that the buffers hold no more than the Window when the client has   *)
(* drained them, depends on where every chunk is.                          *)

ChunksInv ==
  /\ client.at \in {"idle", "ping", "connect"} => link = "none"
  /\ link = "none" => client.total = 0 /\ got = 0 /\ wire = 0
  /\ link = "open" /\ client.at = "write" => got + wire = client.total
  /\ link = "open" /\ client.at = "drain" => got + wire = client.total + 1
  /\ got + wire <= client.total + 1
  /\ link = "broken" => wire = 0
  /\ client.total <= got + Window

ChunksTyped ==
  /\ client.total \in Nat /\ got \in Nat /\ wire \in Nat
  /\ link \in {"none", "open", "eof", "broken"}

LEMMA ChunksInit == SpeedtestInit => ChunksInv
BY CountsAssumption DEF SpeedtestInit, ChunksInv

\* A step of the client that neither connects, nor writes, nor drains.
LEMMA ChunksElsewhere ==
  ASSUME ChunksTyped, ChunksInv,
         client'.total = client.total, wire' = wire, got' = got, link' = link \/ link' = "eof",
         client'.at = client.at \/ client'.at \notin {"idle", "ping", "connect", "write", "drain"},
         link' = link \/ client'.at = "stopped" \/ client'.at = "closing"
           \/ client'.at \in {"send", "over"}
  PROVE  ChunksInv'
BY CountsAssumption DEF ChunksTyped, ChunksInv

LEMMA ChunksNext ==
  ASSUME SpeedtestTypeOK, ChunksInv, [SpeedtestNext]_testVars
  PROVE  ChunksInv'
<1> USE CountsAssumption DEF tcp
<1>1. ChunksTyped
  BY DEF SpeedtestTypeOK, ChunksTyped
<1>2. CASE UNCHANGED testVars
  BY <1>2 DEF testVars, ChunksInv
<1>3. CASE RunTest
  <2>1. client'.total = client.total /\ client.at = "idle"
    BY <1>3 DEF RunTest, At, SpeedtestTypeOK
  <2> QED BY <1>3, <2>1 DEF RunTest, ChunksInv
<1>4. CASE Ping
  <2>1. client'.total = client.total /\ client'.at = client.at
    BY <1>4 DEF Ping, At, SpeedtestTypeOK
  <2> QED BY <1>4, <2>1 DEF Ping, ChunksInv
<1>5. CASE EndPings
  <2>1. client'.total = client.total /\ client.at = "ping"
        /\ client'.at \in {"connect", "send", "over"}
    BY <1>5 DEF EndPings, At, Goto, AfterTcp, SpeedtestTypeOK
  <2> QED BY <1>5, <2>1 DEF EndPings, ChunksInv
<1>6. CASE Connect
  <2>1. client'.total = client.total /\ client.at = "connect" /\ client'.at = "write"
    BY <1>6 DEF Connect, At, Goto, SpeedtestTypeOK
  <2> QED BY <1>1, <1>6, <2>1 DEF Connect, ChunksInv, ChunksTyped
<1>7. CASE ConnectFails \/ DrainRaises \/ EndClosing
  <2>1. client'.total = client.total /\ client'.at \in {"send", "over"}
    BY <1>7 DEF ConnectFails, DrainRaises, EndClosing, EndTcp, AfterTcp, SpeedtestTypeOK
  <2>2. wire' = wire /\ got' = got /\ (link' = link \/ link' = "eof")
    BY <1>7 DEF ConnectFails, DrainRaises, EndClosing
  <2> QED BY <1>1, <2>1, <2>2, ChunksElsewhere
<1>8. CASE Write
  <2>1. client'.total = client.total /\ client.at = "write" /\ client'.at = "drain"
    BY <1>8 DEF Write, At, SpeedtestTypeOK
  <2>2. wire' = (IF link = "open" THEN wire + 1 ELSE wire) /\ got' = got /\ link' = link
    BY <1>8 DEF Write
  <2> QED BY <1>1, <2>1, <2>2 DEF ChunksInv, ChunksTyped
<1>9. CASE Drain
  <2>1. client'.total = client.total + 1 /\ client.at = "drain" /\ client'.at = "write"
    BY <1>9 DEF Drain, At, SpeedtestTypeOK
  <2>2. link = "open" /\ wire <= Window /\ wire' = wire /\ got' = got /\ link' = link
    BY <1>9 DEF Drain
  <2> QED BY <1>1, <2>1, <2>2 DEF ChunksInv, ChunksTyped
<1>10. CASE TcpTimeUp
  <2>1. client'.total = client.total /\ client'.at = "closing"
    BY <1>10 DEF TcpTimeUp, Goto, SpeedtestTypeOK
  <2>2. wire' = wire /\ got' = got /\ (link' = link \/ link' = "eof")
    BY <1>10 DEF TcpTimeUp
  <2> QED BY <1>1, <2>1, <2>2, ChunksElsewhere
<1>11. CASE Read
  BY <1>1, <1>11 DEF Read, ChunksInv, ChunksTyped
<1>12. CASE SeeEnd \/ ReadTimeout \/ ServerStops
  BY <1>12 DEF SeeEnd, ReadTimeout, ServerStops, ChunksInv
<1>13. CASE Reset
  BY <1>1, <1>13 DEF Reset, ChunksInv, ChunksTyped
<1>14. CASE Send \/ SendFails \/ ReceiveEcho \/ ReceiveNothing \/ UdpTimeUp
  <2>1. client'.total = client.total /\ client'.at \in {"send", "receive", "over"}
    BY <1>14 DEF Send, SendFails, ReceiveEcho, ReceiveNothing, UdpTimeUp, Goto, SpeedtestTypeOK
  <2>2. UNCHANGED tcp
    BY <1>14 DEF Send, SendFails, ReceiveEcho, ReceiveNothing, UdpTimeUp
  <2> QED BY <1>1, <2>1, <2>2, ChunksElsewhere
<1>15. CASE Travel
  BY <1>15 DEF Travel, SendBack, Lose, Duplicate, ChunksInv
<1>16. CASE ClientStops
  <2>1. client'.total = client.total /\ client'.at = "stopped"
    BY <1>16 DEF ClientStops, Goto, SpeedtestTypeOK
  <2>2. wire' = wire /\ got' = got /\ (link' = link \/ link' = "eof")
    BY <1>16 DEF ClientStops
  <2> QED BY <1>1, <2>1, <2>2, ChunksElsewhere
<1> QED BY <1>2, <1>3, <1>4, <1>5, <1>6, <1>7, <1>8, <1>9, <1>10, <1>11, <1>12, <1>13, <1>14,
           <1>15, <1>16 DEF SpeedtestNext, Measure, Handle

LEMMA ChunksWithinWindow == SpeedtestTypeOK /\ ChunksInv => ThroughputWithinWindow
BY CountsAssumption DEF SpeedtestTypeOK, ChunksInv, ThroughputWithinWindow

\* What the client counts differs from what the server reads by no more than
\* the buffers hold, whichever of them stops, and whenever.
THEOREM ThroughputHolds == SpeedtestSpec => []ThroughputWithinWindow
<1>1. SpeedtestInit => SpeedtestTypeOK /\ ChunksInv
  BY SpeedtestInitTypes, ChunksInit
<1>2. SpeedtestTypeOK /\ ChunksInv /\ [SpeedtestNext]_testVars => (SpeedtestTypeOK /\ ChunksInv)'
  BY SpeedtestNextTypes, ChunksNext
<1> QED BY <1>1, <1>2, ChunksWithinWindow, PTL DEF SpeedtestSpec

-----------------------------------------------------------------------------
(* The speed test only moves on, and does not wait for what cannot happen. *)

Part(place) ==
  CASE place = "idle" -> 0 [] place = "ping" -> 1 [] place = "connect" -> 2
    [] place \in {"write", "drain"} -> 3 [] place = "closing" -> 4
    [] place \in {"send", "receive"} -> 5 [] place \in {"over", "stopped"} -> 6

\* The steps that are left of a loop until its deadline.
StepsOf(view) == 2 * view.turns + (IF view.at \in {"drain", "receive"} THEN 1 ELSE 0)

\* In a later part of the test, or in the same with fewer pings or steps left.
Further(old, new) ==
  \/ Part(new.at) > Part(old.at)
  \/ /\ Part(new.at) = Part(old.at)
     /\ \/ new.at = "ping" /\ 0 <= new.pings /\ new.pings < old.pings
        \/ new.at # "ping" /\ 0 <= StepsOf(new) /\ StepsOf(new) < StepsOf(old)

\* Each step of the client leads it further, and no step of the server or the
\* network sets it back.
ClientMovesOn ==
  /\ Measure => Further(client, client')
  /\ client' = client \/ Further(client, client')

\* The fields of the client after a step.
LEMMA MeasureFurther ==
  ASSUME client \in Client, Measure
  PROVE  Further(client, client')
<1> USE CountsAssumption
<1>1. client.pings \in Nat /\ client.turns \in Nat /\ client.at \in Places
  BY DEF Client
<1>2. ASSUME NEW place, Part(place) > Part(client.at), client'.at = place
      PROVE  Further(client, client')
  BY <1>2 DEF Further
<1>3. CASE Ping
  <2>1. client.at = "ping" /\ client'.at = "ping" /\ client'.pings = client.pings - 1 /\ client.pings > 0
    BY <1>3 DEF Ping, At, Client
  <2> QED BY <1>1, <2>1 DEF Further
<1>4. AfterTcp \in {"send", "over"}
  BY DEF AfterTcp
<1>5. CASE EndPings
  <2>1. client.at = "ping" /\ client'.at \in {"connect", "send", "over"}
    BY <1>4, <1>5 DEF EndPings, At, Goto, Client
  <2>2. Part(client'.at) > Part(client.at)
    BY <2>1 DEF Part
  <2> QED BY <1>2, <2>2
<1>6. CASE ConnectFails \/ DrainRaises \/ EndClosing
  <2>1. client.at \in {"connect", "drain", "closing"} /\ client'.at \in {"send", "over"}
    BY <1>4, <1>6 DEF ConnectFails, DrainRaises, EndClosing, EndTcp, At, Client
  <2>2. Part(client'.at) > Part(client.at)
    BY <2>1 DEF Part
  <2> QED BY <1>2, <2>2
<1>7. CASE Connect \/ TcpTimeUp \/ UdpTimeUp
  <2>1. \/ client.at = "connect" /\ client'.at = "write"
        \/ client.at = "write" /\ client'.at = "closing"
        \/ client.at = "send" /\ client'.at = "over"
    BY <1>7 DEF Connect, TcpTimeUp, UdpTimeUp, At, Goto, Client
  <2>2. Part(client'.at) > Part(client.at)
    BY <2>1 DEF Part
  <2> QED BY <1>2, <2>2
<1>8. CASE Write \/ Send \/ SendFails
  <2>1. /\ client.turns > 0 /\ client'.turns = client.turns - 1
        /\ \/ client.at = "write" /\ client'.at = "drain"
           \/ client.at = "send" /\ client'.at = "receive"
    BY <1>8 DEF Write, Send, SendFails, At, Client
  <2>2. Part(client'.at) = Part(client.at) /\ client'.at # "ping"
    BY <2>1 DEF Part
  <2>3. StepsOf(client) = 2 * client.turns /\ StepsOf(client') = 2 * client'.turns + 1
    BY <1>1, <2>1 DEF StepsOf
  <2> QED BY <1>1, <2>1, <2>2, <2>3 DEF Further
<1>9. CASE Drain \/ ReceiveEcho \/ ReceiveNothing
  <2>1. /\ client'.turns = client.turns
        /\ \/ client.at = "drain" /\ client'.at = "write"
           \/ client.at = "receive" /\ client'.at = "send"
    BY <1>9 DEF Drain, ReceiveEcho, ReceiveNothing, Goto, At, Client
  <2>2. Part(client'.at) = Part(client.at) /\ client'.at # "ping"
    BY <2>1 DEF Part
  <2>3. StepsOf(client) = 2 * client.turns + 1 /\ StepsOf(client') = 2 * client'.turns
    BY <1>1, <2>1 DEF StepsOf
  <2> QED BY <1>1, <2>1, <2>2, <2>3 DEF Further
<1> QED BY <1>3, <1>5, <1>6, <1>7, <1>8, <1>9 DEF Measure

\* Whatever the network and the server do, a test has only so many steps: with
\* the timeouts, which TLC's run assumes to expire, it ends.
THEOREM TestOnlyMovesOn == SpeedtestSpec => [][ClientMovesOn]_testVars
<1>1. SpeedtestTypeOK /\ [SpeedtestNext]_testVars => [ClientMovesOn]_testVars
  <2> SUFFICES ASSUME SpeedtestTypeOK, SpeedtestNext PROVE ClientMovesOn
    OBVIOUS
  <2>0. client \in Client
    BY TypesSplit
  <2>1. Measure => Further(client, client')
    BY <2>0, MeasureFurther
  <2>2. CASE RunTest
    <3>1. client.at = "idle" /\ client'.at = "ping"
      BY <2>0, <2>2 DEF RunTest, At, Client
    <3> QED BY <2>1, <3>1 DEF Further, Part, ClientMovesOn
  <2>3. CASE ClientStops
    <3>1. client'.at = "stopped" /\ client.at \in Places \ {"idle", "over", "stopped"}
      BY <2>0, <2>3 DEF ClientStops, Goto, Client
    <3> QED BY <2>1, <3>1 DEF Further, Part, ClientMovesOn, Places
  <2> QED BY <2>1, <2>2, <2>3, ClientUnchanged DEF ClientMovesOn
<1> QED BY <1>1, SpeedtestTypes, PTL DEF SpeedtestSpec

\* A drain that waits, although it has no timeout, waits for a handler that has
\* something to read, or for TCP to notice that there is none; and a handler
\* that waits has a timeout, because a broken connection has none.
NobodyStuck ==
  /\ At("drain") => \/ link = "broken"
                    \/ link = "open" /\ \/ wire <= Window
                                        \/ handler = "reading" /\ wire > 0
                                        \/ handler = "closed"
  /\ handler = "reading" => link \in {"open", "eof"}

LinkInv ==
  /\ client.at \in {"write", "drain"} => link \in {"open", "broken"}
  /\ link = "none" <=> handler = "none"
  /\ link = "broken" => handler = "closed"

LEMMA LinkStep == ASSUME SpeedtestTypeOK, LinkInv, SpeedtestNext PROVE LinkInv'
<1>0. client \in Client /\ TcpTypes
  BY TypesSplit
<1>1. CASE Connect \/ TcpTimeUp
  BY <1>0, <1>1 DEF Connect, TcpTimeUp, Goto, At, Client, TcpTypes, LinkInv
<1>2. CASE ConnectFails \/ DrainRaises \/ EndClosing
  <2>1. client'.at \notin {"write", "drain"}
    BY <1>0, <1>2 DEF ConnectFails, DrainRaises, EndClosing, EndTcp, AfterTcp, Client
  <2> QED BY <1>2, <2>1 DEF ConnectFails, DrainRaises, EndClosing, tcp, LinkInv
<1>3. CASE Write \/ Drain
  <2>1. client.at \in {"write", "drain"} /\ UNCHANGED <<link, handler>>
    BY <1>3 DEF Write, Drain, At, tcp
  <2> QED BY <2>1 DEF LinkInv
<1>4. CASE RunTest \/ Ping \/ EndPings \/ Send \/ SendFails \/ ReceiveEcho \/ ReceiveNothing \/ UdpTimeUp
  <2>1. client'.at \notin {"write", "drain"} /\ UNCHANGED <<link, handler>>
    BY <1>0, <1>4 DEF RunTest, Ping, EndPings, Send, SendFails, ReceiveEcho, ReceiveNothing, UdpTimeUp,
                      Goto, AfterTcp, At, tcp, Client
  <2> QED BY <2>1 DEF LinkInv
<1>5. CASE Handle \/ Reset \/ ServerStops
  BY <1>0, <1>5 DEF Handle, Read, SeeEnd, ReadTimeout, Reset, ServerStops, TcpTypes, LinkInv
<1>6. CASE Travel
  BY <1>6 DEF Travel, SendBack, Lose, Duplicate, tcp, LinkInv
<1>7. CASE ClientStops
  <2>1. client'.at = "stopped"
    BY <1>0, <1>7 DEF ClientStops, Goto, Client
  <2> QED BY <1>7, <2>1 DEF ClientStops, LinkInv
<1> QED BY <1>1, <1>2, <1>3, <1>4, <1>5, <1>6, <1>7 DEF SpeedtestNext, Measure

\* Neither side of a connection waits for what cannot happen.
THEOREM TestNeverStuck == SpeedtestSpec => []NobodyStuck
<1>1. SpeedtestInit => LinkInv
  BY DEF SpeedtestInit, LinkInv
<1>2. SpeedtestTypeOK /\ LinkInv /\ [SpeedtestNext]_testVars => LinkInv'
  BY LinkStep DEF testVars, tcp, LinkInv
<1>3. SpeedtestTypeOK /\ LinkInv => NobodyStuck
  BY CountsAssumption DEF SpeedtestTypeOK, LinkInv, NobodyStuck, At
<1> QED BY <1>1, <1>2, <1>3, SpeedtestTypes, PTL DEF SpeedtestSpec

-----------------------------------------------------------------------------
(* Induction.  The theorems of the library take a predicate, which no prover
   here can instantiate; about sets they say the same. *)

\* A set of natural numbers has a least element.
LEMMA LeastNumber ==
  ASSUME NEW S \in SUBSET Nat, S # {}
  PROVE  \E m \in S : \A n \in S : m <= n
<1>1. \E m \in S : \A n \in S : ~ (<<n, m>> \in OpToRel(<, Nat))
  BY NatLessThanWellFounded, WFMin
<1>2. PICK m \in S : \A n \in S : ~ (<<n, m>> \in OpToRel(<, Nat))
  BY <1>1
<1>3. ASSUME NEW n \in S, n < m PROVE FALSE
  <2>1. <<n, m>> \in Nat \X Nat /\ <<n, m>>[1] < <<n, m>>[2]
    BY <1>3
  <2>2. <<n, m>> \in OpToRel(<, Nat)
    BY <2>1, Zenon DEF OpToRel
  <2> QED BY <2>2, <1>2
<1> QED BY <1>3

\* A set of natural numbers with 0 and every successor is all of them.
LEMMA SetInduction ==
  ASSUME NEW S \in SUBSET Nat, 0 \in S, \A n \in S : n + 1 \in S
  PROVE  S = Nat
<1> SUFFICES ASSUME Nat \ S # {} PROVE FALSE
  OBVIOUS
<1>1. PICK m \in Nat \ S : \A n \in Nat \ S : m <= n
  BY LeastNumber
<1>2. m # 0 /\ m - 1 \in Nat /\ m - 1 \in S
  BY <1>1
<1> QED BY <1>1, <1>2

-----------------------------------------------------------------------------
(* The fold. *)

\* The greatest element of a set that has one.
LEMMA MaxIs ==
  ASSUME NEW S \in SUBSET Nat, NEW m \in S, \A n \in S : n <= m
  PROVE  Max(S) = m
<1>1. \E x \in S : \A y \in S : x >= y
  BY DEF Max
<1>2. Max(S) \in S /\ \A y \in S : Max(S) >= y
  BY <1>1, Zenon DEF Max
<1>3. Max(S) >= m /\ Max(S) <= m /\ Max(S) \in Nat /\ m \in Nat
  BY <1>2
<1> QED BY <1>3

\* h is the table of the fold of seq over the sets of indices up to n.
Table(h, n, seq) ==
  h = [s \in SUBSET (1..n) |->
         IF s = {} THEN EmptyReport ELSE Add(h[s \ {Max(s)}], seq[Max(s)])]

LEMMA TableExtends ==
  ASSUME NEW seq, NEW n \in Nat, NEW h, Table(h, n, seq)
  PROVE  \E g : Table(g, n + 1, seq)
<1> DEFINE m == n + 1
           g == [s \in SUBSET (1..m) |->
                   IF m \in s THEN Add(h[s \ {m}], seq[m]) ELSE h[s]]
<1>1. ASSUME NEW s \in SUBSET (1..m)
      PROVE  g[s] = IF s = {} THEN EmptyReport ELSE Add(g[s \ {Max(s)}], seq[Max(s)])
  <2>1. CASE m \in s
    <3>1. s \in SUBSET Nat /\ \A k \in s : k <= m
      OBVIOUS
    <3>2. Max(s) = m
      BY <2>1, <3>1, MaxIs
    <3>3. s \ {m} \in SUBSET (1..m) /\ m \notin s \ {m}
      OBVIOUS
    <3> QED BY <2>1, <3>2, <3>3
  <2>2. CASE m \notin s
    <3>1. s \in SUBSET (1..n)
      BY <2>2
    <3>2. g[s] = h[s]
      BY <2>2
    <3>3. h[s] = IF s = {} THEN EmptyReport ELSE Add(h[s \ {Max(s)}], seq[Max(s)])
      BY <3>1 DEF Table
    <3>4. s \ {Max(s)} \in SUBSET (1..m) /\ m \notin s \ {Max(s)}
      BY <2>2
    <3>5. g[s \ {Max(s)}] = h[s \ {Max(s)}]
      BY <3>4
    <3> QED BY <3>2, <3>3, <3>5
  <2> QED BY <2>1, <2>2
<1>2. Table(g, m, seq)
  BY <1>1, Zenon DEF Table
<1> QED BY <1>2

LEMMA TableExists ==
  ASSUME NEW seq, NEW n \in Nat
  PROVE  \E h : Table(h, n, seq)
<1> DEFINE S == {k \in Nat : \E h : Table(h, k, seq)}
<1>1. 0 \in S
  <2> DEFINE h == [s \in SUBSET (1..0) |-> EmptyReport]
  <2>1. SUBSET (1..0) = {{}}
    OBVIOUS
  <2>2. Table(h, 0, seq)
    BY <2>1 DEF Table
  <2> QED BY <2>2
<1>2. \A k \in S : k + 1 \in S
  BY TableExtends
<1>3. S = Nat
  <2> HIDE DEF S
  <2>1. S \in SUBSET Nat
    BY DEF S
  <2> QED BY <1>1, <1>2, <2>1, SetInduction
<1> QED BY <1>3

LEMMA FoldIsTable ==
  ASSUME NEW seq, NEW n \in Nat, DOMAIN seq = 1..n
  PROVE  \E h : Table(h, n, seq) /\ FoldLeft(Add, EmptyReport, seq) = h[1..n]
<1> DEFINE h == CHOOSE g : Table(g, n, seq)
<1>1. Table(h, n, seq)
  BY TableExists
<1>2. FoldLeft(Add, EmptyReport, seq) = h[1..n]
  BY DEF FoldLeft, MapThenFoldSet, Table
<1> QED BY <1>1, <1>2

\* Turn by turn the table is what add makes of the elements so far.
LEMMA TableTurns ==
  ASSUME NEW seq, NEW n \in Nat, NEW h, Table(h, n, seq)
  PROVE  /\ h[1..0] = EmptyReport
         /\ \A k \in 1..n : h[1..k] = Add(h[1..(k - 1)], seq[k])
<1>1. h[1..0] = EmptyReport
  <2>1. 1..0 = {} /\ 1..0 \in SUBSET (1..n)
    OBVIOUS
  <2> QED BY <2>1 DEF Table
<1>2. ASSUME NEW k \in 1..n
      PROVE  h[1..k] = Add(h[1..(k - 1)], seq[k])
  <2>1. 1..k \in SUBSET (1..n) /\ 1..k # {} /\ (1..k) \ {k} = 1..(k - 1)
    OBVIOUS
  <2>2. Max(1..k) = k
    <3>1. 1..k \in SUBSET Nat /\ k \in 1..k /\ \A i \in 1..k : i <= k
      OBVIOUS
    <3> QED BY <3>1, MaxIs
  <2>3. h[1..k] = Add(h[(1..k) \ {Max(1..k)}], seq[Max(1..k)])
    BY <2>1 DEF Table
  <2> QED BY <2>1, <2>2, <2>3
<1> QED BY <1>1, <1>2

Entries == [name : DOMAIN Outcomes \cup {"internal"}, status : {"ok", "warning", "error", "skipped"}, weight : Nat]

\* The indices up to k of what was not skipped.
Held(seq, k) == {i \in 1..k : seq[i].status # "skipped"}

\* What a report says of the first k results.
Tells(rep, seq, k) ==
  /\ rep.checks \in Seq(Entries) /\ Len(rep.checks) = k
  /\ \A i \in 1..k : rep.checks[i] = seq[i]
  /\ rep.ok \in Nat /\ rep.warning \in Nat /\ rep.error \in Nat
  /\ rep.error + rep.warning + rep.ok = Cardinality(Held(seq, k))
  /\ rep.error = 0 => \A i \in 1..k : seq[i].status # "error"
  /\ rep.score \in 0..100
  /\ rep.score = 100 => \A i \in 1..k : Deduction(seq[i].status, seq[i].weight) = 0

LEMMA HeldGrows ==
  ASSUME NEW seq, NEW k \in Nat
  PROVE  /\ IsFiniteSet(Held(seq, k))
         /\ Cardinality(Held(seq, k + 1)) =
              Cardinality(Held(seq, k)) + (IF seq[k + 1].status # "skipped" THEN 1 ELSE 0)
<1>1. IsFiniteSet(1..k) /\ Held(seq, k) \in SUBSET (1..k)
  BY FS_Interval DEF Held
<1>2. IsFiniteSet(Held(seq, k)) /\ Cardinality(Held(seq, k)) \in Nat
  BY <1>1, FS_Subset, FS_CardinalityType
<1>3. CASE seq[k + 1].status # "skipped"
  <2>1. Held(seq, k + 1) = Held(seq, k) \cup {k + 1} /\ k + 1 \notin Held(seq, k)
    BY <1>3 DEF Held
  <2> QED BY <1>2, <1>3, <2>1, FS_AddElement
<1>4. CASE seq[k + 1].status = "skipped"
  <2>1. Held(seq, k + 1) = Held(seq, k)
    BY <1>4 DEF Held
  <2> QED BY <1>2, <1>4, <2>1
<1> QED BY <1>3, <1>4, <1>2

LEMMA DeductionType ==
  ASSUME NEW e \in Entries
  PROVE  Deduction(e.status, e.weight) \in Nat
BY DEF Entries, Deduction

LEMMA FloorBounds ==
  ASSUME NEW s \in 0..100, NEW d \in Nat
  PROVE  Floor(s - d) \in 0..100 /\ (Floor(s - d) = 100 => s = 100 /\ d = 0)
BY DEF Floor

LEMMA CountsOne ==
  ASSUME NEW e, e.status \in {"ok", "warning", "error", "skipped"}
  PROVE  /\ \A s : Count(e, s) \in {0, 1}
         /\ Count(e, "error") + Count(e, "warning") + Count(e, "ok")
              = IF e.status # "skipped" THEN 1 ELSE 0
BY DEF Count

\* One more result.
LEMMA AddTells ==
  ASSUME NEW seq, NEW k \in Nat, NEW rep, Tells(rep, seq, k), seq[k + 1] \in Entries
  PROVE  Tells(Add(rep, seq[k + 1]), seq, k + 1)
<1> DEFINE e == seq[k + 1]
           d == Deduction(e.status, e.weight)
           new == Add(rep, e)
<1>1. e \in Entries /\ d \in Nat
  BY DeductionType
<1>2. /\ new.checks = Append(rep.checks, e)
      /\ new.ok = rep.ok + Count(e, "ok")
      /\ new.warning = rep.warning + Count(e, "warning")
      /\ new.error = rep.error + Count(e, "error")
      /\ new.score = Floor(rep.score - d)
  BY DEF Add
<1> HIDE DEF new
<1>3. /\ new.checks \in Seq(Entries) /\ Len(new.checks) = k + 1
      /\ \A i \in 1..(k + 1) : new.checks[i] = seq[i]
  BY <1>1, <1>2 DEF Tells
<1>10. /\ rep.ok \in Nat /\ rep.warning \in Nat /\ rep.error \in Nat /\ rep.score \in 0..100
      /\ e.status \in {"ok", "warning", "error", "skipped"} /\ d \in Nat
  BY <1>1 DEF Tells, Entries
<1> HIDE DEF d
<1>4. /\ new.ok \in Nat /\ new.warning \in Nat /\ new.error \in Nat
      /\ new.error + new.warning + new.ok =
           rep.error + rep.warning + rep.ok + (IF e.status # "skipped" THEN 1 ELSE 0)
  <2> HIDE DEF e
  <2>1. /\ \A s : Count(e, s) \in {0, 1}
        /\ Count(e, "error") + Count(e, "warning") + Count(e, "ok")
             = IF e.status # "skipped" THEN 1 ELSE 0
    BY <1>10, CountsOne
  <2>2. /\ new.ok = rep.ok + Count(e, "ok")
        /\ new.warning = rep.warning + Count(e, "warning")
        /\ new.error = rep.error + Count(e, "error")
    BY <1>2
  <2>3. Count(e, "error") \in Nat /\ Count(e, "warning") \in Nat /\ Count(e, "ok") \in Nat
    BY <2>1
  <2> QED BY <1>10, <2>1, <2>2, <2>3
<1>5. new.error + new.warning + new.ok = Cardinality(Held(seq, k + 1))
  BY <1>4, HeldGrows DEF Tells
<1>6. new.error = 0 => \A i \in 1..(k + 1) : seq[i].status # "error"
  BY <1>2 DEF Tells, Count
<1>7. new.score \in 0..100
  <2>1. new.score = Floor(rep.score - d)
    BY <1>2
  <2>2. Floor(rep.score - d) \in 0..100
    BY <1>10, FloorBounds
  <2> QED BY <2>1, <2>2
<1>8. new.score = 100 => rep.score = 100 /\ d = 0
  BY <1>2, <1>10, FloorBounds
<1>9. new.score = 100 => \A i \in 1..(k + 1) : Deduction(seq[i].status, seq[i].weight) = 0
  <2> SUFFICES ASSUME new.score = 100, NEW i \in 1..(k + 1)
               PROVE  Deduction(seq[i].status, seq[i].weight) = 0
    OBVIOUS
  <2>1. CASE i \in 1..k
    BY <1>8, <2>1 DEF Tells
  <2>2. CASE i = k + 1
    BY <1>8, <2>2 DEF d
  <2> QED BY <2>1, <2>2
<1> QED BY <1>3, <1>4, <1>5, <1>6, <1>7, <1>9 DEF Tells, new

LEMMA EmptyTells ==
  ASSUME NEW seq
  PROVE  Tells(EmptyReport, seq, 0)
<1>1. Held(seq, 0) = {}
  BY DEF Held
<1>2. Cardinality(Held(seq, 0)) = 0
  BY <1>1, FS_EmptySet
<1> QED BY <1>2 DEF Tells, EmptyReport

\* The report tells all results.
LEMMA FoldTells ==
  ASSUME NEW n \in Nat, NEW seq \in [1..n -> Entries]
  PROVE  Tells(FoldLeft(Add, EmptyReport, seq), seq, n)
<1>1. DOMAIN seq = 1..n
  OBVIOUS
<1>2. PICK h : Table(h, n, seq) /\ FoldLeft(Add, EmptyReport, seq) = h[1..n]
  BY <1>1, FoldIsTable
<1> DEFINE S == {k \in Nat : k <= n => Tells(h[1..k], seq, k)}
<1>3. 0 \in S
  BY <1>2, TableTurns, EmptyTells
<1>4. ASSUME NEW k \in S
      PROVE  k + 1 \in S
  <2> SUFFICES ASSUME k + 1 <= n PROVE Tells(h[1..(k + 1)], seq, k + 1)
    OBVIOUS
  <2>1. k \in Nat /\ Tells(h[1..k], seq, k)
    OBVIOUS
  <2>2. k + 1 \in 1..n /\ (k + 1) - 1 = k
    BY <2>1
  <2>3. h[1..(k + 1)] = Add(h[1..k], seq[k + 1])
    BY <1>2, <2>2, TableTurns
  <2>4. seq[k + 1] \in Entries
    BY <2>2
  <2> QED BY <2>1, <2>3, <2>4, AddTells
<1>5. S = Nat
  <2>1. S \in SUBSET Nat
    OBVIOUS
  <2> HIDE DEF S
  <2> QED BY <1>3, <1>4, <2>1, SetInduction
<1>6. Tells(h[1..n], seq, n)
  BY <1>5
<1> QED BY <1>2, <1>6

-----------------------------------------------------------------------------
(* The checks. *)

Said == {"ok", "warning", "error", "skipped"}

\* Whatever a check finds out, it says so, or it raises.
LEMMA OutcomesSay ==
  /\ \A name \in DOMAIN Outcomes : \A o \in Outcomes[name] : o = Raised \/ o.status \in Said
  /\ \A o \in Outcomes["packet_loss"] : o.heard \/ (o # Raised /\ o.status = "error")
  /\ \A o \in Outcomes["reachability"] : o.heard \/ (o # Raised /\ o.status = "error")
<1>1. ASSUME NEW statuses \in SUBSET Said, NEW o \in Silent(statuses)
      PROVE  o.status \in Said
  BY DEF Silent, Outcome
<1>2. ASSUME NEW o \in DiskOutcomes \cup CpuOutcomes \cup MemoryOutcomes
      PROVE  o = Raised \/ o.status \in Said
  BY DEF DiskOutcomes, CpuOutcomes, MemoryOutcomes, Silent, Outcome, FreeSpaceStatus,
         LoadStatus, Said
<1>3. ASSUME NEW o \in DefenderOutcomes \cup BitlockerOutcomes \cup UpdateOutcomes
                         \cup RiskyPortsOutcomes \cup Ipv6Outcomes
      PROVE  o.status \in Said
  BY DEF DefenderOutcomes, BitlockerOutcomes, UpdateOutcomes, RiskyPortsOutcomes, Ipv6Outcomes,
         Silent, Outcome, Said
<1>4. ASSUME NEW o \in PingOutcomes(5, GatewayStatus) \cup PingOutcomes(20, LossStatus)
                         \cup PingOutcomes(15, LatencyStatus)
                         \cup PingOutcomes(5, ReachabilityStatus)
      PROVE  o.status \in Said
  BY DEF PingOutcomes, Outcome, GatewayStatus, LossStatus, LatencyStatus, ReachabilityStatus, Said
<1>5. ASSUME NEW o \in Silent({DnsStatus(n) : n \in 0..3}) \cup Silent({"warning"})
                         \cup Silent({SubnetStatus(n) : n \in 0..2})
                         \cup Silent({DhcpStatus(n) : n \in 0..2}) \cup Silent({"skipped"})
                         \cup Silent({PortCountStatus(n) : n \in 0..MaxPorts})
      PROVE  o.status \in Said
  BY DEF Silent, Outcome, DnsStatus, SubnetStatus, DhcpStatus, PortCountStatus, Said
<1>6. ASSUME NEW s \in Stats(20)
      PROVE  s.loss < 100 \/ LossStatus(s) = "error"
  BY DEF Stats, LossStatus
<1>7. ASSUME NEW s \in Stats(5)
      PROVE  s.loss < 100 \/ ReachabilityStatus(s) = "error"
  BY DEF Stats, ReachabilityStatus
<1>8. \A o \in PingOutcomes(20, LossStatus) : o.heard \/ (o # Raised /\ o.status = "error")
  <2> TAKE o \in PingOutcomes(20, LossStatus)
  <2>1. PICK s \in Stats(20) : o = Outcome(LossStatus(s), s.loss < 100)
    BY DEF PingOutcomes
  <2> QED BY <1>6, <2>1 DEF Outcome, Raised
<1>9. \A o \in PingOutcomes(5, ReachabilityStatus) : o.heard \/ (o # Raised /\ o.status = "error")
  <2> TAKE o \in PingOutcomes(5, ReachabilityStatus)
  <2>1. PICK s \in Stats(5) : o = Outcome(ReachabilityStatus(s), s.loss < 100)
    BY DEF PingOutcomes
  <2> QED BY <1>7, <2>1 DEF Outcome, Raised
<1>10. ASSUME NEW name \in DOMAIN Outcomes, NEW o \in Outcomes[name]
       PROVE  o = Raised \/ o.status \in Said
  <2>1. /\ Outcomes["dns"] = Silent({DnsStatus(n) : n \in 0..3})
        /\ Outcomes["gateway"] = Silent({"warning"}) \cup PingOutcomes(5, GatewayStatus)
        /\ Outcomes["packet_loss"] = PingOutcomes(20, LossStatus)
        /\ Outcomes["latency"] = PingOutcomes(15, LatencyStatus)
        /\ Outcomes["subnet"] = Silent({SubnetStatus(n) : n \in 0..2})
        /\ Outcomes["dhcp"] = Silent({DhcpStatus(n) : n \in 0..2})
        /\ Outcomes["ipv6"] = Ipv6Outcomes
        /\ Outcomes["disk"] = DiskOutcomes
        /\ Outcomes["cpu"] = CpuOutcomes
        /\ Outcomes["memory"] = MemoryOutcomes
        /\ Outcomes["defender"] = DefenderOutcomes
        /\ Outcomes["bitlocker"] = BitlockerOutcomes
        /\ Outcomes["update"] = UpdateOutcomes
        /\ Outcomes["unavailable"] = Silent({"skipped"})
        /\ Outcomes["reachability"] = PingOutcomes(5, ReachabilityStatus)
        /\ Outcomes["ports"] = RiskyPortsOutcomes
        /\ Outcomes["port_count"] = Silent({PortCountStatus(n) : n \in 0..MaxPorts})
    BY DEF Outcomes
  <2>2. name \in {"dns", "gateway", "packet_loss", "latency", "subnet", "dhcp", "ipv6",
                  "disk", "cpu", "memory", "defender", "bitlocker", "update",
                  "unavailable", "reachability", "ports", "port_count"}
    BY DEF Outcomes
  <2> QED BY <1>2, <1>3, <1>4, <1>5, <2>1, <2>2
<1>11. /\ Outcomes["packet_loss"] = PingOutcomes(20, LossStatus)
       /\ Outcomes["reachability"] = PingOutcomes(5, ReachabilityStatus)
  BY DEF Outcomes
<1> QED BY <1>8, <1>9, <1>10, <1>11

\* The checks of each report have outcomes, and in a health report weights.
LEMMA ChecksKnown ==
  ASSUME NEW k \in DOMAIN Checks
  PROVE  /\ Len(Checks[k]) \in Nat /\ Len(Checks[k]) > 0
         /\ DOMAIN Checks[k] = 1..Len(Checks[k])
         /\ \A i \in DOMAIN Checks[k] :
              /\ Checks[k][i].name \in DOMAIN Outcomes
              /\ Checks[k][i].weight \in Nat
              /\ k # "diagnose" => Checks[k][i].weight >= 2
<1> DEFINE Known(c) == c.name \in DOMAIN Outcomes /\ c.weight \in Nat
<1>1. \A name, weight : Weighed(name, weight).name = name /\ Weighed(name, weight).weight = weight
  BY DEF Weighed
<1>2. DOMAIN Outcomes = {"dns", "gateway", "packet_loss", "latency", "subnet", "dhcp", "ipv6",
                         "disk", "cpu", "memory", "defender", "bitlocker", "update",
                         "unavailable", "reachability", "ports", "port_count"}
  BY DEF Outcomes
<1>3. CASE k = "diagnose"
  <2>1. Len(Checks[k]) = 7 /\ DOMAIN Checks[k] = 1..7
    BY <1>3 DEF Checks
  <2>2. \A i \in 1..7 : Known(Checks[k][i])
    <3>1. /\ Checks[k][1] = [name |-> "dns", weight |-> 0]
          /\ Checks[k][2] = [name |-> "gateway", weight |-> 0]
          /\ Checks[k][3] = [name |-> "packet_loss", weight |-> 0]
          /\ Checks[k][4] = [name |-> "latency", weight |-> 0]
          /\ Checks[k][5] = [name |-> "subnet", weight |-> 0]
          /\ Checks[k][6] = [name |-> "dhcp", weight |-> 0]
          /\ Checks[k][7] = [name |-> "ipv6", weight |-> 0]
      BY <1>3 DEF Checks, Weighed
    <3>2. ASSUME NEW i \in 1..7
          PROVE  i = 1 \/ i = 2 \/ i = 3 \/ i = 4 \/ i = 5 \/ i = 6 \/ i = 7
      OBVIOUS
    <3> QED BY <1>2, <3>1, <3>2
  <2> QED BY <1>3, <2>1, <2>2
<1>4. CASE k = "windows"
  <2>1. Len(Checks[k]) = 6 /\ DOMAIN Checks[k] = 1..6
    BY <1>4 DEF Checks
  <2>2. \A i \in 1..6 : Known(Checks[k][i]) /\ Checks[k][i].weight >= 2
    <3>1. /\ Checks[k][1] = [name |-> "disk", weight |-> 20]
          /\ Checks[k][2] = [name |-> "cpu", weight |-> 15]
          /\ Checks[k][3] = [name |-> "memory", weight |-> 15]
          /\ Checks[k][4] = [name |-> "defender", weight |-> 20]
          /\ Checks[k][5] = [name |-> "bitlocker", weight |-> 15]
          /\ Checks[k][6] = [name |-> "update", weight |-> 15]
      BY <1>4 DEF Checks, Weighed
    <3>2. ASSUME NEW i \in 1..6
          PROVE  i = 1 \/ i = 2 \/ i = 3 \/ i = 4 \/ i = 5 \/ i = 6
      OBVIOUS
    <3> QED BY <1>2, <3>1, <3>2
  <2> QED BY <2>1, <2>2
<1>5. CASE k = "local"
  <2>1. Len(Checks[k]) = 6 /\ DOMAIN Checks[k] = 1..6
    BY <1>5 DEF Checks
  <2>2. \A i \in 1..6 : Known(Checks[k][i]) /\ Checks[k][i].weight >= 2
    <3>1. /\ Checks[k][1] = [name |-> "disk", weight |-> 20]
          /\ Checks[k][2] = [name |-> "cpu", weight |-> 15]
          /\ Checks[k][3] = [name |-> "memory", weight |-> 15]
          /\ Checks[k][4] = [name |-> "unavailable", weight |-> 20]
          /\ Checks[k][5] = [name |-> "unavailable", weight |-> 15]
          /\ Checks[k][6] = [name |-> "unavailable", weight |-> 15]
      BY <1>5 DEF Checks, Weighed
    <3>2. ASSUME NEW i \in 1..6
          PROVE  i = 1 \/ i = 2 \/ i = 3 \/ i = 4 \/ i = 5 \/ i = 6
      OBVIOUS
    <3> QED BY <1>2, <3>1, <3>2
  <2> QED BY <2>1, <2>2
<1>6. CASE k = "network"
  <2>1. Len(Checks[k]) = 3 /\ DOMAIN Checks[k] = 1..3
    BY <1>6 DEF Checks
  <2>2. \A i \in 1..3 : Known(Checks[k][i]) /\ Checks[k][i].weight >= 2
    <3>1. /\ Checks[k][1] = [name |-> "reachability", weight |-> 30]
          /\ Checks[k][2] = [name |-> "ports", weight |-> 30]
          /\ Checks[k][3] = [name |-> "port_count", weight |-> 20]
      BY <1>6 DEF Checks, Weighed
    <3>2. ASSUME NEW i \in 1..3
          PROVE  i = 1 \/ i = 2 \/ i = 3
      OBVIOUS
    <3> QED BY <1>2, <3>1, <3>2
  <2> QED BY <2>1, <2>2
<1> QED BY <1>3, <1>4, <1>5, <1>6 DEF Checks

\* The checks of a report are under way or have found something out, and it
\* is made of what they found out, once all have.
CheckupInv ==
  /\ kind \in DOMAIN Checks \cup {"none"}
  /\ kind = "none" => check = <<>> /\ report = EmptyReport
  /\ kind # "none" =>
       /\ DOMAIN check = DOMAIN Checks[kind]
       /\ \A i \in DOMAIN check :
            check[i] = Running \/ check[i] \in Outcomes[Checks[kind][i].name]
  /\ Reported => Gathered /\ report = FoldLeft(Add, EmptyReport, Results)

LEMMA CheckupInitInv == CheckupInit => CheckupInv
BY DEF CheckupInit, CheckupInv, Reported

LEMMA CheckupNextInv == CheckupInv /\ [CheckupNext]_checkupVars => CheckupInv'
<1> SUFFICES ASSUME CheckupInv, [CheckupNext]_checkupVars PROVE CheckupInv'
  OBVIOUS
<1>1. ASSUME NEW k \in DOMAIN Checks, StartChecks(k) PROVE CheckupInv'
  <2>1. kind' = k /\ k # "none" /\ report' = EmptyReport
    BY <1>1 DEF StartChecks, CheckupInv, Checks
  <2> QED BY <1>1, <2>1 DEF StartChecks, CheckupInv, Reported
<1>2. ASSUME NEW i \in DOMAIN check, EndCheck(i) PROVE CheckupInv'
  <2>1. ~ Gathered /\ ~ Reported
    BY <1>2 DEF EndCheck, Gathered, CheckupInv
  <2>2. kind # "none"
    BY <1>2 DEF CheckupInv
  <2> QED BY <1>2, <2>1, <2>2 DEF EndCheck, CheckupInv, Reported
<1>3. CASE Gather
  BY <1>3 DEF Gather, CheckupInv, Gathered, Reported, Results
<1>4. CASE UNCHANGED checkupVars
  BY <1>4 DEF checkupVars, CheckupInv, Gathered, Reported, Results
<1> QED BY <1>1, <1>2, <1>3, <1>4 DEF CheckupNext, RunChecks

LEMMA CheckupInvHolds == CheckupSpec => []CheckupInv
BY CheckupInitInv, CheckupNextInv, PTL DEF CheckupSpec

\* The results of a report that is made are entries.
LEMMA ResultsAreEntries ==
  ASSUME CheckupInv, Reported
  PROVE  /\ kind \in DOMAIN Checks
         /\ DOMAIN check = 1..Len(Checks[kind])
         /\ Results \in [1..Len(Checks[kind]) -> Entries]
         /\ \A i \in DOMAIN check :
              /\ check[i] \in Outcomes[Checks[kind][i].name]
              /\ check[i] = Raised \/ check[i].status \in Said
              /\ Results[i] = Entry(Checks[kind][i].name, Checks[kind][i].weight, check[i])
<1>1. kind \in DOMAIN Checks
  BY DEF CheckupInv, Reported
<1>2. DOMAIN check = 1..Len(Checks[kind]) /\ DOMAIN Checks[kind] = 1..Len(Checks[kind])
  BY <1>1, ChecksKnown DEF CheckupInv, Checks
<1>3. ASSUME NEW i \in DOMAIN check
      PROVE  /\ check[i] \in Outcomes[Checks[kind][i].name]
             /\ check[i] = Raised \/ check[i].status \in Said
             /\ Results[i] = Entry(Checks[kind][i].name, Checks[kind][i].weight, check[i])
             /\ Results[i] \in Entries
  <2>1. check[i] \in Outcomes[Checks[kind][i].name]
    BY <1>1, <1>3 DEF CheckupInv, Gathered, Checks
  <2>2. Checks[kind][i].name \in DOMAIN Outcomes /\ Checks[kind][i].weight \in Nat
    BY <1>1, <1>2, ChecksKnown
  <2>3. check[i] = Raised \/ check[i].status \in Said
    BY <2>1, <2>2, OutcomesSay
  <2>4. Results[i] = Entry(Checks[kind][i].name, Checks[kind][i].weight, check[i])
    BY DEF Results
  <2>5. Results[i] \in Entries
    BY <2>2, <2>3, <2>4 DEF Entry, Entries, Said
  <2> QED BY <2>1, <2>3, <2>4, <2>5
<1>4. Results \in [1..Len(Checks[kind]) -> Entries]
  BY <1>2, <1>3 DEF Results
<1> QED BY <1>1, <1>2, <1>3, <1>4

\* So the report tells them all.
LEMMA ReportTells ==
  ASSUME CheckupInv, Reported
  PROVE  Tells(report, Results, Len(Checks[kind]))
<1>1. kind \in DOMAIN Checks /\ Results \in [1..Len(Checks[kind]) -> Entries]
  BY ResultsAreEntries
<1>2. Len(Checks[kind]) \in Nat
  BY <1>1, ChecksKnown
<1>3. report = FoldLeft(Add, EmptyReport, Results)
  BY DEF CheckupInv
<1> QED BY <1>1, <1>2, <1>3, FoldTells

LEMMA ReportIsComplete == CheckupInv => ReportComplete
<1> SUFFICES ASSUME CheckupInv, Reported
             PROVE  /\ Len(report.checks) = Len(Checks[kind])
                    /\ \A i \in DOMAIN report.checks :
                         IF check[i] = Raised THEN report.checks[i].status = "error"
                         ELSE /\ report.checks[i].name = Checks[kind][i].name
                              /\ report.checks[i].status = check[i].status
                    /\ report.error + report.warning + report.ok
                         = Cardinality({i \in DOMAIN check : check[i].status # "skipped"})
  BY DEF ReportComplete
<1> DEFINE n == Len(Checks[kind])
<1>1. Tells(report, Results, n)
  BY ReportTells
<1>2. DOMAIN check = 1..n
  BY ResultsAreEntries
<1>3. Len(report.checks) = n /\ DOMAIN report.checks = 1..n
  BY <1>1 DEF Tells
<1>4. ASSUME NEW i \in 1..n
      PROVE  /\ IF check[i] = Raised THEN report.checks[i].status = "error"
                ELSE /\ report.checks[i].name = Checks[kind][i].name
                     /\ report.checks[i].status = check[i].status
             /\ Results[i].status # "skipped" <=> check[i].status # "skipped"
  <2>1. /\ report.checks[i] = Results[i]
        /\ Results[i] = Entry(Checks[kind][i].name, Checks[kind][i].weight, check[i])
    BY <1>1, <1>2, ResultsAreEntries DEF Tells
  <2>2. Raised.status = "raised"
    BY DEF Raised, Outcome
  <2> QED BY <2>1, <2>2 DEF Entry
<1>5. Held(Results, n) = {i \in DOMAIN check : check[i].status # "skipped"}
  BY <1>2, <1>4 DEF Held
<1> QED BY <1>1, <1>3, <1>4, <1>5 DEF Tells

LEMMA PerfectIsClean == CheckupInv => PerfectMeansClean
<1> SUFFICES ASSUME CheckupInv, Reported, kind # "diagnose", report.score = 100,
                    NEW i \in DOMAIN check
             PROVE  check[i].status \in {"ok", "skipped", "raised"}
  BY DEF PerfectMeansClean
<1> DEFINE n == Len(Checks[kind])
           w == Checks[kind][i].weight
<1>1. kind \in DOMAIN Checks /\ DOMAIN check = 1..n /\ i \in 1..n
  BY ResultsAreEntries
<1>2. w \in Nat /\ w >= 2 /\ w \div 2 # 0
  <2>1. w \in Nat /\ w >= 2
    BY <1>1, ChecksKnown
  <2> HIDE DEF w
  <2> QED BY <2>1
<1>3. Deduction(Results[i].status, Results[i].weight) = 0
  BY <1>1, ReportTells DEF Tells
<1>4. Results[i] = Entry(Checks[kind][i].name, w, check[i])
  BY ResultsAreEntries
<1>5. CASE check[i] = Raised
  BY <1>5 DEF Raised, Outcome
<1>6. CASE check[i] # Raised
  <2>1. Results[i].status = check[i].status /\ Results[i].weight = w
    BY <1>4, <1>6 DEF Entry
  <2>2. check[i].status \in Said
    BY <1>6, ResultsAreEntries
  <2> QED BY <1>2, <1>3, <2>1, <2>2 DEF Deduction, Said
<1> QED BY <1>5, <1>6

LEMMA SilenceIsError == CheckupInv => SilenceIsAnError
<1> SUFFICES ASSUME CheckupInv, Reported, kind \in {"diagnose", "network"},
                    \A i \in DOMAIN check : ~ check[i].heard
             PROVE  report.error > 0
  BY DEF SilenceIsAnError
<1> DEFINE n == Len(Checks[kind])
<1>1. DOMAIN check = 1..n /\ Tells(report, Results, n)
  BY ResultsAreEntries, ReportTells
<1>2. ASSUME NEW i \in 1..n, check[i] # Raised, check[i].status = "error"
      PROVE  report.error > 0
  <2>1. Results[i].status = "error"
    BY <1>1, <1>2, ResultsAreEntries DEF Entry
  <2> QED BY <1>1, <2>1 DEF Tells
<1>3. CASE kind = "diagnose"
  <2>1. n = 7 /\ Checks[kind][3].name = "packet_loss"
    BY <1>3 DEF Checks, Weighed
  <2>2. check[3] \in Outcomes["packet_loss"] /\ ~ check[3].heard
    BY <1>1, <2>1, ResultsAreEntries
  <2> QED BY <1>2, <2>1, <2>2, OutcomesSay
<1>4. CASE kind = "network"
  <2>1. n = 3 /\ Checks[kind][1].name = "reachability"
    BY <1>4 DEF Checks, Weighed
  <2>2. check[1] \in Outcomes["reachability"] /\ ~ check[1].heard
    BY <1>1, <2>1, ResultsAreEntries
  <2> QED BY <1>2, <2>1, <2>2, OutcomesSay
<1> QED BY <1>3, <1>4

\* A report has an entry for each check, in their order, and counts them.
THEOREM CompleteHolds == CheckupSpec => []ReportComplete
BY CheckupInvHolds, ReportIsComplete, PTL

\* A perfect score means that nothing was found.
THEOREM PerfectHolds == CheckupSpec => []PerfectMeansClean
BY CheckupInvHolds, PerfectIsClean, PTL

\* The silence of a network is an error of the report about it.
THEOREM SilenceHolds == CheckupSpec => []SilenceIsAnError
BY CheckupInvHolds, SilenceIsError, PTL

\* The types of the report, and what its score is between.
CheckupTypes ==
  /\ kind \in DOMAIN Checks \cup {"none"}
  /\ kind # "none" => DOMAIN check = DOMAIN Checks[kind]
  /\ report.score \in 0..100

LEMMA CheckupInvTypes == CheckupInv => CheckupTypes
<1> SUFFICES ASSUME CheckupInv PROVE CheckupTypes
  OBVIOUS
<1>1. report.score \in 0..100
  <2>1. CASE Reported
    BY <2>1, ReportTells DEF Tells
  <2>2. CASE ~ Reported
    BY <2>2 DEF Reported, EmptyReport
  <2> QED BY <2>1, <2>2
<1> QED BY <1>1 DEF CheckupInv, CheckupTypes

\* What some checks cannot find out.
LEMMA OutcomesBounded ==
  /\ \A o \in Outcomes["bitlocker"] \cup Outcomes["ports"] \cup Outcomes["port_count"] :
       o # Raised /\ o.status # "error"
  /\ \A o \in Outcomes["update"] \cup Outcomes["unavailable"] :
       o # Raised /\ o.status \in {"ok", "skipped"}
  /\ MaxPorts <= 15 => \A o \in Outcomes["port_count"] : o.status = "ok"
<1> DEFINE Counts == Silent({PortCountStatus(n) : n \in 0..MaxPorts})
<1>1. /\ Outcomes["bitlocker"] = BitlockerOutcomes /\ Outcomes["ports"] = RiskyPortsOutcomes
      /\ Outcomes["port_count"] = Counts
      /\ Outcomes["update"] = UpdateOutcomes /\ Outcomes["unavailable"] = Silent({"skipped"})
  BY DEF Outcomes
<1>2. \A o \in BitlockerOutcomes \cup RiskyPortsOutcomes : o # Raised /\ o.status # "error"
  BY DEF BitlockerOutcomes, RiskyPortsOutcomes, Silent, Outcome, Raised
<1>3. \A o \in UpdateOutcomes \cup Silent({"skipped"}) :
        o # Raised /\ o.status \in {"ok", "skipped"}
  BY DEF UpdateOutcomes, Silent, Outcome, Raised
<1>4. ASSUME NEW o \in Counts
      PROVE  o # Raised /\ o.status # "error" /\ (MaxPorts <= 15 => o.status = "ok")
  <2>1. PICK n \in 0..MaxPorts : o = Outcome(PortCountStatus(n), FALSE)
    BY DEF Silent
  <2> QED BY <2>1, TimesAssumption DEF Outcome, PortCountStatus, Raised
<1> QED BY <1>1, <1>2, <1>3, <1>4

\* A score is what the deductions leave, if what they take is known.
LEMMA FoldCosts ==
  ASSUME NEW n \in Nat, NEW seq \in [1..n -> Entries], NEW c \in [0..n -> Nat], c[0] = 0,
         \A k \in 1..n : c[k - 1] + Deduction(seq[k].status, seq[k].weight) <= c[k]
  PROVE  FoldLeft(Add, EmptyReport, seq).score >= 100 - c[n]
<1>1. DOMAIN seq = 1..n
  OBVIOUS
<1>2. PICK h : Table(h, n, seq) /\ FoldLeft(Add, EmptyReport, seq) = h[1..n]
  BY <1>1, FoldIsTable
<1>6. h[1..0] = EmptyReport /\ \A k \in 1..n : h[1..k] = Add(h[1..(k - 1)], seq[k])
  <2>1. Table(h, n, seq)
    BY <1>2
  <2> QED BY <2>1, TableTurns, Zenon
<1> DEFINE S == {k \in Nat : k <= n => h[1..k].score \in Nat /\ h[1..k].score >= 100 - c[k]}
<1>3. 0 \in S
  <2>1. h[1..0].score = 100
    BY <1>2, TableTurns DEF EmptyReport
  <2> QED BY <2>1
<1>4. ASSUME NEW k \in S
      PROVE  k + 1 \in S
  <2> SUFFICES ASSUME k + 1 <= n
               PROVE  h[1..(k + 1)].score \in Nat /\ h[1..(k + 1)].score >= 100 - c[k + 1]
    OBVIOUS
  <2>2. k \in Nat /\ k + 1 \in 1..n /\ (k + 1) - 1 = k
    OBVIOUS
  <2>3. h[1..(k + 1)] = Add(h[1..k], seq[k + 1])
    BY <1>6, <2>2
  <2> DEFINE score == h[1..k].score
             d == Deduction(seq[k + 1].status, seq[k + 1].weight)
  <2>1. k \in Nat /\ score \in Nat /\ score >= 100 - c[k] /\ c[k] \in Nat /\ c[k + 1] \in Nat
    OBVIOUS
  <2>4. h[1..(k + 1)].score = Floor(score - d)
    BY <2>3 DEF Add
  <2>5. d \in Nat /\ c[k] + d <= c[k + 1]
    <3>1. seq[k + 1] \in Entries
      BY <2>2
    <3> QED BY <2>2, <3>1, DeductionType
  <2> HIDE DEF score, d
  <2>6. Floor(score - d) \in Nat /\ Floor(score - d) >= score - d
    BY <2>1, <2>5 DEF Floor
  <2>7. score - d >= 100 - c[k + 1]
    BY <2>1, <2>5
  <2>8. Floor(score - d) >= 100 - c[k + 1]
    BY <2>1, <2>5, <2>6, <2>7
  <2> QED BY <2>4, <2>6, <2>8
<1>5. S = Nat
  <2>1. S \in SUBSET Nat
    OBVIOUS
  <2> HIDE DEF S
  <2> QED BY <1>3, <1>4, <2>1, SetInduction
<1> QED BY <1>2, <1>5

\* What the checks of a set leave at least: some only ever warn, some find out
\* nothing on this system, and one is never told of more than MaxPorts ports.
Bottom == [diagnose |-> 100, windows |-> 23, local |-> 50,
           network |-> IF MaxPorts > 15 THEN 45 ELSE 55]

ScoreHasBottom == Reported => report.score >= Bottom[kind]

\* Each check takes what it takes at most, and what is left is the bottom.
LEMMA ScoreBottom == CheckupInv => ScoreHasBottom
<1> SUFFICES ASSUME CheckupInv, Reported PROVE report.score >= Bottom[kind]
  BY DEF ScoreHasBottom
<1> DEFINE n == Len(Checks[kind])
           d(i) == Deduction(Results[i].status, Results[i].weight)
<1>1. /\ kind \in DOMAIN Checks /\ n \in Nat
      /\ DOMAIN check = 1..n /\ Results \in [1..n -> Entries]
      /\ report = FoldLeft(Add, EmptyReport, Results)
  BY ResultsAreEntries, ChecksKnown DEF CheckupInv
<1>2. ASSUME NEW i \in 1..n
      PROVE  /\ d(i) \in Nat /\ d(i) <= Checks[kind][i].weight
             /\ Checks[kind][i].name \in {"bitlocker", "ports", "port_count"} =>
                  d(i) <= Checks[kind][i].weight \div 2
             /\ Checks[kind][i].name \in {"update", "unavailable"} => d(i) = 0
             /\ Checks[kind][i].name = "port_count" /\ MaxPorts <= 15 => d(i) = 0
  <2> DEFINE w == Checks[kind][i].weight
             name == Checks[kind][i].name
  <2>1. w \in Nat /\ i \in DOMAIN check
    BY <1>1, ChecksKnown
  <2>2. /\ check[i] \in Outcomes[name]
        /\ check[i] = Raised \/ check[i].status \in Said
        /\ Results[i] = Entry(name, w, check[i])
    BY <2>1, ResultsAreEntries
  <2>3. d(i) \in Nat /\ d(i) <= w
    BY <2>1, <2>2 DEF Entry, Deduction, Said
  <2>4. check[i] # Raised => d(i) = Deduction(check[i].status, w)
    BY <2>2 DEF Entry
  <2>5. name \in {"bitlocker", "ports", "port_count"} => d(i) <= w \div 2
    <3>1. SUFFICES ASSUME check[i] # Raised, check[i].status # "error" PROVE d(i) <= w \div 2
      BY <2>2, OutcomesBounded
    <3> HIDE DEF w
    <3>2. w \div 2 \in Nat
      BY <2>1
    <3> QED BY <2>1, <2>4, <3>1, <3>2 DEF Deduction
  <2>6. check[i] # Raised /\ check[i].status \in {"ok", "skipped"} => d(i) = 0
    BY <2>4 DEF Deduction
  <2>7. name \in {"update", "unavailable"} => d(i) = 0
    BY <2>2, <2>6, OutcomesBounded
  <2>8. name = "port_count" /\ MaxPorts <= 15 => d(i) = 0
    BY <2>2, <2>6, OutcomesBounded
  <2> QED BY <2>3, <2>5, <2>7, <2>8
<1>3. ASSUME NEW c \in [0..n -> Nat], c[0] = 0, \A k \in 1..n : c[k - 1] + d(k) <= c[k]
      PROVE  report.score >= 100 - c[n]
  BY <1>1, <1>3, FoldCosts
<1> HIDE DEF d
<1>4. CASE kind = "diagnose"
  <2> DEFINE c == [k \in 0..7 |-> 0]
  <2>1. n = 7 /\ \A i \in 1..7 : Checks[kind][i].weight = 0
    BY <1>4 DEF Checks, Weighed
  <2>2. \A k \in 1..7 : d(k) = 0
    BY <1>2, <2>1
  <2>3. c \in [0..7 -> Nat] /\ c[0] = 0 /\ c[7] = 0 /\ \A k \in 1..7 : c[k - 1] = 0 /\ c[k] = 0
    OBVIOUS
  <2>4. \A k \in 1..7 : c[k - 1] + d(k) <= c[k]
    BY <2>2, <2>3
  <2>5. Bottom[kind] = 100 - c[7]
    BY <1>4, <2>3 DEF Bottom
  <2> HIDE DEF c
  <2> QED BY <1>3, <2>1, <2>3, <2>4, <2>5
<1>5. CASE kind = "windows"
  <2> DEFINE c == [k \in 0..6 |-> <<0, 20, 35, 50, 70, 77, 77>>[k + 1]]
  <2>1. /\ n = 6
        /\ Checks[kind][1].weight = 20 /\ Checks[kind][2].weight = 15
        /\ Checks[kind][3].weight = 15 /\ Checks[kind][4].weight = 20
        /\ Checks[kind][5].weight = 15 /\ Checks[kind][5].name = "bitlocker"
        /\ Checks[kind][6].name = "update"
    BY <1>5 DEF Checks, Weighed
  <2>2. d(1) <= 20 /\ d(2) <= 15 /\ d(3) <= 15 /\ d(4) <= 20 /\ d(5) <= 7 /\ d(6) = 0
    BY <1>2, <2>1
  <2>3. c \in [0..6 -> Nat] /\ c[0] = 0 /\ c[1] = 20 /\ c[2] = 35 /\ c[3] = 50 /\ c[4] = 70 /\ c[5] = 77 /\ c[6] = 77
    OBVIOUS
  <2>4. \A k \in 1..6 : c[k - 1] + d(k) <= c[k]
    <3> TAKE k \in 1..6
    <3>1. k = 1 \/ k = 2 \/ k = 3 \/ k = 4 \/ k = 5 \/ k = 6
      OBVIOUS
    <3> HIDE DEF c
    <3> QED BY <1>2, <2>1, <2>2, <2>3, <3>1
  <2>5. Bottom[kind] = 100 - c[6]
    BY <1>5, <2>3 DEF Bottom
  <2> HIDE DEF c
  <2> QED BY <1>3, <2>1, <2>3, <2>4, <2>5
<1>6. CASE kind = "local"
  <2> DEFINE c == [k \in 0..6 |-> <<0, 20, 35, 50, 50, 50, 50>>[k + 1]]
  <2>1. /\ n = 6
        /\ Checks[kind][1].weight = 20 /\ Checks[kind][2].weight = 15
        /\ Checks[kind][3].weight = 15 /\ Checks[kind][4].name = "unavailable"
        /\ Checks[kind][5].name = "unavailable" /\ Checks[kind][6].name = "unavailable"
    BY <1>6 DEF Checks, Weighed
  <2>2. d(1) <= 20 /\ d(2) <= 15 /\ d(3) <= 15 /\ d(4) = 0 /\ d(5) = 0 /\ d(6) = 0
    BY <1>2, <2>1
  <2>3. c \in [0..6 -> Nat] /\ c[0] = 0 /\ c[1] = 20 /\ c[2] = 35 /\ c[3] = 50 /\ c[4] = 50 /\ c[5] = 50 /\ c[6] = 50
    OBVIOUS
  <2>4. \A k \in 1..6 : c[k - 1] + d(k) <= c[k]
    <3> TAKE k \in 1..6
    <3>1. k = 1 \/ k = 2 \/ k = 3 \/ k = 4 \/ k = 5 \/ k = 6
      OBVIOUS
    <3> HIDE DEF c
    <3> QED BY <1>2, <2>1, <2>2, <2>3, <3>1
  <2>5. Bottom[kind] = 100 - c[6]
    BY <1>6, <2>3 DEF Bottom
  <2> HIDE DEF c
  <2> QED BY <1>3, <2>1, <2>3, <2>4, <2>5
<1>7. CASE kind = "network"
  <2> DEFINE last == IF MaxPorts > 15 THEN 55 ELSE 45
             c == [k \in 0..3 |-> <<0, 30, 45, last>>[k + 1]]
  <2>1. /\ n = 3
        /\ Checks[kind][1].weight = 30
        /\ Checks[kind][2].weight = 30 /\ Checks[kind][2].name = "ports"
        /\ Checks[kind][3].weight = 20 /\ Checks[kind][3].name = "port_count"
    BY <1>7 DEF Checks, Weighed
  <2>2. d(1) <= 30 /\ d(2) <= 15 /\ d(3) <= 10 /\ (MaxPorts <= 15 => d(3) = 0)
    BY <1>2, <2>1
  <2>3. c \in [0..3 -> Nat] /\ c[0] = 0 /\ c[1] = 30 /\ c[2] = 45 /\ c[3] = last
    BY TimesAssumption
  <2>4. \A k \in 1..3 : c[k - 1] + d(k) <= c[k]
    <3> TAKE k \in 1..3
    <3>1. k = 1 \/ k = 2 \/ k = 3
      OBVIOUS
    <3> HIDE DEF c
    <3> QED BY <1>2, <2>1, <2>2, <2>3, <3>1, TimesAssumption
  <2>5. Bottom[kind] = 100 - c[3]
    BY <1>7, <2>3, TimesAssumption DEF Bottom
  <2> HIDE DEF c
  <2> QED BY <1>3, <2>1, <2>3, <2>4, <2>5
<1> QED BY <1>1, <1>4, <1>5, <1>6, <1>7 DEF Checks

\* No health report goes below what the checks of its set can take from it,
\* and none reaches the 0 of health/models.py:26: WorstIsZero fails of each.
THEOREM BottomHolds == CheckupSpec => []ScoreHasBottom
BY CheckupInvHolds, ScoreBottom, PTL

-----------------------------------------------------------------------------
(* The commands. *)

\* What a command does, each component does too, or stands still.
LEMMA NextIsComponents ==
  ASSUME [Next]_vars
  PROVE  [MtuNext]_mtuVars /\ [SpeedtestNext]_testVars /\ [CheckupNext]_checkupVars
<1>1. CASE Invoke
  BY <1>1 DEF Invoke, MtuNext, SpeedtestNext, CheckupNext
<1>2. CASE Proceed
  BY <1>2 DEF Proceed, MtuNext, SpeedtestNext, CheckupNext
<1>3. CASE UNCHANGED vars
  BY <1>3 DEF vars
<1> QED BY <1>1, <1>2, <1>3 DEF Next

\* Every invocation is a run of detect_mtu, of the speed test or of the
\* checks, and leaves the others alone.
THEOREM CommandsAreComponents == Spec => MtuSpec /\ SpeedtestSpec /\ CheckupSpec
<1>1. Init => MtuInit /\ SpeedtestInit /\ CheckupInit
  BY DEF Init
<1> QED BY <1>1, NextIsComponents, PTL DEF Spec, MtuSpec, SpeedtestSpec, CheckupSpec

\* What the components promise holds of the commands.
THEOREM CommandsHold ==
  Spec => [](/\ MtuIsRight /\ LossAddsUp /\ ThroughputWithinWindow
             /\ ReportComplete /\ PerfectMeansClean /\ SilenceIsAnError /\ ScoreHasBottom)
BY CommandsAreComponents, MtuRight, LossHolds, ThroughputHolds, CompleteHolds, PerfectHolds,
   SilenceHolds, BottomHolds, PTL

\* The variables of every command keep their types.
THEOREM TypesHold == Spec => []TypeOK
<1>1. MtuTypeOK /\ SpeedtestTypeOK /\ CheckupInv => TypeOK
  BY CheckupInvTypes DEF CheckupTypes, TypeOK
<1> QED BY <1>1, CommandsAreComponents, MtuTypes, SpeedtestTypes, CheckupInvHolds, PTL

=============================================================================
