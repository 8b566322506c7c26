-------------------------- MODULE IperfSessionProofs --------------------------
(***************************************************************************)
(* Proofs about IperfSession for every duration, interval, buffer size and *)
(* bound: types, the reports in transit, the normal end, resets, the       *)
(* clocks, and that the session implements Measurement.                    *)
(***************************************************************************)
EXTENDS IperfSession, TLAPS

(***************************************************************************)
(* Type correctness                                                        *)
(***************************************************************************)

\* What the end of a process does to the other's queue and reset.
LEMMA EndTypes ==
  ASSUME TypeOK
  PROVE  /\ \A pc \in ClientEnded : ClientEnd(pc) =>
              cpc' \in ClientPc /\ srvRst' \in BOOLEAN /\ toClient' \in Seq(Nat)
         /\ \A pc \in ServerEnded, unread \in Seq({"HDR", "TERM"}) :
              ServerEnd(pc, unread) =>
                spc' \in ServerPc /\ cliRst' \in BOOLEAN /\ toServer' \in Seq({"HDR", "TERM"})
<1>1. <<>> \in Seq(Nat)
  OBVIOUS
<1> QED BY <1>1 DEF TypeOK, ClientEnd, ServerEnd, ClientPc, ServerPc,
                    ClientEnded, ServerEnded

\* Headers and datagrams handed to the network.
LEMMA SendTypes ==
  ASSUME TypeOK
  PROVE  /\ \A header \in {"HDR", "TERM"} : HeaderSent(header) =>
              cliRst' \in BOOLEAN /\ toServer' \in Seq({"HDR", "TERM"})
         /\ DatagramSent => udp' \in 0 .. MaxQueue
<1>1. ASSUME NEW header \in {"HDR", "TERM"}, HeaderSent(header)
      PROVE  cliRst' \in BOOLEAN /\ toServer' \in Seq({"HDR", "TERM"})
  <2>1. Append(toServer, header) \in Seq({"HDR", "TERM"})
    BY DEF TypeOK
  <2> QED BY <1>1, <2>1 DEF HeaderSent, TypeOK
<1>2. DatagramSent => udp' \in 0 .. MaxQueue
  BY BoundAssumption DEF TypeOK, DatagramSent
<1> QED BY <1>1, <1>2

LEMMA ClientTypeStep ==
  ASSUME TypeOK, ClientStep \/ ClientFault
  PROVE  TypeOK'
<1> USE DEF serverVars, netVars
<1>1. CASE ClientResolve
  BY <1>1 DEF ClientResolve, TypeOK, ClientPc
<1>2. CASE ClientConnect
  BY <1>2 DEF ClientConnect, TypeOK, ClientPc, ClientEnded
<1>3. CASE ClientSendHeader
  BY <1>3, EndTypes, SendTypes DEF ClientSendHeader, TypeOK, ClientPc, ClientEnded
<1>4. CASE ClientFirstDatagram \/ ClientStartClock
  BY <1>4, SendTypes DEF ClientFirstDatagram, ClientStartClock, TypeOK, ClientPc, ClientRunning
<1>5. CASE ClientCheckStats
  <2>1. toClient # <<>> => Head(toClient) \in Nat /\ Tail(toClient) \in Seq(Nat)
    BY DEF TypeOK
  <2>2. printed' \in Nat /\ toClient' \in Seq(Nat)
    BY <1>5, <2>1 DEF ClientCheckStats, TypeOK
  <2> QED BY <1>5, <2>2 DEF ClientCheckStats, TypeOK, ClientPc, ClientRunning
<1>6. CASE ClientSendDatagram
  <2>1. lastsend' \in BOOLEAN
    <3>1. lastsend' = lastsend \/ lastsend' = (cElapsed >= Duration)
      BY <1>6 DEF ClientSendDatagram
    <3>2. (cElapsed >= Duration) \in BOOLEAN
      OBVIOUS
    <3> QED BY <3>1, <3>2, Zenon DEF TypeOK
  <2> QED BY <1>6, <2>1, SendTypes DEF ClientSendDatagram, TypeOK, ClientPc, ClientRunning
<1>7. CASE ClientSendTerm
  BY <1>7, EndTypes, SendTypes DEF ClientSendTerm, TypeOK, ClientPc, ClientEnded
<1>8. CASE ClientClose
  BY <1>8, EndTypes DEF ClientClose, TypeOK, ClientEnded
<1>9. CASE ClientFault
  BY <1>9, EndTypes DEF ClientFault, TypeOK, ClientEnded
<1> QED BY <1>1, <1>2, <1>3, <1>4, <1>5, <1>6, <1>7, <1>8, <1>9 DEF ClientStep

LEMMA ServerTypeStep ==
  ASSUME TypeOK, ServerStep \/ ServerFault
  PROVE  TypeOK'
<1> USE DEF clientVars, netVars
<1>1. CASE ServerListen \/ ServerAccept \/ ServerBind
  BY <1>1 DEF ServerListen, ServerAccept, ServerBind, TypeOK, ServerPc
<1>2. CASE ServerReadHeader
  BY <1>2 DEF ServerReadHeader, TypeOK, ServerPc
<1>3. CASE ServerReadNothing
  BY <1>3, EndTypes DEF ServerReadNothing, TypeOK, ServerPc, ServerEnded
<1>4. CASE ServerDiscardFirst
  BY <1>4, BoundAssumption DEF ServerDiscardFirst, TypeOK, ServerPc, ServerRunning
<1>5. CASE ServerCount
  BY <1>5, BoundAssumption DEF ServerCount, TypeOK, ServerPc, ServerRunning
<1>6. CASE ServerReport
  BY <1>6, BoundAssumption, DurationAssumption
     DEF ServerReport, TypeOK, ServerPc, ServerRunning
<1>7. CASE ServerDivideByZero
  BY <1>7, EndTypes, BoundAssumption DEF ServerDivideByZero, TypeOK, ServerEnded
<1>8. CASE ServerSendStats
  <2>1. Append(toClient, interval_max) \in Seq(Nat)
    BY DEF TypeOK
  <2> QED BY <1>8, <2>1, EndTypes DEF ServerSendStats, TypeOK, ServerPc, ServerRunning, ServerEnded
<1>9. CASE ServerCheckTerm
  <2>1. toServer # <<>> => Tail(toServer) \in Seq({"HDR", "TERM"})
    BY DEF TypeOK
  <2> QED BY <1>9, <2>1, EndTypes DEF ServerCheckTerm, TypeOK, ServerPc, ServerRunning, ServerEnded
<1>10. CASE ServerFault
  BY <1>10, EndTypes DEF ServerFault, TypeOK, ServerEnded
<1> QED BY <1>1, <1>2, <1>3, <1>4, <1>5, <1>6, <1>7, <1>8, <1>9, <1>10 DEF ServerStep

LEMMA TypeStep ==
  ASSUME TypeOK, [Next]_vars
  PROVE  TypeOK'
<1>1. CASE TickClient
  BY <1>1, BoundAssumption DEF TickClient, TypeOK, serverVars, netVars
<1>2. CASE TickServer
  BY <1>2, BoundAssumption DEF TickServer, TypeOK, clientVars, netVars
<1>3. CASE UNCHANGED vars
  BY <1>3 DEF vars, TypeOK
<1> QED BY <1>1, <1>2, <1>3, ClientTypeStep, ServerTypeStep DEF Next

LEMMA TypeInit == Init => TypeOK
<1>1. <<>> \in Seq({"HDR", "TERM"}) /\ <<>> \in Seq(Nat)
  OBVIOUS
<1>2. Init => /\ lastsend \in BOOLEAN /\ termSent \in BOOLEAN /\ counted \in BOOLEAN
              /\ connected \in BOOLEAN /\ srvRst \in BOOLEAN /\ cliRst \in BOOLEAN
  BY Zenon DEF Init
<1>3. Init => /\ cElapsed \in 0 .. MaxElapsed /\ sElapsed \in 0 .. MaxLag + MaxElapsed
              /\ lag \in 0 .. MaxLag
              /\ udp \in 0 .. MaxQueue
              /\ printed \in Nat /\ prevtime \in Nat /\ interval_max \in Nat
  BY BoundAssumption DEF Init
<1>4. Init => toServer \in Seq({"HDR", "TERM"}) /\ toClient \in Seq(Nat)
  BY <1>1, Zenon DEF Init
<1>5. Init => cpc \in ClientPc /\ spc \in ServerPc /\ nextTick \in {"client", "server"}
  BY DEF Init, ClientPc, ServerPc
<1> QED BY <1>2, <1>3, <1>4, <1>5, Zenon DEF TypeOK

\* The state of both processes and of the network keeps its type.
THEOREM TypeCorrect == Spec => []TypeOK
BY TypeInit, TypeStep, PTL DEF Spec

(***************************************************************************)
(* The inductive invariant                                                 *)
(***************************************************************************)

ServerIdle == {"start", "accept", "header", "bind", "first"}

\* Nothing was reported before the first datagram.
IdleInv == spc \in ServerIdle => sElapsed = 0 /\ prevtime = 0 /\ interval_max = 0

\* The labels stay behind the clock, whole intervals at a time.
LabelInv == interval_max <= prevtime /\ prevtime <= sElapsed /\ prevtime % Interval = 0

\* A termination header in the queue was sent, by a client whose time was up.
TermInv ==
  /\ \A i \in 1 .. Len(toServer) : toServer[i] = "TERM" => termSent
  /\ spc = "done" => termSent
  /\ termSent => lastsend /\ cpc \in {"close"} \cup ClientEnded
  /\ cpc \in {"term", "close"} => lastsend
  /\ lastsend => cElapsed >= Duration

\* Only a client that has closed resets the server.
ResetInv == srvRst \/ spc = "reset" => cpc \in ClientEnded

\* The server cannot run before the client's first datagram, and afterwards
\* counts at most one second more than have passed on the client's clock since
\* that datagram was sent.
ClockInv ==
  /\ cpc \in {"resolve", "connect", "header", "first"} =>
       udp = 0 /\ spc \notin ServerRunning /\ sElapsed = 0
  /\ cpc \in {"clock"} \cup ClientRunning =>
       sElapsed <= lag + cElapsed + (IF nextTick = "client" THEN 1 ELSE 0)

\* A client that has not begun or has ended has no reports waiting.
ClosedInv ==
  cpc \in {"resolve", "connect", "header", "first"} \cup ClientEnded => toClient = <<>>

Inv ==
  /\ TypeOK /\ IdleInv /\ LabelInv /\ TermInv /\ ResetInv /\ ClockInv /\ ClosedInv
  /\ ReportsInTransit
  /\ PrintedIsPast

\* Two different multiples of k, in order, are at least k apart.
LEMMA MultiplesApart ==
  ASSUME NEW k \in Nat \ {0}, NEW a \in Nat, NEW b \in Nat,
         a % k = 0, b % k = 0, a < b
  PROVE  a + k <= b
<1>1. PICK i \in Nat : a = k * i
  <2>1. a = k * (a \div k)
    BY SMT
  <2>2. a \div k \in Nat
    BY SMT
  <2> QED BY <2>1, <2>2
<1>2. PICK j \in Nat : b = k * j
  <2>1. b = k * (b \div k)
    BY SMT
  <2>2. b \div k \in Nat
    BY SMT
  <2> QED BY <2>1, <2>2
<1>3. i < j
  BY <1>1, <1>2, SMT
<1>4. k * (i + 1) <= k * j
  BY <1>3, SMT
<1> QED BY <1>1, <1>2, <1>4, SMT

\* A report falls due at least one whole interval after the previous one.
LEMMA DueIsSpaced ==
  ASSUME TypeOK, LabelInv, ReportDue
  PROVE  sElapsed >= prevtime + Interval
<1>1. /\ prevtime \in Nat /\ sElapsed \in Nat
      /\ prevtime % Interval = 0 /\ sElapsed % Interval = 0
      /\ prevtime < sElapsed
  BY BoundAssumption DEF TypeOK, LabelInv, ReportDue
<1> QED BY <1>1, MultiplesApart, DurationAssumption

LEMMA IdleStep ==
  ASSUME TypeOK, IdleInv, [Next]_vars
  PROVE  IdleInv'
<1> USE DEF IdleInv, ServerIdle, serverVars, clientVars, netVars
<1>1. CASE ClientStep \/ ClientFault \/ TickClient
  BY <1>1 DEF ClientStep, ClientResolve, ClientConnect, ClientSendHeader,
     ClientFirstDatagram, ClientStartClock, ClientCheckStats, ClientSendDatagram, ClientSendTerm,
     ClientClose, ClientFault, TickClient
<1>2. CASE ServerStep \/ ServerFault
  BY <1>2 DEF ServerStep, ServerListen, ServerAccept, ServerReadHeader,
     ServerReadNothing, ServerBind, ServerDiscardFirst, ServerCount, ServerReport,
     ServerDivideByZero, ServerSendStats, ServerCheckTerm, ServerFault, ServerEnd, ServerEnded
<1>3. CASE TickServer
  BY <1>3 DEF TickServer, ServerRunning
<1>4. CASE UNCHANGED vars
  BY <1>4 DEF vars
<1> QED BY <1>1, <1>2, <1>3, <1>4 DEF Next

LEMMA LabelStep ==
  ASSUME TypeOK, IdleInv, LabelInv, [Next]_vars
  PROVE  LabelInv'
<1> USE DEF LabelInv, serverVars, clientVars, netVars
<1>1. CASE ClientStep \/ ClientFault \/ TickClient \/ UNCHANGED vars
  BY <1>1 DEF ClientStep, ClientResolve, ClientConnect, ClientSendHeader,
     ClientFirstDatagram, ClientStartClock, ClientCheckStats, ClientSendDatagram, ClientSendTerm,
     ClientClose, ClientFault, TickClient, vars
<1>2. CASE ServerReport
  <2>1. sElapsed >= prevtime + Interval
    BY <1>2, DueIsSpaced DEF ServerReport
  <2> QED BY <1>2, <2>1, BoundAssumption, DurationAssumption DEF ServerReport, ReportDue, TypeOK
<1>3. CASE ServerDiscardFirst
  BY <1>3 DEF ServerDiscardFirst, IdleInv, ServerIdle
<1>4. CASE \/ ServerListen \/ ServerAccept \/ ServerReadHeader \/ ServerReadNothing
           \/ ServerBind \/ ServerCount \/ ServerDivideByZero
           \/ ServerSendStats \/ ServerCheckTerm \/ ServerFault
  BY <1>4 DEF ServerListen, ServerAccept, ServerReadHeader, ServerReadNothing,
     ServerBind, ServerCount, ServerDivideByZero, ServerSendStats, ServerCheckTerm,
     ServerFault
<1>5. CASE TickServer
  BY <1>5, BoundAssumption DEF TickServer, TypeOK
<1> QED BY <1>1, <1>2, <1>3, <1>4, <1>5 DEF Next, ServerStep

LEMMA TermStep ==
  ASSUME TypeOK, TermInv, [Next]_vars
  PROVE  TermInv'
<1> USE DEF TermInv, serverVars, clientVars, netVars
<1>1. CASE ClientResolve \/ ClientConnect \/ ClientFirstDatagram \/ ClientStartClock
           \/ ClientCheckStats \/ ClientClose \/ ClientFault
  BY <1>1 DEF ClientResolve, ClientConnect, ClientFirstDatagram, ClientStartClock,
     ClientCheckStats, ClientClose, ClientFault, ClientEnd, ClientEnded
<1>2. CASE ClientSendHeader
  <2>1. toServer' = Append(toServer, "HDR") \/ toServer' = toServer
    BY <1>2 DEF ClientSendHeader, HeaderSent
  <2>2. toServer \in Seq({"HDR", "TERM"})
    BY DEF TypeOK
  <2>3. termSent' = termSent
    BY <1>2 DEF ClientSendHeader
  <2>4. ASSUME NEW i \in 1 .. Len(toServer'), toServer'[i] = "TERM"
        PROVE  i \in 1 .. Len(toServer) /\ toServer[i] = "TERM"
    BY <2>1, <2>2, <2>4
  <2>5. cpc' \in {"first"} \cup ClientEnded /\ cpc = "header"
    BY <1>2 DEF ClientSendHeader, ClientEnd, ClientEnded
  <2> QED BY <1>2, <2>3, <2>4, <2>5 DEF ClientSendHeader, ClientEnded
<1>3. CASE ClientSendDatagram
  BY <1>3, DurationAssumption DEF ClientSendDatagram, ClientEnded
<1>4. CASE ClientSendTerm
  BY <1>4 DEF ClientSendTerm, HeaderSent, ClientEnd, ClientEnded, TypeOK
<1>5. CASE ServerReadHeader
  BY <1>5 DEF ServerReadHeader, TypeOK
<1>6. CASE ServerCheckTerm
  BY <1>6 DEF ServerCheckTerm, ServerEnd, TypeOK
<1>7. CASE \/ ServerListen \/ ServerAccept \/ ServerReadNothing \/ ServerBind
           \/ ServerDiscardFirst \/ ServerCount \/ ServerReport \/ ServerDivideByZero
           \/ ServerSendStats \/ ServerFault
  BY <1>7 DEF ServerListen, ServerAccept, ServerReadNothing, ServerBind,
     ServerDiscardFirst, ServerCount, ServerReport, ServerDivideByZero,
     ServerSendStats, ServerFault, ServerEnd, ServerEnded
<1>8. CASE TickClient \/ TickServer
  BY <1>8, BoundAssumption, DurationAssumption DEF TickClient, TickServer, TypeOK
<1>9. CASE UNCHANGED vars
  BY <1>9 DEF vars
<1> QED BY <1>1, <1>2, <1>3, <1>4, <1>5, <1>6, <1>7, <1>8, <1>9
        DEF Next, ClientStep, ServerStep

LEMMA ResetStep ==
  ASSUME TypeOK, ResetInv, [Next]_vars
  PROVE  ResetInv'
<1> USE DEF ResetInv, serverVars, clientVars, netVars
<1>1. CASE ClientStep \/ ClientFault
  BY <1>1 DEF ClientStep, ClientResolve, ClientConnect, ClientSendHeader,
     ClientFirstDatagram, ClientStartClock, ClientCheckStats, ClientSendDatagram, ClientSendTerm,
     ClientClose, ClientFault, ClientEnd, ClientEnded
<1>2. CASE ServerStep \/ ServerFault
  BY <1>2 DEF ServerStep, ServerListen, ServerAccept, ServerReadHeader,
     ServerReadNothing, ServerBind, ServerDiscardFirst, ServerCount, ServerReport,
     ServerDivideByZero, ServerSendStats, ServerCheckTerm, ServerFault, ServerEnd
<1>3. CASE TickClient \/ TickServer \/ UNCHANGED vars
  BY <1>3 DEF TickClient, TickServer, vars
<1> QED BY <1>1, <1>2, <1>3 DEF Next

LEMMA ClosedStep ==
  ASSUME TypeOK, ClockInv, ClosedInv, [Next]_vars
  PROVE  ClosedInv'
<1> USE DEF ClosedInv, ClientEnded, serverVars, clientVars, netVars
<1>1. CASE ClientStep \/ ClientFault
  <2>1. CASE ClientResolve \/ ClientConnect \/ ClientFirstDatagram
             \/ ClientStartClock \/ ClientCheckStats \/ ClientSendDatagram
    BY <2>1 DEF ClientResolve, ClientConnect, ClientFirstDatagram,
                ClientStartClock, ClientCheckStats, ClientSendDatagram
  <2>2. CASE ClientSendHeader \/ ClientSendTerm \/ ClientClose \/ ClientFault
    BY <2>2 DEF ClientSendHeader, ClientSendTerm, ClientClose, ClientFault, ClientEnd
  <2> QED BY <1>1, <2>1, <2>2 DEF ClientStep
<1>2. CASE ServerSendStats
  <2>1. spc \in ServerRunning /\ cpc' = cpc
    BY <1>2 DEF ServerSendStats, ServerRunning
  <2>2. cpc \in ClientEnded => toClient' = toClient
    BY <1>2 DEF ServerSendStats
  <2> QED BY <2>1, <2>2 DEF ClockInv
<1>3. CASE (ServerStep /\ ~ServerSendStats) \/ ServerFault
  BY <1>3 DEF ServerStep, ServerListen, ServerAccept, ServerReadHeader,
     ServerReadNothing, ServerBind, ServerDiscardFirst, ServerCount, ServerReport,
     ServerDivideByZero, ServerCheckTerm, ServerFault
<1>4. CASE TickClient \/ TickServer \/ UNCHANGED vars
  BY <1>4 DEF TickClient, TickServer, vars
<1> QED BY <1>1, <1>2, <1>3, <1>4 DEF Next

\* The clocks' boundaries alternate, and the client's clock starts first.
LEMMA ClockStep ==
  ASSUME TypeOK, IdleInv, ClockInv, [Next]_vars
  PROVE  ClockInv'
<1> USE BoundAssumption DEF ClockInv, serverVars, clientVars, netVars
<1>1. CASE ClientResolve \/ ClientConnect \/ ClientStartClock \/ ClientCheckStats
           \/ ClientSendDatagram
  BY <1>1 DEF ClientResolve, ClientConnect, ClientStartClock, ClientCheckStats,
     ClientSendDatagram, ClientRunning, TypeOK
<1>2. CASE ClientSendHeader \/ ClientSendTerm \/ ClientClose \/ ClientFault
  BY <1>2 DEF ClientSendHeader, ClientSendTerm, ClientClose, ClientFault,
     ClientEnd, ClientRunning
<1>3. CASE ClientFirstDatagram
  BY <1>3 DEF ClientFirstDatagram, ClientRunning, TypeOK
<1>4. CASE ServerDiscardFirst
  BY <1>4 DEF ServerDiscardFirst, IdleInv, ServerIdle, ServerRunning, TypeOK
<1>5. CASE ServerListen \/ ServerAccept \/ ServerReadHeader \/ ServerReadNothing \/ ServerBind
  BY <1>5 DEF ServerListen, ServerAccept, ServerReadHeader, ServerReadNothing,
     ServerBind, ServerEnd, ServerRunning
<1>6. CASE \/ ServerCount \/ ServerReport \/ ServerDivideByZero
           \/ ServerSendStats \/ ServerCheckTerm \/ ServerFault
  BY <1>6 DEF ServerCount, ServerReport, ServerDivideByZero, ServerSendStats,
     ServerCheckTerm, ServerFault, ServerEnd, ServerRunning
<1>7. CASE TickClient
  BY <1>7 DEF TickClient, ClientRunning, TypeOK
<1>8. CASE TickServer
  BY <1>8 DEF TickServer, ClientRunning, ServerRunning, TypeOK
<1>9. CASE UNCHANGED vars
  BY <1>9 DEF vars
<1> QED BY <1>1, <1>2, <1>3, <1>4, <1>5, <1>6, <1>7, <1>8, <1>9
        DEF Next, ClientStep, ServerStep

(***************************************************************************)
(* The reports in transit                                                  *)
(***************************************************************************)

\* The client takes the next interval from the queue.
LEMMA HeadIsNext ==
  ASSUME TypeOK, LabelInv, ReportsInTransit, cpc \notin ClientEnded, toClient # <<>>
  PROVE  /\ Head(toClient) = printed + Interval
         /\ printed + Interval <= interval_max
<1>1. Len(toClient) \in Nat /\ Len(toClient) >= 1 /\ Head(toClient) = toClient[1]
  BY DEF TypeOK
<1>2. Head(toClient) = printed + Interval
  BY <1>1, DurationAssumption DEF ReportsInTransit, TypeOK
<1>3. PICK unsent \in {0, 1} : interval_max = printed + (Len(toClient) + unsent) * Interval
  BY DEF ReportsInTransit
<1>4. (Len(toClient) + unsent) * Interval >= Interval
  BY <1>1, DurationAssumption
<1>5. (Len(toClient) + unsent) * Interval \in Nat
  BY <1>1, DurationAssumption
<1> QED BY <1>2, <1>3, <1>4, <1>5, DurationAssumption DEF TypeOK

LEMMA TransitStep ==
  ASSUME TypeOK, IdleInv, LabelInv, ClockInv, ResetInv, ReportsInTransit, [Next]_vars
  PROVE  ReportsInTransit'
<1> USE DEF ReportsInTransit, serverVars, clientVars, netVars
<1>1. CASE ClientResolve \/ ClientConnect \/ ClientFirstDatagram \/ ClientStartClock
           \/ ClientSendDatagram
  BY <1>1 DEF ClientResolve, ClientConnect, ClientFirstDatagram, ClientStartClock,
     ClientSendDatagram, ClientEnded
<1>2. CASE ClientSendHeader \/ ClientSendTerm \/ ClientClose \/ ClientFault
  BY <1>2 DEF ClientSendHeader, ClientSendTerm, ClientClose, ClientFault,
     ClientEnd, ClientEnded
<1>3. CASE ClientCheckStats
  <2>1. CASE toClient = <<>>
    BY <1>3, <2>1 DEF ClientCheckStats, ClientEnded
  <2>2. CASE toClient # <<>>
    <3>1. cpc \notin ClientEnded
      BY <1>3 DEF ClientCheckStats, ClientEnded
    <3>2. printed' = printed + Interval
      BY <1>3, <2>2, <3>1, HeadIsNext DEF ClientCheckStats
    <3>3. toClient \in Seq(Nat) /\ toClient' = Tail(toClient)
      BY <1>3, <2>2 DEF ClientCheckStats, TypeOK
    <3>4. Len(toClient') = Len(toClient) - 1 /\ Len(toClient) \in Nat
      BY <2>2, <3>3
    <3>5. ASSUME NEW i \in 1 .. Len(toClient')
          PROVE  toClient'[i] = printed' + i * Interval
      <4>1. i + 1 \in 1 .. Len(toClient) /\ toClient'[i] = toClient[i + 1]
        BY <2>2, <3>3, <3>4
      <4>2. toClient[i + 1] = printed + (i + 1) * Interval
        BY <3>1, <4>1
      <4>3. (i + 1) * Interval = Interval + i * Interval
        BY DurationAssumption
      <4> QED BY <3>2, <4>1, <4>2, <4>3, DurationAssumption DEF TypeOK
    <3>6. PICK unsent \in {0, 1} :
             /\ interval_max = printed + (Len(toClient) + unsent) * Interval
             /\ spc # "failed" => unsent = IF spc = "report" THEN 1 ELSE 0
      BY <3>1
    <3>7. interval_max' = printed' + (Len(toClient') + unsent) * Interval
      <4>1. interval_max' = interval_max
        BY <1>3 DEF ClientCheckStats
      <4>2. (Len(toClient) + unsent) * Interval
              = Interval + (Len(toClient') + unsent) * Interval
        BY <3>4, DurationAssumption
      <4> QED BY <3>2, <3>4, <3>6, <4>1, <4>2, DurationAssumption DEF TypeOK
    <3> QED BY <1>3, <3>5, <3>6, <3>7 DEF ClientCheckStats
  <2> QED BY <2>1, <2>2
<1>4. CASE ServerReport
  <2>1. SUFFICES ASSUME cpc \notin ClientEnded
                 PROVE  ReportsInTransit'
    BY <1>4 DEF ServerReport
  <2>2. interval_max = printed + Len(toClient) * Interval
    <3>1. Len(toClient) + 0 = Len(toClient)
      BY DEF TypeOK
    <3> QED BY <1>4, <2>1, <3>1 DEF ServerReport
  <2>3. interval_max' = printed + (Len(toClient) + 1) * Interval
    <3>1. (Len(toClient) + 1) * Interval = Len(toClient) * Interval + Interval
      BY DurationAssumption DEF TypeOK
    <3>2. Len(toClient) * Interval \in Nat
      BY DurationAssumption DEF TypeOK
    <3> QED BY <1>4, <2>2, <3>1, <3>2, DurationAssumption DEF ServerReport, TypeOK
  <2> QED BY <1>4, <2>1, <2>3 DEF ServerReport
<1>5. CASE ServerSendStats
  <2>1. SUFFICES ASSUME cpc \notin ClientEnded
                 PROVE  ReportsInTransit'
    BY <1>5 DEF ServerSendStats
  <2>2. /\ spc = "report" /\ spc' = "check"
        /\ toClient' = Append(toClient, interval_max)
        /\ UNCHANGED <<printed, interval_max, cpc>>
    BY <1>5, <2>1 DEF ServerSendStats, ResetInv
  <2>3. interval_max = printed + (Len(toClient) + 1) * Interval
    BY <2>1, <2>2
  <2>4. toClient \in Seq(Nat) /\ interval_max \in Nat
    BY DEF TypeOK
  <2>5. Len(toClient') = Len(toClient) + 1 /\ Len(toClient) \in Nat
    BY <2>2, <2>4
  <2>6. ASSUME NEW i \in 1 .. Len(toClient')
        PROVE  toClient'[i] = printed' + i * Interval
    <3>1. CASE i = Len(toClient) + 1
      BY <2>2, <2>3, <2>4, <3>1
    <3>2. CASE i \in 1 .. Len(toClient)
      BY <2>1, <2>2, <2>4, <3>2
    <3> QED BY <2>5, <3>1, <3>2
  <2>7. interval_max' = printed' + (Len(toClient') + 0) * Interval
    BY <2>2, <2>3, <2>5
  <2> QED BY <2>2, <2>6, <2>7
<1>6. CASE ServerListen \/ ServerAccept \/ ServerReadHeader \/ ServerBind
           \/ ServerDiscardFirst \/ ServerCount
  BY <1>6 DEF ServerListen, ServerAccept, ServerReadHeader, ServerBind,
     ServerDiscardFirst, ServerCount
<1>7. CASE ServerReadNothing \/ ServerDivideByZero \/ ServerCheckTerm \/ ServerFault
  BY <1>7 DEF ServerReadNothing, ServerDivideByZero, ServerCheckTerm, ServerFault,
     ServerEnd, ServerEnded
<1>8. CASE TickClient \/ TickServer \/ UNCHANGED vars
  BY <1>8 DEF TickClient, TickServer, vars
<1> QED BY <1>1, <1>2, <1>3, <1>4, <1>5, <1>6, <1>7, <1>8
        DEF Next, ClientStep, ServerStep

LEMMA PrintedStep ==
  ASSUME Inv, [Next]_vars
  PROVE  PrintedIsPast'
<1> USE BoundAssumption DEF PrintedIsPast, serverVars, clientVars, netVars
<1>1. CASE ClientCheckStats
  <2>1. CASE toClient = <<>>
    BY <1>1, <2>1 DEF ClientCheckStats, Inv
  <2>2. CASE toClient # <<>>
    <3>1. /\ cpc \in ClientRunning /\ cpc \notin ClientEnded
          /\ printed' = Head(toClient) /\ cElapsed' = cElapsed /\ lag' = lag
      BY <1>1, <2>2 DEF ClientCheckStats, ClientRunning, ClientEnded
    <3>2. printed' = printed + Interval /\ printed + Interval <= interval_max
      BY <2>2, <3>1, HeadIsNext DEF Inv
    <3>3. interval_max <= sElapsed /\ sElapsed <= lag + cElapsed + 1
      BY <3>1 DEF Inv, TypeOK, LabelInv, ClockInv
    <3> QED BY <3>1, <3>2, <3>3, DurationAssumption DEF Inv, TypeOK
  <2> QED BY <2>1, <2>2
<1>2. CASE TickClient
  BY <1>2 DEF TickClient, Inv, TypeOK
<1>3. CASE (ClientStep /\ ~ClientCheckStats) \/ ClientFault
  BY <1>3 DEF ClientStep, ClientResolve, ClientConnect, ClientSendHeader,
     ClientFirstDatagram, ClientStartClock, ClientSendDatagram, ClientSendTerm, ClientClose,
     ClientFault, Inv
<1>4. CASE ServerStep \/ ServerFault \/ TickServer
  BY <1>4 DEF ServerStep, ServerListen, ServerAccept, ServerReadHeader,
     ServerReadNothing, ServerBind, ServerDiscardFirst, ServerCount, ServerReport,
     ServerDivideByZero, ServerSendStats, ServerCheckTerm, ServerFault, TickServer, Inv
<1>5. CASE UNCHANGED vars
  BY <1>5 DEF vars, Inv
<1> QED BY <1>1, <1>2, <1>3, <1>4, <1>5 DEF Next

LEMMA InvInit == Init => Inv
<1> SUFFICES ASSUME Init PROVE Inv
  OBVIOUS
<1>1. TypeOK
  BY TypeInit
<1>2. IdleInv /\ LabelInv
  BY DurationAssumption DEF Init, IdleInv, LabelInv, ServerIdle
<1>3. TermInv
  BY DEF Init, TermInv, ClientEnded
<1>4. ResetInv /\ ClosedInv
  BY DEF Init, ResetInv, ClosedInv, ClientEnded
<1>5. ClockInv
  BY DEF Init, ClockInv, ClientRunning, ServerRunning
<1>6. ReportsInTransit
  BY DurationAssumption DEF Init, ReportsInTransit
<1>7. PrintedIsPast
  BY DEF Init, PrintedIsPast
<1> QED BY <1>1, <1>2, <1>3, <1>4, <1>5, <1>6, <1>7 DEF Inv

LEMMA InvStep == Inv /\ [Next]_vars => Inv'
BY TypeStep, IdleStep, LabelStep, TermStep, ResetStep, ClosedStep, ClockStep,
   TransitStep, PrintedStep DEF Inv

THEOREM Invariance == Spec => []Inv
BY InvInit, InvStep, PTL DEF Spec

\* The server ends normally only for a client that finished its experiment.
THEOREM NormalEnd == Spec => []NormalEndIsComplete
<1>1. Inv => NormalEndIsComplete
  BY DEF Inv, TermInv, NormalEndIsComplete
<1> QED BY <1>1, Invariance, PTL

\* While the client lives the queue holds exactly the reports between the last
\* printed and the last sent.
THEOREM NoReportLost == Spec => []ReportsInTransit
<1>1. Inv => ReportsInTransit
  BY DEF Inv
<1> QED BY <1>1, Invariance, PTL

\* The client never prints an interval that ends more than one second after now,
\* for any interval and any pause between its first sendto and its reading of start.
THEOREM NothingFromTheFuture == Spec => []PrintedIsPast
<1>1. Inv => PrintedIsPast
  BY DEF Inv
<1> QED BY <1>1, Invariance, PTL

\* The server's connection is reset only by a client that has closed.
THEOREM ResetOnlyAfterClose == Spec => []ResetAfterClose
<1>1. Inv => ResetAfterClose
  BY DEF Inv, ResetInv, ResetAfterClose
<1> QED BY <1>1, Invariance, PTL

(***************************************************************************)
(* A session whose server is not interrupted                               *)
(***************************************************************************)

Finishing == {"close", "done", "killed"}

\* A client never sends to a server that has not read what came before, unless
\* the server was interrupted: its initialization header stays in the queue until the server reads
\* it, the queue is then empty until the termination header, and the connection
\* is reset under no client that is not about to end anyway.
QuietInv ==
  /\ cpc \in {"resolve", "connect"} => ~connected
  /\ ~connected => /\ spc \in {"start", "accept"}
                   /\ cpc \in {"resolve", "connect", "failed", "killed"}
  /\ cpc = "failed" => ~connected
  /\ cpc = "header" => spc \in {"accept", "header"}
  /\ cliRst => cpc \in Finishing
  /\ cpc \in {"resolve", "connect", "header", "failed"} => toServer = <<>>
  /\ cpc \notin Finishing =>
       Len(toServer) <= 1 /\ (spc \notin {"accept", "header"} => toServer = <<>>)

LEMMA QuietClientStep ==
  ASSUME TypeOK, QuietInv, ClientStep
  PROVE  QuietInv'
<1> USE DEF QuietInv, Finishing, serverVars, netVars
<1>1. CASE \/ ClientResolve \/ ClientFirstDatagram \/ ClientStartClock
           \/ ClientCheckStats \/ ClientSendDatagram
  BY <1>1 DEF ClientResolve, ClientFirstDatagram, ClientStartClock, ClientCheckStats,
     ClientSendDatagram
<1>2. CASE ClientConnect
  BY <1>2 DEF ClientConnect, ServerTakesTcp
<1>3. CASE ClientSendHeader
  <2>1. ~cliRst /\ toServer = <<>> /\ ServerTakesTcp /\ cpc = "header"
    BY <1>3 DEF ClientSendHeader, ServerTakesTcp, ServerEnded
  <2>2. /\ cpc' = "first" /\ toServer' = Append(toServer, "HDR") /\ cliRst' = cliRst
        /\ spc' = spc /\ connected' = connected
    BY <1>3, <2>1 DEF ClientSendHeader, HeaderSent
  <2>3. Len(toServer') = 1
    BY <2>1, <2>2
  <2> QED BY <2>1, <2>2, <2>3
<1>4. CASE ClientSendTerm
  <2>1. ~cliRst /\ connected
    BY <1>4 DEF ClientSendTerm
  <2>2. cpc' = "close" /\ spc' = spc /\ connected' = connected
    BY <1>4, <2>1 DEF ClientSendTerm
  <2> QED BY <2>1, <2>2
<1>5. CASE ClientClose
  BY <1>5 DEF ClientClose, ClientEnd
<1> QED BY <1>1, <1>2, <1>3, <1>4, <1>5 DEF ClientStep

LEMMA QuietServerStep ==
  ASSUME TypeOK, TermInv, ResetInv, QuietInv, ServerStep
  PROVE  QuietInv'
<1> USE DEF QuietInv, Finishing, clientVars, netVars
<1>1. CASE ServerListen \/ ServerAccept
  BY <1>1 DEF ServerListen, ServerAccept
<1>2. CASE ServerReadHeader
  <2>1. toServer \in Seq({"HDR", "TERM"}) /\ toServer # <<>> /\ toServer' = Tail(toServer)
    BY <1>2 DEF ServerReadHeader, TypeOK
  <2>2. Len(toServer) <= 1 => toServer' = <<>>
    BY <2>1
  <2>3. Len(toServer') <= 1 \/ Len(toServer) > 1
    BY <2>1
  <2>4. cpc \notin {"resolve", "connect", "header", "failed"}
    BY <2>1
  <2> QED BY <1>2, <2>2, <2>3, <2>4 DEF ServerReadHeader
<1>3. CASE ServerReadNothing
  <2>1. cpc \in Finishing /\ connected
    BY <1>3 DEF ServerReadNothing, ClientEnded
  <2> QED BY <1>3, <2>1 DEF ServerReadNothing
<1>4. CASE ServerBind \/ ServerDiscardFirst \/ ServerCount \/ ServerReport
  BY <1>4 DEF ServerBind, ServerDiscardFirst, ServerCount, ServerReport
<1>5. CASE ServerDivideByZero
  <2>1. connected /\ (cpc \notin Finishing => toServer = <<>>)
    BY <1>5 DEF ServerDivideByZero
  <2> QED BY <1>5, <2>1 DEF ServerDivideByZero, ServerEnd
<1>6. CASE ServerSendStats
  <2>1. connected /\ (cpc \notin Finishing => toServer = <<>>)
    BY <1>6 DEF ServerSendStats
  <2>2. /\ spc = "report" /\ spc' \in {"check", "reset"} /\ cpc' = cpc
        /\ connected' = connected /\ toServer' = toServer
    BY <1>6 DEF ServerSendStats, ServerEnd
  <2>3. cliRst' => cliRst \/ toServer # <<>>
    BY <1>6 DEF ServerSendStats, ServerEnd
  <2> QED BY <2>1, <2>2, <2>3
<1>7. CASE ServerCheckTerm
  <2>1. connected /\ (cpc \notin Finishing => toServer = <<>>)
    BY <1>7 DEF ServerCheckTerm
  <2>2. CASE cpc \in Finishing
    BY <1>7, <2>1, <2>2 DEF ServerCheckTerm, ServerEnd
  <2>3. CASE cpc \notin Finishing
    BY <1>7, <2>1, <2>3 DEF ServerCheckTerm
  <2> QED BY <2>2, <2>3
<1> QED BY <1>1, <1>2, <1>3, <1>4, <1>5, <1>6, <1>7 DEF ServerStep

LEMMA QuietInit == Init => QuietInv
BY DEF Init, QuietInv, Finishing

\* The client's own end by a fault disturbs nothing that QuietInv says.
LEMMA QuietClientFault ==
  ASSUME TypeOK, QuietInv, ClientFault
  PROVE  QuietInv'
<1>1. /\ cpc' = "killed" /\ spc' = spc /\ connected' = connected
      /\ toServer' = toServer /\ cliRst' = cliRst
  BY DEF ClientFault, ClientEnd, serverVars
<1> QED BY <1>1 DEF QuietInv, Finishing

Interrupted == spc = "failed"

LEMMA QuietStep ==
  ASSUME Inv, Interrupted \/ QuietInv, [Next]_vars
  PROVE  Interrupted' \/ QuietInv'
<1>1. CASE Interrupted
  <2>1. spc' = spc \/ ServerStep \/ ServerFault
    BY DEF Next, ClientStep, ClientFault, ClientResolve, ClientConnect, ClientSendHeader,
       ClientFirstDatagram, ClientStartClock, ClientCheckStats, ClientSendDatagram, ClientSendTerm,
       ClientClose, TickClient, TickServer, vars, serverVars
  <2>2. ~ServerStep
    BY <1>1 DEF Interrupted, ServerStep, ServerListen, ServerAccept, ServerReadHeader,
       ServerReadNothing, ServerBind, ServerDiscardFirst, ServerCount, ServerReport,
       ServerDivideByZero, ServerSendStats, ServerCheckTerm
  <2>3. ~ServerFault
    BY <1>1 DEF Interrupted, ServerFault, ServerEnded
  <2> QED BY <1>1, <2>1, <2>2, <2>3 DEF Interrupted
<1>2. CASE QuietInv
  <2>1. CASE ClientStep
    BY <1>2, <2>1, QuietClientStep DEF Inv
  <2>2. CASE ServerStep
    BY <1>2, <2>2, QuietServerStep DEF Inv
  <2>3. CASE ClientFault
    BY <1>2, <2>3, QuietClientFault DEF Inv
  <2>4. CASE ServerFault
    BY <2>4 DEF ServerFault, ServerEnd, Interrupted
  <2>5. CASE TickClient \/ TickServer \/ UNCHANGED vars
    BY <1>2, <2>5 DEF TickClient, TickServer, vars, QuietInv, Finishing, serverVars,
       clientVars, netVars
  <2> QED BY <2>1, <2>2, <2>3, <2>4, <2>5 DEF Next
<1> QED BY <1>1, <1>2

\* Only the client refused at connect fails, unless it is killed or the server is
\* interrupted, though the server may end by itself at any time and answer with
\* a reset.
THEOREM OnlyRefusedFails == Spec => []FailsOnlyIfRefused
<1>1. Init => Interrupted \/ QuietInv
  BY QuietInit
<1>2. Inv /\ (Interrupted \/ QuietInv) /\ [Next]_vars => (Interrupted \/ QuietInv)'
  BY QuietStep
<1>3. Interrupted \/ QuietInv => FailsOnlyIfRefused
  BY DEF Interrupted, QuietInv, FailsOnlyIfRefused
<1> QED BY <1>1, <1>2, <1>3, Invariance, PTL DEF Spec

(***************************************************************************)
(* The session implements Measurement                                      *)
(***************************************************************************)

LEMMA RefinementInit == Init => M!Init
<1>1. Init => Phase = "idle"
  <2>1. Init => spc = "start"
    BY Zenon DEF Init
  <2>2. spc = "start" => Phase = "idle"
    BY DEF Phase, ServerRunning
  <2> QED BY <2>1, <2>2
<1>2. Init => sElapsed = 0 /\ interval_max = 0 /\ printed = 0
  BY DEF Init
<1>3. Init => termSent = FALSE
  BY Zenon DEF Init
<1> QED BY <1>1, <1>2, <1>3, Zenon DEF M!Init

\* The client's and the clocks' steps: only printing, requesting and the
\* server's seconds are visible.
LEMMA ClientRefinement ==
  ASSUME Inv, ClientStep \/ ClientFault \/ TickClient
  PROVE  [M!Next]_(M!vars)
<1> USE DEF serverVars, netVars, M!vars, Phase
<1>1. CASE ClientCheckStats
  <2>1. CASE toClient = <<>>
    BY <1>1, <2>1 DEF ClientCheckStats
  <2>2. CASE toClient # <<>>
    <3>1. printed' = Head(toClient) /\ cpc \notin ClientEnded
      BY <1>1, <2>2 DEF ClientCheckStats, ClientEnded
    <3>2. printed' = printed + Interval /\ printed + Interval <= interval_max
      BY <2>2, <3>1, HeadIsNext DEF Inv
    <3>3. M!Show
      BY <1>1, <3>2 DEF ClientCheckStats, M!Show
    <3> QED BY <3>3 DEF M!Next
  <2> QED BY <2>1, <2>2
<1>2. CASE ClientSendTerm
  <2>1. CASE termSent' = termSent
    BY <1>2, <2>1 DEF ClientSendTerm
  <2>2. CASE termSent' # termSent
    <3>1. M!Request
      BY <1>2, <2>2 DEF ClientSendTerm, M!Request, Inv, TypeOK
    <3> QED BY <3>1 DEF M!Next
  <2> QED BY <2>1, <2>2
<1>3. CASE \/ ClientResolve \/ ClientConnect \/ ClientSendHeader \/ ClientFirstDatagram
           \/ ClientStartClock \/ ClientSendDatagram \/ ClientClose \/ ClientFault \/ TickClient
  BY <1>3 DEF ClientResolve, ClientConnect, ClientSendHeader, ClientFirstDatagram,
     ClientStartClock, ClientSendDatagram, ClientClose, ClientFault, TickClient
<1> QED BY <1>1, <1>2, <1>3 DEF ClientStep

LEMMA ServerRefinement ==
  ASSUME Inv, ServerStep \/ ServerFault \/ TickServer
  PROVE  [M!Next]_(M!vars)
<1> USE DEF clientVars, netVars, M!vars, ServerRunning
<1>1. CASE ServerListen \/ ServerAccept \/ ServerReadHeader \/ ServerBind \/ ServerCount
  BY <1>1 DEF ServerListen, ServerAccept, ServerReadHeader, ServerBind, ServerCount, Phase
<1>2. CASE ServerReadNothing
  BY <1>2 DEF ServerReadNothing, ServerEnd, Phase, M!Next, M!Abort
<1>3. CASE ServerDiscardFirst
  BY <1>3 DEF ServerDiscardFirst, Phase, M!Next, M!Begin, Inv, IdleInv, ServerIdle
<1>4. CASE ServerReport
  <2>1. sElapsed >= prevtime + Interval
    BY <1>4, DueIsSpaced DEF ServerReport, Inv
  <2>2. interval_max + Interval <= sElapsed
    BY <2>1, DurationAssumption DEF Inv, TypeOK, LabelInv
  <2>3. M!Log
    BY <1>4, <2>2 DEF ServerReport, Phase, M!Log
  <2> QED BY <2>3 DEF M!Next
<1>5. CASE ServerDivideByZero
  BY <1>5 DEF ServerDivideByZero, ServerEnd, Phase, M!Next, M!Abort
<1>6. CASE ServerSendStats
  BY <1>6 DEF ServerSendStats, ServerEnd, Phase, M!Next, M!Abort
<1>7. CASE ServerCheckTerm
  <2>1. CASE spc' = "poll"
    BY <1>7, <2>1 DEF ServerCheckTerm, ServerEnd, Phase
  <2>2. CASE spc' # "poll"
    <3>1. toServer # <<>> /\ Head(toServer) = "TERM"
      BY <1>7, <2>2 DEF ServerCheckTerm
    <3>2. 1 \in 1 .. Len(toServer) /\ toServer[1] = "TERM"
      BY <3>1 DEF Inv, TypeOK
    <3>3. termSent
      BY <3>2 DEF Inv, TermInv
    <3>4. M!Complete
      BY <1>7, <3>1, <3>3 DEF ServerCheckTerm, ServerEnd, Phase, M!Complete
    <3> QED BY <3>4 DEF M!Next
  <2> QED BY <2>1, <2>2
<1>8. CASE ServerFault
  <2>1. CASE spc \in ServerIdle \cup ServerRunning
    BY <1>8, <2>1 DEF ServerFault, ServerEnd, Phase, ServerIdle, M!Next, M!Abort
  <2> QED BY <1>8, <2>1 DEF ServerFault, ServerIdle, ServerEnded, Inv, TypeOK, ServerPc
<1>9. CASE TickServer
  BY <1>9 DEF TickServer, Phase, M!Next, M!Elapse
<1> QED BY <1>1, <1>2, <1>3, <1>4, <1>5, <1>6, <1>7, <1>8, <1>9 DEF ServerStep

\* Every behaviour of the two processes is one the measurement allows.
THEOREM Refinement == Spec => ImplementsMeasurement
<1>1. Inv /\ [Next]_vars => [M!Next]_(M!vars)
  <2>1. UNCHANGED vars => UNCHANGED M!vars
    BY DEF vars, M!vars, Phase
  <2> QED BY <2>1, ClientRefinement, ServerRefinement DEF Next
<1> QED BY <1>1, RefinementInit, Invariance, PTL DEF Spec, ImplementsMeasurement, M!Spec
=============================================================================
