---------------------------- MODULE IperfSession ----------------------------
(***************************************************************************)
(* One single-stream experiment: a mini_iperf client (-c) and the server   *)
(* (-s) it talks to, over one TCP connection and one UDP flow.  Both are   *)
(* single threaded; the steps below are the calls at which one process can *)
(* see what the other did.                                                 *)
(*                                                                         *)
(*   client: initNTPconnection, init_iperf_client, start_experiment_client *)
(*           (checkforstats and send_wbandwidth in a loop until a send     *)
(*           after the duration), terminate_iperf_client, exit.            *)
(*   server: init_iperf_server, the discarded first datagram, then a loop  *)
(*           of a datagram, its report if an interval ended, and a look    *)
(*           for the termination header; terminate_iperf_server.           *)
(*                                                                         *)
(* The server looks for the termination header only after a datagram: the  *)
(* poll of the UDP socket that finds nothing goes back to the start of the *)
(* loop (mini_iperf_server.c:544).                                         *)
(*                                                                         *)
(* TCP delivers in order into the peer's receive queue; a slow network is  *)
(* a slow reader.  Closing a socket with unread data resets the            *)
(* connection, and so does data sent to a closed socket; the reset is on   *)
(* its way for a while, so the next send may still succeed.  UDP datagrams *)
(* are counted, not distinguished: StreamStats looks at their ids.         *)
(***************************************************************************)
EXTENDS Integers, Sequences

CONSTANTS
  Duration,     \* exp_options->experiment_duration of the client, in seconds
  Interval,     \* exp_options->interval_duration of the server, in seconds
  MaxElapsed,   \* bound: seconds the client counts
  MaxLag,       \* bound: seconds between the client's first sendto and its clock_gettime
  MaxQueue,     \* datagrams the server's receive buffer holds
  Lossy,        \* TRUE: the network may also lose datagrams
  Faults        \* TRUE: signals and failing system calls

ASSUME DurationAssumption == Duration \in Nat /\ Interval \in Nat \ {0}
\* The server counts at most one second more than have passed since the client's
\* first sendto (see Tick below), so the client always reaches its duration within
\* the bounds.
ASSUME BoundAssumption ==
  /\ MaxElapsed \in Nat /\ MaxElapsed > Duration
  /\ MaxLag \in Nat
  /\ MaxQueue \in Nat \ {0}
ASSUME SwitchAssumption == Lossy \in BOOLEAN /\ Faults \in BOOLEAN

VARIABLES
  cpc,           \* client: the call it is about to make, or how it ended
  cElapsed,      \* client: time_elapsed, if it asked now
  lag,           \* client: history, seconds from its first sendto to its reading of start
  lastsend,      \* client: lastsend
  printed,       \* client: sec_max of the last report it printed
  termSent,      \* client: history, the termination header was sent
  spc,           \* server: the call it is about to make, or how it ended
  sElapsed,      \* server: time_elapsed, if it asked now
  prevtime,      \* server: prevtime
  interval_max,  \* server: interval_max
  counted,       \* server: total_packets_so_far # 0
  connected,     \* the TCP handshake was made
  toServer,      \* the server's TCP receive queue of headers
  toClient,      \* the client's TCP receive queue of reports (their sec_max)
  srvRst,        \* a reset is on its way to the server, or has arrived
  cliRst,        \* a reset is on its way to the client, or has arrived
  udp,           \* datagrams in the server's UDP receive buffer
  nextTick       \* whose clock passes the next second boundary

clientVars == <<cpc, cElapsed, lag, lastsend, printed, termSent>>
serverVars == <<spc, sElapsed, prevtime, interval_max, counted>>
netVars == <<connected, toServer, toClient, srvRst, cliRst, udp>>
vars == <<cpc, cElapsed, lag, lastsend, printed, termSent,
          spc, sElapsed, prevtime, interval_max, counted,
          connected, toServer, toClient, srvRst, cliRst, udp, nextTick>>

ClientRunning == {"check", "send"}
ClientEnded == {"done", "failed", "killed"}
ClientPc == {"resolve", "connect", "header", "first", "clock", "term", "close"}
              \cup ClientRunning \cup ClientEnded

ServerRunning == {"poll", "report", "check"}
ServerEnded == {"done", "reset", "sigfpe", "failed", "undefined"}
ServerPc == {"start", "accept", "header", "bind", "first"}
              \cup ServerRunning \cup ServerEnded

\* A listening socket, or an accepted connection, takes what the client sends.
ServerTakesTcp == spc # "start" /\ spc \notin ServerEnded
\* The UDP socket is bound.
ServerTakesUdp == spc \in {"first"} \cup ServerRunning

Init ==
  /\ cpc = "resolve" /\ cElapsed = 0 /\ lag = 0 /\ lastsend = FALSE
  /\ printed = 0 /\ termSent = FALSE
  /\ spc = "start" /\ sElapsed = 0 /\ prevtime = 0
  /\ interval_max = 0 /\ counted = FALSE
  /\ connected = FALSE /\ toServer = <<>> /\ toClient = <<>>
  /\ srvRst = FALSE /\ cliRst = FALSE /\ udp = 0
  /\ nextTick \in {"client", "server"}

-----------------------------------------------------------------------------
(* The end of a process: the kernel closes its sockets (clean_up, die and exit). *)

\* The client ends; reports it has not read reset the connection.
ClientEnd(pc) ==
  /\ cpc' = pc
  /\ srvRst' = (srvRst \/ (ServerTakesTcp /\ toClient # <<>>))
  /\ toClient' = <<>>

\* The server ends; a connection it has not accepted or a header it has not
\* read (unread is what is left of the queue) resets the connection.
ServerEnd(pc, unread) ==
  /\ spc' = pc
  /\ toServer' = unread
  /\ cliRst' = (cliRst \/ (connected /\ (spc = "accept" \/ unread # <<>>)))

-----------------------------------------------------------------------------
(* Client *)

\* main: initNTPconnection, made by every client; it may die.
ClientResolve ==
  /\ cpc = "resolve"
  /\ cpc' = "connect"
  /\ UNCHANGED <<cElapsed, lag, lastsend, printed, termSent, serverVars, netVars, nextTick>>

\* init_iperf_client: connect.  It is refused unless a server listens.
ClientConnect ==
  /\ cpc = "connect"
  /\ IF ServerTakesTcp
     THEN cpc' = "header" /\ connected' = TRUE
     ELSE cpc' = "failed" /\ UNCHANGED connected
  /\ UNCHANGED <<cElapsed, lag, lastsend, printed, termSent, serverVars,
                 toServer, toClient, srvRst, cliRst, udp, nextTick>>

\* send() of a header succeeds: the server's kernel queues it, or answers with a
\* reset when the server is gone.
HeaderSent(header) ==
  IF ServerTakesTcp
  THEN toServer' = Append(toServer, header) /\ UNCHANGED cliRst
  ELSE cliRst' = TRUE /\ UNCHANGED toServer

\* init_iperf_client: the initialization header.
ClientSendHeader ==
  /\ cpc = "header"
  /\ \/ /\ cpc' = "first"
        /\ HeaderSent("HDR")
        /\ UNCHANGED <<toClient, srvRst>>
     \/ /\ cliRst
        /\ ClientEnd("failed")
        /\ UNCHANGED <<toServer, cliRst>>
  /\ UNCHANGED <<cElapsed, lag, lastsend, printed, termSent, serverVars,
                 connected, udp, nextTick>>

\* Mutant: nothing is ever lost, not even behind a full buffer.
DatagramAlwaysQueued == udp' = udp + 1

\* sendto(): queued, or lost because nothing is bound there, the receive buffer
\* is full, or the network loses it.  The client cannot tell.
DatagramSent ==
  \/ ServerTakesUdp /\ udp < MaxQueue /\ udp' = udp + 1
  \/ (~ServerTakesUdp \/ udp = MaxQueue \/ Lossy) /\ UNCHANGED udp

\* start_experiment_client: the sendto before the clock is read.
ClientFirstDatagram ==
  /\ cpc = "first"
  /\ cpc' = "clock"
  /\ DatagramSent
  /\ UNCHANGED <<cElapsed, lag, lastsend, printed, termSent, serverVars,
                 connected, toServer, toClient, srvRst, cliRst, nextTick>>

\* start_experiment_client: clock_gettime(start).  The server may have received
\* the datagram and started its own clock before.
ClientStartClock ==
  /\ cpc = "clock"
  /\ cpc' = "check"
  /\ UNCHANGED <<cElapsed, lag, lastsend, printed, termSent, serverVars, netVars, nextTick>>

\* checkforstats: prints one report if there is one.  The end of the stream and
\* a reset are ignored.
ClientCheckStats ==
  /\ cpc = "check"
  /\ cpc' = "send"
  /\ IF toClient # <<>>
     THEN printed' = Head(toClient) /\ toClient' = Tail(toClient)
     ELSE UNCHANGED <<printed, toClient>>
  /\ UNCHANGED <<cElapsed, lag, lastsend, termSent, serverVars,
                 connected, toServer, srvRst, cliRst, udp, nextTick>>

\* Mutant: the flag of the last round is never raised.
ClientSendsForEver ==
  /\ cpc = "send"
  /\ DatagramSent
  /\ cpc' = "check"
  /\ UNCHANGED <<cElapsed, lag, lastsend, printed, termSent, serverVars,
                 connected, toServer, toClient, srvRst, cliRst, nextTick>>

\* send_wbandwidth and the end of the loop: one more round once the duration
\* is reached.
ClientSendDatagram ==
  /\ cpc = "send"
  /\ DatagramSent
  /\ IF lastsend
     THEN cpc' = "term" /\ UNCHANGED lastsend
     ELSE cpc' = "check" /\ lastsend' = (cElapsed >= Duration)
  /\ UNCHANGED <<cElapsed, lag, printed, termSent, serverVars,
                 connected, toServer, toClient, srvRst, cliRst, nextTick>>

\* terminate_iperf_client: the termination header.
ClientSendTerm ==
  /\ cpc = "term"
  /\ \/ /\ cpc' = "close"
        /\ termSent' = TRUE
        /\ HeaderSent("TERM")
        /\ UNCHANGED <<toClient, srvRst>>
     \/ /\ cliRst
        /\ ClientEnd("failed")
        /\ UNCHANGED <<termSent, toServer, cliRst>>
  /\ UNCHANGED <<cElapsed, lag, lastsend, printed, serverVars,
                 connected, udp, nextTick>>

\* clean_up and the return from main.
ClientClose ==
  /\ cpc = "close"
  /\ ClientEnd("done")
  /\ UNCHANGED <<cElapsed, lag, lastsend, printed, termSent, serverVars,
                 connected, toServer, cliRst, udp, nextTick>>

\* SIGINT (sig_handler), or a call that fails and dies: the NTP name is not
\* resolved, the network refuses a datagram, no memory.
ClientFault ==
  /\ Faults
  /\ cpc \notin ClientEnded
  /\ ClientEnd("killed")
  /\ UNCHANGED <<cElapsed, lag, lastsend, printed, termSent, serverVars,
                 connected, toServer, cliRst, udp, nextTick>>

-----------------------------------------------------------------------------
(* Server *)

\* init_iperf_server: socket, bind, listen.
ServerListen ==
  /\ spc = "start"
  /\ spc' = "accept"
  /\ UNCHANGED <<clientVars, sElapsed, prevtime, interval_max, counted, netVars, nextTick>>

\* init_iperf_server: accept, which waits for a connection.
ServerAccept ==
  /\ spc = "accept"
  /\ connected
  /\ spc' = "header"
  /\ UNCHANGED <<clientVars, sElapsed, prevtime, interval_max, counted, netVars, nextTick>>

\* Mutant: the initialization header is looked at and left in the queue.
ServerPeeksHeader ==
  /\ spc = "header"
  /\ toServer # <<>>
  /\ spc' = "bind"
  /\ UNCHANGED <<clientVars, sElapsed, prevtime, interval_max, counted, netVars, nextTick>>

\* init_iperf_server: recv of the initialization header.
ServerReadHeader ==
  /\ spc = "header"
  /\ toServer # <<>>
  /\ spc' = "bind"
  /\ toServer' = Tail(toServer)
  /\ UNCHANGED <<clientVars, sElapsed, prevtime, interval_max, counted,
                 connected, toClient, srvRst, cliRst, udp, nextTick>>

\* The same when the client closed without a header: recv returns 0, which is
\* no error, and the header is uninitialized memory.  It may read as a single
\* stream, or as one of the experiments this module does not follow.
ServerReadNothing ==
  /\ spc = "header"
  /\ toServer = <<>>
  /\ cpc \in ClientEnded
  /\ \/ spc' = "bind" /\ UNCHANGED <<toServer, cliRst>>
     \/ ServerEnd("undefined", toServer)
  /\ UNCHANGED <<clientVars, sElapsed, prevtime, interval_max, counted,
                 connected, toClient, srvRst, udp, nextTick>>

\* start_experiment_server: bind of the UDP socket.
ServerBind ==
  /\ spc = "bind"
  /\ spc' = "first"
  /\ UNCHANGED <<clientVars, sElapsed, prevtime, interval_max, counted, netVars, nextTick>>

\* The first datagram is discarded and starts the clock.
ServerDiscardFirst ==
  /\ spc = "first"
  /\ udp > 0
  /\ udp' = udp - 1
  /\ spc' = "poll"
  /\ sElapsed' = 0
  /\ UNCHANGED <<clientVars, prevtime, interval_max, counted,
                 connected, toServer, toClient, srvRst, cliRst, nextTick>>

\* Mutant: a report is due in every second that is a multiple of the interval,
\* once per datagram.
ReportDueAgain == sElapsed % Interval = 0 /\ counted

ReportDue == sElapsed % Interval = 0 /\ prevtime # sElapsed

\* A datagram is counted (StreamStats!CountPacket).
ServerCount ==
  /\ spc = "poll"
  /\ udp > 0
  /\ ~ReportDue
  /\ udp' = udp - 1
  /\ counted' = TRUE
  /\ spc' = "check"
  /\ UNCHANGED <<clientVars, sElapsed, prevtime, interval_max,
                 connected, toServer, toClient, srvRst, cliRst, nextTick>>

\* A datagram closes an interval (StreamStats!ReportInterval); the report is
\* sent by the next step.
ServerReport ==
  /\ spc = "poll"
  /\ udp > 0
  /\ ReportDue
  /\ counted
  /\ udp' = udp - 1
  /\ prevtime' = sElapsed
  /\ interval_max' = interval_max + Interval
  /\ spc' = "report"
  /\ UNCHANGED <<clientVars, sElapsed, counted,
                 connected, toServer, toClient, srvRst, cliRst, nextTick>>

\* The first counted datagram is late (StreamStats!DivideByZero).
ServerDivideByZero ==
  /\ spc = "poll"
  /\ udp > 0
  /\ ReportDue
  /\ ~counted
  /\ udp' = udp - 1
  /\ ServerEnd("sigfpe", toServer)
  /\ UNCHANGED <<clientVars, sElapsed, prevtime, interval_max, counted,
                 connected, toClient, srvRst, nextTick>>

\* Mutant: the report is sent twice, as a retry that does not look would do.
ServerSendTwice ==
  /\ spc = "report"
  /\ spc' = "check"
  /\ toClient' = IF cpc \in ClientEnded THEN toClient
                 ELSE toClient \o <<interval_max, interval_max>>
  /\ UNCHANGED <<clientVars, sElapsed, prevtime, interval_max, counted,
                 connected, toServer, srvRst, cliRst, udp, nextTick>>

\* Mutant: a non-blocking socket; a client slow to read is taken for a dead one.
ServerSendDoesNotWait ==
  /\ spc = "report"
  /\ IF toClient # <<>>
     THEN ServerEnd("reset", toServer) /\ UNCHANGED toClient
     ELSE /\ spc' = "check" /\ toClient' = Append(toClient, interval_max)
          /\ UNCHANGED <<toServer, cliRst>>
  /\ UNCHANGED <<clientVars, sElapsed, prevtime, interval_max, counted,
                 connected, srvRst, udp, nextTick>>

\* send_stats: queued, answered by a reset when the client is gone, or failed
\* because a reset came before (die, or SIGPIPE).
ServerSendStats ==
  /\ spc = "report"
  /\ \/ /\ spc' = "check"
        /\ IF cpc \in ClientEnded
           THEN srvRst' = TRUE /\ UNCHANGED toClient
           ELSE toClient' = Append(toClient, interval_max) /\ UNCHANGED srvRst
        /\ UNCHANGED <<toServer, cliRst>>
     \/ /\ srvRst
        /\ ServerEnd("reset", toServer)
        /\ UNCHANGED <<toClient, srvRst>>
  /\ UNCHANGED <<clientVars, sElapsed, prevtime, interval_max, counted,
                 connected, udp, nextTick>>

\* Mutant: the end of the stream is taken for a termination header.
ServerEndsOnClose ==
  /\ spc = "check"
  /\ IF toServer # <<>> \/ cpc \in ClientEnded
     THEN ServerEnd("done", <<>>)
     ELSE spc' = "poll" /\ UNCHANGED <<toServer, cliRst>>
  /\ UNCHANGED <<clientVars, sElapsed, prevtime, interval_max, counted,
                 connected, toClient, srvRst, udp, nextTick>>

\* Mutant: the answer of checkForTermination is ignored.
ServerIgnoresTerm ==
  /\ spc = "check"
  /\ spc' = "poll"
  /\ UNCHANGED <<clientVars, sElapsed, prevtime, interval_max, counted, netVars, nextTick>>

\* checkForTermination: a termination header ends the server; no data, the end
\* of the stream and a reset are all "go on".
ServerCheckTerm ==
  /\ spc = "check"
  /\ IF toServer # <<>> /\ Head(toServer) = "TERM"
     THEN ServerEnd("done", Tail(toServer))
     ELSE spc' = "poll" /\ UNCHANGED <<toServer, cliRst>>
  /\ UNCHANGED <<clientVars, sElapsed, prevtime, interval_max, counted,
                 connected, toClient, srvRst, udp, nextTick>>

\* SIGINT, or a call that fails: the address is in use, no memory.
ServerFault ==
  /\ Faults
  /\ spc \notin ServerEnded
  /\ ServerEnd("failed", toServer)
  /\ UNCHANGED <<clientVars, sElapsed, prevtime, interval_max, counted,
                 connected, toClient, srvRst, udp, nextTick>>

-----------------------------------------------------------------------------
(* The clocks (external).  Both processes subtract tv_sec fields, so each counts *)
(* the second boundaries of its own CLOCK_MONOTONIC.  The clocks run at the same *)
(* rate with any phase: their boundaries alternate.                              *)

TickClient ==
  /\ nextTick = "client"
  /\ nextTick' = "server"
  /\ \/ cpc = "clock" /\ lag < MaxLag /\ lag' = lag + 1 /\ UNCHANGED cElapsed
     \/ cpc \in ClientRunning /\ cElapsed < MaxElapsed /\ cElapsed' = cElapsed + 1 /\ UNCHANGED lag
     \/ cpc \notin {"clock"} \cup ClientRunning /\ UNCHANGED <<cElapsed, lag>>
  /\ UNCHANGED <<cpc, lastsend, printed, termSent, serverVars, netVars>>

TickServer ==
  /\ nextTick = "server"
  /\ nextTick' = "client"
  /\ IF spc \in ServerRunning
     THEN sElapsed < MaxLag + MaxElapsed /\ sElapsed' = sElapsed + 1
     ELSE UNCHANGED sElapsed
  /\ UNCHANGED <<clientVars, spc, prevtime, interval_max, counted, netVars>>

-----------------------------------------------------------------------------
ClientStep ==
  \/ ClientResolve \/ ClientConnect \/ ClientSendHeader \/ ClientFirstDatagram \/ ClientStartClock
  \/ ClientCheckStats \/ ClientSendDatagram \/ ClientSendTerm \/ ClientClose

ServerStep ==
  \/ ServerListen \/ ServerAccept \/ ServerReadHeader \/ ServerReadNothing
  \/ ServerBind \/ ServerDiscardFirst
  \/ ServerCount \/ ServerReport \/ ServerDivideByZero
  \/ ServerSendStats \/ ServerCheckTerm

Next ==
  \/ ClientStep \/ ClientFault
  \/ ServerStep \/ ServerFault
  \/ TickClient \/ TickServer

Spec == Init /\ [][Next]_vars

\* A process whose next call does not block is eventually scheduled, and time
\* passes.  Nothing forces a fault, or a datagram to be lost or to arrive.
Fairness ==
  /\ WF_vars(ClientStep)
  /\ WF_vars(ServerStep)
  /\ WF_vars(TickClient)
  /\ WF_vars(TickServer)

FairSpec == Spec /\ Fairness

-----------------------------------------------------------------------------
(* Properties *)

TypeOK ==
  /\ cpc \in ClientPc
  /\ cElapsed \in 0 .. MaxElapsed
  /\ lag \in 0 .. MaxLag
  /\ lastsend \in BOOLEAN
  /\ printed \in Nat
  /\ termSent \in BOOLEAN
  /\ spc \in ServerPc
  /\ sElapsed \in 0 .. MaxLag + MaxElapsed
  /\ prevtime \in Nat
  /\ interval_max \in Nat
  /\ counted \in BOOLEAN
  /\ connected \in BOOLEAN
  /\ toServer \in Seq({"HDR", "TERM"})
  /\ toClient \in Seq(Nat)
  /\ srvRst \in BOOLEAN
  /\ cliRst \in BOOLEAN
  /\ udp \in 0 .. MaxQueue
  /\ nextTick \in {"client", "server"}

\* The server ends normally only for a client that finished its experiment: it
\* sent the termination header, and not before its duration.  A client that
\* disappears, is interrupted or closes early never looks like one.
NormalEndIsComplete ==
  spc = "done" => /\ termSent
                  /\ cElapsed >= Duration
                  /\ cpc \in {"close"} \cup ClientEnded

\* While the client lives no report is lost, repeated or reordered: the queue
\* holds exactly the intervals between the last printed and the last reported,
\* except the one the server is about to send.
ReportsInTransit ==
  cpc \notin ClientEnded =>
    /\ \A i \in 1 .. Len(toClient) : toClient[i] = printed + i * Interval
    /\ \E unsent \in {0, 1} :
         /\ interval_max = printed + (Len(toClient) + unsent) * Interval
         /\ spc # "failed" => unsent = IF spc = "report" THEN 1 ELSE 0

\* The client never prints an interval that ends later than the clocks' difference
\* of phase after now, counted on its own clock from the sendto of its first
\* datagram.  Counted from its start it may be further ahead: start is read after
\* that sendto, and the server's clock may already be running.
PrintedIsPast == printed <= lag + cElapsed + 1

\* send_stats fails only when the client has closed: the connection is never
\* reset under a client that is still measuring.
ResetAfterClose == spc = "reset" => cpc \in ClientEnded

\* A client that is not killed itself fails only when it is refused at connect or
\* the server is interrupted: a server that ends first by itself, even by the
\* division, costs no client its normal end.
FailsOnlyIfRefused == cpc = "failed" => ~connected \/ spc = "failed"

\* The client always ends, whatever the server and the network do.
ClientEnds == <>(cpc \in ClientEnded)

\* The server ends if a datagram is still queued behind the termination header.
EndsOnTrafficAfterTerm ==
  (Len(toServer) > 0 /\ Head(toServer) = "TERM" /\ udp > 0 /\ spc \in ServerRunning)
    ~> spc \in ServerEnded

\* What the session promises (Measurement).
Phase ==
  CASE spc \in {"start", "accept", "header", "bind", "first"} -> "idle"
    [] spc \in ServerRunning -> "measuring"
    [] spc = "done" -> "completed"
    [] OTHER -> "aborted"

M == INSTANCE Measurement
       WITH phase <- Phase, elapsed <- sElapsed, logged <- interval_max,
            shown <- printed, requested <- termSent

ImplementsMeasurement == M!Spec

\* mini_iperf_server.c:178 "terminates both of the iperf communication channels
\* ot the server": the termination the client requests ends the server.  The
\* code looks for the request only after a datagram, and none may come.
ServerEnds == termSent ~> spc \in ServerEnded

\* mini_iperf.h:47 "Interval to print experiment results": a client that
\* completes has printed every report that reached it.  The client closes
\* without a last look at its queue.
ReceivedReportsPrinted == [][cpc' = "done" /\ cpc # "done" => toClient = <<>>]_vars
=============================================================================
