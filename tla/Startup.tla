-------------------------------- MODULE Startup --------------------------------
(***************************************************************************)
(* How an experiment gets its parameters: main's option loop on the        *)
(* client's and on the server's host, setUp_required_options, and the      *)
(* initialization header that carries the client's options to the server.  *)
(* IperfSession has the calls around the header; here is what it says.     *)
(*                                                                         *)
(* Words are written in digits of a byte: Byte is 256 in the code, and a   *)
(* smaller power of two in the instances.                                  *)
(***************************************************************************)
EXTENDS Integers, Sequences, SequencesExt

CONSTANTS
  Byte,             \* the values of a byte
  Kilo,             \* 1024
  DefaultUdpPort,   \* DEFAULT_UDP_PORT
  DefaultTcpPort,   \* DEFAULT_TCP_PORT
  DefaultLength,    \* 1024 * 8
  DefaultDuration,  \* 10
  ClientOptions, ServerOptions,  \* the options a user may give, [opt, num, metric]
  Leftover,         \* what malloc's memory may hold in the fields main does not set,
                    \* each of which has bytes of its own: records of Unset
  MaxOptions        \* bound: options on one command line

Word16 == Byte * Byte
Word32 == Word16 * Word16
UInt16 == 0 .. (Word16 - 1)
UInt32 == 0 .. (Word32 - 1)

\* BPS, KBPS, MBPS and GBPS, what getMetric returns.
Metrics == {"BPS", "KBPS", "MBPS", "GBPS"}

\* The fields main does not set.
Unset == [one_way_delay : UInt32, bandwidth : UInt32, experiment_duration : UInt16,
          wait_duration : UInt16, parallel_streams : UInt16, offset : UInt16]

ASSUME WordAssumption == Byte \in Nat \ {0, 1} /\ Kilo \in Nat \ {0}
ASSUME DefaultAssumption ==
  /\ DefaultUdpPort \in UInt16 /\ DefaultTcpPort \in UInt16
  /\ DefaultLength \in UInt32 \ {0} /\ DefaultDuration \in UInt16 \ {0}
ASSUME InputAssumption ==
  /\ \A o \in ClientOptions \cup ServerOptions : o.num \in Int /\ o.metric \in Metrics
  /\ Leftover \subseteq Unset /\ MaxOptions \in Nat

VARIABLES
  client, server,          \* exp_options of the two processes
  clientLine, serverLine,  \* history: the options given, in this order
  cpc, spc,                \* "options", "running", "exit", "connected"
  received                 \* received_options of the server

vars == <<client, server, clientLine, serverLine, cpc, spc, received>>

-----------------------------------------------------------------------------
(* The option loop *)

\* main: malloc, a memset of as many bytes as a pointer has, which clears
\* sock_type and interval_duration only, and the fields set one by one.
InitialOptions(left) ==
  [sock_type |-> "UNDEFINED", interval_duration |-> 0, port |-> DefaultUdpPort,
   packet_length |-> 0, one_way_delay |-> left.one_way_delay,
   bandwidth |-> left.bandwidth, experiment_duration |-> left.experiment_duration,
   wait_duration |-> left.wait_duration, parallel_streams |-> left.parallel_streams,
   offset |-> left.offset]

Factor(metric) ==
  CASE metric = "BPS" -> 1 [] metric = "KBPS" -> Kilo
    [] metric = "MBPS" -> Kilo * Kilo [] metric = "GBPS" -> Kilo * Kilo * Kilo

\* Mutant: the product is kept in 64 bits and assigned unchecked.
convertToBpsWide(size, metric) == (size % Word32) * Factor(metric)

\* getMetric and convertToBps: the product of two uint32_t.
convertToBps(size, metric) == ((size % Word32) * Factor(metric)) % Word32

\* The body of the loop; -a and -f, which are names, are left out.  atoi's int is
\* truncated to the field; the options for clients only are ignored unless -c
\* came before.
Parse(e, o) ==
  LET ofClient == e.sock_type = "CLIENT" IN
  CASE o.opt = "s" -> [e EXCEPT !.sock_type = "SERVER"]
    [] o.opt = "c" -> [e EXCEPT !.sock_type = "CLIENT"]
    [] o.opt = "p" -> [e EXCEPT !.port = o.num % Word16]
    [] o.opt = "i" -> [e EXCEPT !.interval_duration = o.num % Word16]
    [] o.opt = "d" /\ ofClient -> [e EXCEPT !.one_way_delay = 1]
    [] o.opt = "l" /\ ofClient -> [e EXCEPT !.packet_length = o.num % Word32]
    [] o.opt = "b" /\ ofClient -> [e EXCEPT !.bandwidth = convertToBps(o.num, o.metric)]
    [] o.opt = "n" /\ ofClient -> [e EXCEPT !.parallel_streams = o.num % Word16]
    [] o.opt = "t" /\ ofClient -> [e EXCEPT !.experiment_duration = o.num % Word16]
    [] o.opt = "w" /\ ofClient -> [e EXCEPT !.wait_duration = o.num % Word16]
    [] OTHER -> e

\* Mutant: the duration is looked at twice, the interval never.
SetUpForgetsInterval(e) ==
  [e EXCEPT !.packet_length = IF @ = 0 THEN DefaultLength ELSE @,
            !.experiment_duration = IF @ = 0 THEN DefaultDuration ELSE @,
            !.offset = 0]

setUp_required_options(e) ==
  [e EXCEPT !.interval_duration = IF @ = 0 THEN 1 ELSE @,
            !.packet_length = IF @ = 0 THEN DefaultLength ELSE @,
            !.experiment_duration = IF @ = 0 THEN DefaultDuration ELSE @,
            !.offset = 0]

-----------------------------------------------------------------------------
(* The header *)

htons(x) == (x % Byte) * Byte + x \div Byte
\* ntohl is the same function; so are htons and ntohs.
htonl(x) == htons(x % Word16) * Word16 + htons(x \div Word16)

\* Mutant: the bandwidth is converted as a short.
HeaderWithShortBandwidth(e) ==
  [port |-> htons(e.port), experiment_duration |-> htons(e.experiment_duration),
   parallel_streams |-> htons(e.parallel_streams), packet_length |-> htonl(e.packet_length),
   bandwidth |-> htons(e.bandwidth % Word16), wait_duration |-> htons(e.wait_duration),
   offset |-> htons(e.offset), one_way_delay |-> htons(e.one_way_delay % Word16)]

\* init_iperf_client.  The interval is sent too, and not read.
Header(e) ==
  [port |-> (htons(e.port) + e.offset) % Word16,
   experiment_duration |-> htons(e.experiment_duration),
   parallel_streams |-> htons(e.parallel_streams), packet_length |-> htonl(e.packet_length),
   bandwidth |-> htonl(e.bandwidth), wait_duration |-> htons(e.wait_duration),
   offset |-> htons(e.offset), one_way_delay |-> htons(e.one_way_delay % Word16)]

\* init_iperf_server
Received(h, e) ==
  [sock_type |-> "SERVER", interval_duration |-> e.interval_duration,
   one_way_delay |-> htons(h.one_way_delay), port |-> htons(h.port),
   packet_length |-> htonl(h.packet_length), bandwidth |-> htonl(h.bandwidth),
   experiment_duration |-> htons(h.experiment_duration),
   wait_duration |-> htons(h.wait_duration),
   parallel_streams |-> htons(h.parallel_streams), offset |-> htons(h.offset)]

-----------------------------------------------------------------------------
Init ==
  /\ \E left \in Leftover : client = InitialOptions(left)
  /\ \E left \in Leftover : server = InitialOptions(left)
  /\ clientLine = <<>> /\ serverLine = <<>>
  /\ cpc = "options" /\ spc = "options" /\ received = server

\* getopt finds one more option.
ClientOption(o) ==
  /\ cpc = "options" /\ Len(clientLine) < MaxOptions
  /\ client' = Parse(client, o) /\ clientLine' = Append(clientLine, o)
  /\ UNCHANGED <<server, serverLine, cpc, spc, received>>

ServerOption(o) ==
  /\ spc = "options" /\ Len(serverLine) < MaxOptions
  /\ server' = Parse(server, o) /\ serverLine' = Append(serverLine, o)
  /\ UNCHANGED <<client, clientLine, cpc, spc, received>>

\* getopt finds an option it does not know: usage, and exit.
ClientUsage ==
  /\ cpc = "options" /\ cpc' = "exit"
  /\ UNCHANGED <<client, server, clientLine, serverLine, spc, received>>

ServerUsage ==
  /\ spc = "options" /\ spc' = "exit"
  /\ UNCHANGED <<client, server, clientLine, serverLine, cpc, received>>

\* getopt finds no more.
ClientSetUp ==
  /\ cpc = "options"
  /\ IF client.sock_type = "UNDEFINED"
     THEN cpc' = "exit" /\ UNCHANGED client
     ELSE cpc' = "running" /\ client' = setUp_required_options(client)
  /\ UNCHANGED <<server, clientLine, serverLine, spc, received>>

ServerSetUp ==
  /\ spc = "options"
  /\ IF server.sock_type = "UNDEFINED"
     THEN spc' = "exit" /\ UNCHANGED server
     ELSE spc' = "running" /\ server' = setUp_required_options(server)
  /\ UNCHANGED <<client, clientLine, serverLine, cpc, received>>

\* The TCP port a process of this sock_type connects to or listens on.
TcpPort(e) == (DefaultTcpPort + e.offset) % Word16

\* The connection of the main threads: the header is sent and read.
Connect ==
  /\ cpc = "running" /\ client.sock_type = "CLIENT"
  /\ spc = "running" /\ server.sock_type = "SERVER"
  /\ TcpPort(client) = TcpPort(server)
  /\ cpc' = "connected" /\ spc' = "connected"
  /\ received' = Received(Header(client), server)
  /\ UNCHANGED <<client, server, clientLine, serverLine>>

Next ==
  \/ \E o \in ClientOptions : ClientOption(o)
  \/ \E o \in ServerOptions : ServerOption(o)
  \/ ClientUsage \/ ServerUsage \/ ClientSetUp \/ ServerSetUp \/ Connect

Spec == Init /\ [][Next]_vars

-----------------------------------------------------------------------------
(* Properties *)

Options ==
  [sock_type : {"UNDEFINED", "SERVER", "CLIENT"}, interval_duration : UInt16,
   one_way_delay : UInt32, port : UInt16, packet_length : UInt32, bandwidth : UInt32,
   experiment_duration : UInt16, wait_duration : UInt16, parallel_streams : UInt16,
   offset : UInt16]

TypeOK ==
  /\ client \in Options /\ server \in Options /\ received \in Options
  /\ cpc \in {"options", "running", "exit", "connected"}
  /\ spc \in {"options", "running", "exit", "connected"}

\* Which of the two measurements a process takes.
MeasuresDelay(e) == e.one_way_delay # 0

\* The server measures the experiment the client asks for, whatever was given or
\* left over on either side: it binds the UDP port the client sends to, and has one
\* or many streams as the client does.  Of one_way_delay, an int, the header
\* has the low half (mini_iperf_client.c:68): the two processes take different
\* measurements exactly when the client's field is not 0 and that half is, and
\* then it is the client that measures the delay.
SameExperiment ==
  spc = "connected" =>
    /\ \A field \in DOMAIN client \ {"sock_type", "interval_duration", "one_way_delay"} :
         received[field] = client[field]
    /\ received.interval_duration = server.interval_duration
    /\ MeasuresDelay(received) <=>
         MeasuresDelay(client) /\ client.one_way_delay % Word16 # 0

\* No option, truncated or absent, leaves the server with an interval of 0, by
\* which it divides, or the client with no duration or no payload.
NothingIsZero ==
  /\ spc = "connected" => received.interval_duration # 0
  /\ cpc \in {"running", "connected"} =>
       client.experiment_duration # 0 /\ client.packet_length # 0

\* The last one of these options given, if one was.
LastGiven(line, opt) == SelectLastInSeq(line, LAMBDA o : o.opt = opt)

Requested(o) == o.num * Factor(o.metric)

\* mini_iperf.c:99 "Bandwidth in bits per second of the data stream": a positive
\* bandwidth given to a client is a limit.  Four times 2^30 does not fit the
\* uint32_t it is computed in: 4G is 0, which means no limit.
PositiveBandwidthLimits ==
  LET n == LastGiven(clientLine, "b") IN
  (cpc = "connected" /\ clientLine[1].opt = "c" /\ n # 0 /\ clientLine[n].num > 0) =>
    client.bandwidth # 0

\* mini_iperf.c:108 "Bandwidth (specified with -b) can be defined on a client
\* iperf instance only": on a client it can.  The code refuses it there too
\* unless -c stands before it on the command line.
ClientTakesBandwidth ==
  LET n == LastGiven(clientLine, "b") IN
  (cpc = "connected" /\ n # 0 /\ Requested(clientLine[n]) \in UInt32) =>
    client.bandwidth = Requested(clientLine[n])

\* mini_iperf.c:79 "listening port of the TCP channel": that is what -p sets.
\* The code listens on DEFAULT_TCP_PORT, and sends datagrams to the port given.
ListensOnGivenPort ==
  LET n == LastGiven(serverLine, "p") IN
  (spc = "running" /\ server.sock_type = "SERVER" /\ n # 0) =>
    TcpPort(server) = serverLine[n].num % Word16

\* mini_iperf.c:69 "If -d is set measure the one way delay": only then.  The
\* field is not cleared before the options are read.
OneWayDelayWhenAsked ==
  cpc = "connected" /\ client.one_way_delay # 0 => LastGiven(clientLine, "d") # 0
=============================================================================
