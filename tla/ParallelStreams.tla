--------------------------- MODULE ParallelStreams ---------------------------
(***************************************************************************)
(* An experiment of N > 1 parallel streams (-n): one mini_iperf client and *)
(* one server, each with a main thread and one thread per stream.          *)
(*                                                                         *)
(*   client: conduct_experiment_client_parallel connects at offset 0,      *)
(*           waits for the go message, creates the threads and joins them; *)
(*           thread k runs conduct_experiment_client at offset k.          *)
(*   server: conduct_experiment_master_server and                          *)
(*           init_multiple_iperf_streams create the threads, then send the *)
(*           go message and join; thread k runs conduct_experiment_server, *)
(*           which listens on a port of its own.                           *)
(*                                                                         *)
(* exit and die, from any thread, end the whole process, and its sockets   *)
(* are closed.  pthread_create may fail; neither process looks at its      *)
(* result, and both join the handle it left unset.  What one stream does   *)
(* between its header and its termination header is the subject of         *)
(* IperfSession; here it is one state, "measure".                          *)
(*                                                                         *)
(* The server keeps the descriptors of its streams in two lists that are   *)
(* sized by its own options, not by the client's: they are part of the     *)
(* model as the memory they are in.                                        *)
(***************************************************************************)
EXTENDS Integers

CONSTANTS
  N,           \* parallel_streams, as the client sends them
  Port,        \* exp_options->port of the client
  OwnStreams,  \* what the server's own parallel_streams may be: -n, or left over memory
  Padding,     \* entries' worth of memory between udp_fd_list and tcp_fd_list
  Faults       \* TRUE: signals and failing system calls, pthread_create's too

Byte == 256
UInt16 == 0 .. (Byte * Byte - 1)

ASSUME StreamsAssumption == N \in Nat /\ N > 1
ASSUME PortAssumption == Port \in UInt16
ASSUME MemoryAssumption == OwnStreams \subseteq UInt16 /\ Padding \in Nat
ASSUME FaultsAssumption == Faults \in BOOLEAN

VARIABLES
  client,       \* the client process: "running", "done" or "failed"
  cmain,        \* its main thread
  cthread,      \* its stream threads
  requested,    \* the streams whose termination header was sent
  server,       \* the server process: "running", "success", "failed" or "undefined"
  smain,        \* its main thread
  sthread,      \* its stream threads
  received,     \* received_options->port of the server's main thread
  options,      \* the thread_options the server's main thread made for each stream
  own,          \* the server's own parallel_streams
  fds           \* the memory at and after the server's two lists of descriptors

clientVars == <<client, cmain, cthread, requested>>
serverVars == <<server, smain, sthread, received, options, own, fds>>
vars == <<client, cmain, cthread, requested,
          server, smain, sthread, received, options, own, fds>>

Streams == 1 .. N
None == -1                        \* a value no descriptor, offset or port has

\* "none": not created yet; "unset": pthread_create failed.
NoThread == {"none", "unset"}

ClientMain == {"connect", "header", "go", "create", "join", "hung"}
ClientThread == NoThread \cup {"connect", "header", "measure", "term", "close", "exit"}
ServerMain == {"listen", "accept", "header", "create", "go", "join", "hung"}
ServerThread == NoThread \cup {"listen", "accept", "header", "socket", "bind", "measure"}

\* The server's descriptors, named by what they are: connection k (0 is the main
\* thread's), and the UDP socket of stream k.
Connection(k) == k
UdpSocket(k) == N + k
Descriptors == {None} \cup 0 .. (2 * N)

\* Mutant: one entry for each stream and none for the main thread.
EntriesOfStreams == own

\* setUp_required_options allocates udp_fd_list, then tcp_fd_list.  Entry o of
\* either, also beyond its end, is a cell of the same memory.
entries == own + 1
UdpCell(o) == o
TcpCell(o) == entries + Padding + o
InLists(cell) == cell < entries \/ cell \in TcpCell(0) .. TcpCell(entries - 1)
Cells == UNION {0 .. (n + 1 + Padding + N) : n \in OwnStreams}

\* The memory is written before it is looked at, entry by entry.
Init ==
  /\ own \in OwnStreams
  /\ fds = [cell \in Cells |-> None]
  /\ client = "running" /\ cmain = "connect"
  /\ cthread = [k \in Streams |-> "none"] /\ requested = {}
  /\ server = "running" /\ smain = "listen" /\ received = None
  /\ sthread = [k \in Streams |-> "none"]
  /\ options = [k \in Streams |-> [offset |-> None, port |-> None]]

-----------------------------------------------------------------------------
(* The initialization header.  Both hosts are little endian. *)

\* Mutant: the high byte is not shifted out.
htonsOverflows(x) == x * Byte + x \div Byte

\* htons and ntohs exchange the two bytes.
htons(x) == (x % Byte) * Byte + x \div Byte
ntohs(x) == htons(x)

\* init_iperf_client: the offset is added after the conversion.
HeaderPort(k) == (htons(Port) + k) % (Byte * Byte)

\* What one process sees of the other: the main threads' connection, its header
\* and go message, a port that is listened on, a stream's connection and header.
MainConnected == cmain # "connect"
MainSentHeader == cmain \notin {"connect", "header"}
GoSent == smain \in {"join", "hung"}
Listening(offset) ==
  server = "running" /\ \E k \in Streams : /\ options[k].offset = offset
                                          /\ sthread[k] \notin NoThread \cup {"listen"}
Connected(offset) == cthread[offset] \notin NoThread \cup {"connect"}
SentHeader(offset) == Connected(offset) /\ cthread[offset] # "header"

\* The loops that create the threads have come to stream k.
CreatesNow(threads, k) ==
  threads[k] = "none" /\ \A j \in 1 .. (k - 1) : threads[j] # "none"

\* What pthread_create makes of a thread that begins at pc.
CreatedAs(pc) == {pc} \cup (IF Faults THEN {"unset"} ELSE {})

-----------------------------------------------------------------------------
(* Client *)

ClientRuns == client = "running"
ClientDies == client' = "failed" /\ UNCHANGED <<cmain, cthread, requested>>

\* send() to a server that is gone may still succeed, or fail: die, or SIGPIPE.
SendFails == server # "running" /\ ClientDies

ClientConnect ==
  /\ ClientRuns /\ cmain = "connect"
  /\ IF server = "running" /\ smain # "listen"
     THEN cmain' = "header" /\ UNCHANGED <<client, cthread, requested>>
     ELSE ClientDies
  /\ UNCHANGED serverVars

ClientSendHeader ==
  /\ ClientRuns /\ cmain = "header"
  /\ SendFails \/ (cmain' = "go" /\ UNCHANGED <<client, cthread, requested>>)
  /\ UNCHANGED serverVars

\* recv of the go message.  When the server ends first it returns 0, which is
\* no error, or a reset.
ClientReceiveGo ==
  /\ ClientRuns /\ cmain = "go"
  /\ GoSent \/ server # "running"
  /\ SendFails \/ (cmain' = "create" /\ UNCHANGED <<client, cthread, requested>>)
  /\ UNCHANGED serverVars

\* pthread_create of the next thread; after the last one the thread joins.  Its
\* result is ignored.
ClientCreate(k) ==
  /\ ClientRuns /\ cmain = "create" /\ CreatesNow(cthread, k)
  /\ \E pc \in CreatedAs("connect") : cthread' = [cthread EXCEPT ![k] = pc]
  /\ cmain' = IF k = N THEN "join" ELSE "create"
  /\ UNCHANGED <<client, requested, serverVars>>

\* Mutant: main does not join its threads.
ReturnsAtOnce ==
  /\ ClientRuns /\ cmain = "join"
  /\ client' = "done"
  /\ UNCHANGED <<cmain, cthread, requested, serverVars>>

\* pthread_join of every thread, and the return from main.  Joining an unset
\* handle may return at once ...
ClientJoin ==
  /\ ClientRuns /\ cmain = "join"
  /\ \A k \in Streams : cthread[k] \in {"exit", "unset"}
  /\ client' = "done"
  /\ UNCHANGED <<cmain, cthread, requested, serverVars>>

\* ... or kill the process, or wait for ever.
ClientJoinUnset(k) ==
  /\ ClientRuns /\ cmain = "join"
  /\ cthread[k] = "unset" /\ \A j \in 1 .. (k - 1) : cthread[j] \in {"exit", "unset"}
  /\ ClientDies \/ (cmain' = "hung" /\ UNCHANGED <<client, cthread, requested>>)
  /\ UNCHANGED serverVars

\* Thread k moves on to pc.
StreamGoes(k, pc) ==
  cthread' = [cthread EXCEPT ![k] = pc] /\ UNCHANGED <<client, cmain>>

\* init_iperf_client: connect.  Nobody listens at offset k until a thread of the
\* server does; connect is refused, and die ends the process.
StreamConnect(k) ==
  /\ ClientRuns /\ cthread[k] = "connect"
  /\ IF Listening(k) THEN StreamGoes(k, "header") /\ UNCHANGED requested
                     ELSE ClientDies
  /\ UNCHANGED serverVars

StreamSendHeader(k) ==
  /\ ClientRuns /\ cthread[k] = "header"
  /\ SendFails \/ (StreamGoes(k, "measure") /\ UNCHANGED requested)
  /\ UNCHANGED serverVars

\* start_experiment_client, which ends by its own clock.
StreamMeasure(k) ==
  /\ ClientRuns /\ cthread[k] = "measure"
  /\ StreamGoes(k, "term")
  /\ UNCHANGED <<requested, serverVars>>

\* terminate_iperf_client: the termination header.
StreamSendTerm(k) ==
  /\ ClientRuns /\ cthread[k] = "term"
  /\ SendFails \/ (StreamGoes(k, "close") /\ requested' = requested \cup {k})
  /\ UNCHANGED serverVars

\* clean_up and pthread_exit.
StreamClose(k) ==
  /\ ClientRuns /\ cthread[k] = "close"
  /\ StreamGoes(k, "exit")
  /\ UNCHANGED <<requested, serverVars>>

\* SIGINT, or a call that dies in any thread.
ClientFault == Faults /\ ClientRuns /\ ClientDies /\ UNCHANGED serverVars

-----------------------------------------------------------------------------
(* Server *)

ServerRuns == server = "running"
ServerExits(how) ==
  /\ server' = how
  /\ UNCHANGED <<smain, sthread, received, options, own, fds, clientVars>>

\* The main thread, and thread k, move on to pc.
MasterGoes(pc) == smain' = pc /\ UNCHANGED <<server, own, clientVars>>
ServerGoes(k, pc) ==
  /\ sthread' = [sthread EXCEPT ![k] = pc]
  /\ UNCHANGED <<server, smain, received, options, own, clientVars>>

\* Thread k stores a descriptor and moves on to pc.  Beyond the lists the store
\* may hit memory that nothing else uses, or break the process.
ServerStores(k, cell, fd, pc) ==
  \/ ServerGoes(k, pc) /\ fds' = [fds EXCEPT ![cell] = fd]
  \/ ~InLists(cell) /\ ServerExits("undefined")

\* init_iperf_server at offset 0: listen, and accept.
MasterListen ==
  /\ ServerRuns /\ smain = "listen"
  /\ MasterGoes("accept")
  /\ UNCHANGED <<sthread, received, options, fds>>

MasterAccept ==
  /\ ServerRuns /\ smain = "accept" /\ MainConnected
  /\ MasterGoes("header")
  /\ UNCHANGED <<sthread, received, options, fds>>

MasterReadHeader ==
  /\ ServerRuns /\ smain = "header" /\ MainSentHeader
  /\ MasterGoes("create")
  /\ received' = ntohs(HeaderPort(0))
  /\ fds' = [fds EXCEPT ![TcpCell(0)] = Connection(0)]
  /\ UNCHANGED <<sthread, options>>

\* The client is gone without a header: recv returns 0, which is no error, and
\* the options are uninitialized memory.  The module does not follow them.
MasterReadNothing ==
  /\ ServerRuns /\ smain = "header" /\ ~MainSentHeader /\ ~ClientRuns
  /\ ServerExits("undefined")

\* Mutant: the loop ends after the first thread.
CreateFirst(k) ==
  /\ ServerRuns /\ smain = "create" /\ CreatesNow(sthread, k)
  /\ \E pc \in CreatedAs("listen") : sthread' = [sthread EXCEPT ![k] = pc]
  /\ options' = [options EXCEPT ![k] = [offset |-> k, port |-> received]]
  /\ MasterGoes("go")
  /\ UNCHANGED <<received, fds>>

\* init_multiple_iperf_streams: pthread_create of the next thread, with an
\* options record of its own.  Its result is ignored.
MasterCreate(k) ==
  /\ ServerRuns /\ smain = "create" /\ CreatesNow(sthread, k)
  /\ \E pc \in CreatedAs("listen") : sthread' = [sthread EXCEPT ![k] = pc]
  /\ options' = [options EXCEPT ![k] = [offset |-> k, port |-> received]]
  /\ MasterGoes(IF k = N THEN "go" ELSE "create")
  /\ UNCHANGED <<received, fds>>

\* Mutant: the threads are joined before the go message is sent.
GoAfterJoin ==
  /\ ServerRuns /\ smain = "go" /\ requested = Streams
  /\ MasterGoes("join")
  /\ UNCHANGED <<sthread, received, options, fds>>

\* The go message, whatever pthread_create said; the result of send is ignored.
MasterSendGo ==
  /\ ServerRuns /\ smain = "go"
  /\ MasterGoes("join")
  /\ UNCHANGED <<sthread, received, options, fds>>

\* pthread_join: no thread of a stream ever returns.  With unset handles only the
\* joins may all return, and main does.
MasterJoin ==
  /\ ServerRuns /\ smain = "join"
  /\ \A k \in Streams : sthread[k] = "unset"
  /\ ServerExits("success")

\* Joining an unset handle may also kill the process, or wait for ever.
MasterJoinUnset(k) ==
  /\ ServerRuns /\ smain = "join"
  /\ \A j \in 1 .. k : sthread[j] = "unset"
  /\ \/ ServerExits("failed")
     \/ MasterGoes("hung") /\ UNCHANGED <<sthread, received, options, fds>>

\* conduct_experiment_server in thread k.  init_iperf_server at its offset:
\* listen, and accept.
ThreadListen(k) ==
  /\ ServerRuns /\ sthread[k] = "listen"
  /\ ServerGoes(k, "accept")
  /\ UNCHANGED fds

ThreadAccept(k) ==
  /\ ServerRuns /\ sthread[k] = "accept" /\ Connected(options[k].offset)
  /\ ServerGoes(k, "header")
  /\ UNCHANGED fds

\* recv of the header.  The connection goes into the entry the header names.
\* Everything else in it is dropped: received_options is a second variable of
\* that name in an inner block (mini_iperf_server.c:645).
ThreadReadHeader(k) ==
  /\ ServerRuns /\ sthread[k] = "header" /\ SentHeader(options[k].offset)
  /\ ServerStores(k, TcpCell(options[k].offset), Connection(options[k].offset), "socket")

\* Another thread of the client died before this stream's header: recv returns
\* 0, and the connection goes into an entry named by uninitialized memory: one
\* of the lists, one that nothing reads, or one outside the process.
ThreadReadNothing(k) ==
  /\ ServerRuns /\ sthread[k] = "header" /\ ~SentHeader(options[k].offset) /\ ~ClientRuns
  /\ \/ ServerExits("undefined")
     \/ ServerGoes(k, "socket") /\ UNCHANGED fds
     \/ \E o \in {0} \cup Streams :
          ServerStores(k, TcpCell(o), Connection(options[k].offset), "socket")

\* conduct_experiment_server: get_udp_socket, and its descriptor in udp_fd_list.
ThreadOpenUdp(k) ==
  /\ ServerRuns /\ sthread[k] = "socket"
  /\ ServerStores(k, UdpCell(options[k].offset), UdpSocket(options[k].offset), "bind")

\* start_experiment_server: bind, and a first datagram of the stream.
ThreadBegin(k) ==
  /\ ServerRuns /\ sthread[k] = "bind"
  /\ cthread[options[k].offset] \in {"measure", "term", "close", "exit"}
  /\ ServerGoes(k, "measure")
  /\ UNCHANGED fds

\* recv of a descriptor may give a termination header: from a connection on
\* which it was sent, and from a UDP socket, whose payload is uninitialized memory.
ReadsAsTermination(fd) == fd \in requested \/ \E k \in Streams : fd = UdpSocket(k)

\* checkForTermination, then terminate_iperf_server: exit, from this thread.
ThreadTerminate(k) ==
  /\ ServerRuns /\ sthread[k] = "measure"
  /\ ReadsAsTermination(fds[TcpCell(options[k].offset)])
  /\ ServerExits("success")

\* The thread's division by zero kills the process (StreamStats!DivideByZero),
\* and so does a report sent to a stream that was closed.
ThreadDies(k) ==
  /\ ServerRuns /\ sthread[k] = "measure"
  /\ ServerExits("failed")

\* SIGINT, or a call that fails in any thread.
ServerFault == Faults /\ ServerRuns /\ ServerExits("failed")

-----------------------------------------------------------------------------
ClientMainStep ==
  \/ ClientConnect \/ ClientSendHeader \/ ClientReceiveGo \/ ClientJoin
  \/ \E k \in Streams : ClientCreate(k) \/ ClientJoinUnset(k)

StreamStep(k) ==
  \/ StreamConnect(k) \/ StreamSendHeader(k) \/ StreamMeasure(k)
  \/ StreamSendTerm(k) \/ StreamClose(k)

MasterStep ==
  \/ MasterListen \/ MasterAccept \/ MasterReadHeader \/ MasterReadNothing
  \/ MasterSendGo \/ MasterJoin
  \/ \E k \in Streams : MasterCreate(k) \/ MasterJoinUnset(k)

ThreadStep(k) ==
  \/ ThreadListen(k) \/ ThreadAccept(k) \/ ThreadReadHeader(k) \/ ThreadReadNothing(k)
  \/ ThreadOpenUdp(k) \/ ThreadBegin(k) \/ ThreadTerminate(k) \/ ThreadDies(k)

Next ==
  \/ ClientMainStep \/ MasterStep
  \/ \E k \in Streams : StreamStep(k) \/ ThreadStep(k)
  \/ ClientFault \/ ServerFault

Spec == Init /\ [][Next]_vars

\* Every thread whose call does not block is scheduled.  The threads of the
\* server's streams are not needed: some of their calls wait for datagrams.
Fairness ==
  /\ WF_vars(ClientMainStep)
  /\ WF_vars(MasterStep)
  /\ \A k \in Streams : WF_vars(StreamStep(k))

FairSpec == Spec /\ Fairness

-----------------------------------------------------------------------------
(* Properties *)

TypeOK ==
  /\ client \in {"running", "done", "failed"}
  /\ cmain \in ClientMain
  /\ cthread \in [Streams -> ClientThread]
  /\ requested \in SUBSET Streams
  /\ server \in {"running", "success", "failed", "undefined"}
  /\ smain \in ServerMain
  /\ sthread \in [Streams -> ServerThread]
  /\ received \in {None} \cup UInt16
  /\ options \in [Streams -> [offset : {None} \cup Streams, port : {None} \cup UInt16]]
  /\ own \in OwnStreams
  /\ fds \in [Cells -> Descriptors]

\* Neither process ends normally by accident.  The client completes only when
\* every stream it could create a thread for had a server thread that listened,
\* finished its duration and asked for the end.  The server completes only when
\* a stream asked, or when it could create no thread at all; or when a UDP socket
\* was stored over the connections, which takes more streams than the server's
\* own options leave room for.
NormalEndIsRequested ==
  /\ client = "done" =>
       \A k \in Streams : cthread[k] # "unset" =>
         k \in requested /\ sthread[k] \notin NoThread \cup {"listen"}
  /\ server = "success" =>
       \/ requested # {}
       \/ \A k \in Streams : sthread[k] = "unset"
       \/ own + 1 + Padding < N

\* Stream k of the client and thread k of the server are on the same ports, though
\* the UDP port (port + offset) in the stream's own header is not the one it sends
\* to.  With a server whose own options name as many streams, nothing is stored
\* beyond the lists while the client lives, and no thread polls or watches a
\* descriptor of another.
StreamsDoNotMix ==
  /\ \A k \in Streams : sthread[k] # "none" => options[k] = [offset |-> k, port |-> Port]
  /\ own >= N /\ client # "failed" =>
       /\ server # "undefined"
       /\ \A k \in Streams : /\ fds[TcpCell(k)] \in {None, Connection(k)}
                             /\ fds[UdpCell(k)] \in {None, UdpSocket(k)}

\* What the go message guarantees: the client has threads only when a running
\* server has been through its loop, each thread created or not to be had.
GoMeansCreated ==
  (\E k \in Streams : cthread[k] # "none") /\ server = "running"
    => \A k \in Streams : sthread[k] # "none"

\* The client always ends, whichever threads die or cannot be created, and
\* whenever the server ends; unless its main thread waits for a thread that was
\* never created.
ClientEnds == <>(client # "running" \/ cmain = "hung")

\* mini_iperf_client.c:48 "-1 if the initialization failed": a stream that
\* cannot connect is an error of that stream.  The go message comes before the
\* threads of the server listen, and die ends the whole client.
RefusedStreamIsReported ==
  client = "failed" /\ cmain \in {"create", "join"} => server # "running"

\* mini_iperf_server.c:178 "terminates both of the iperf communication channels":
\* the end of a stream closes its two channels.  exit closes those of all.
StreamsEndAlone == server = "success" => requested = Streams

\* mini_iperf.c:110 "number of parallel data streams": the server has an entry of
\* tcp_fd_list for each.  The list is sized by the server's own parallel_streams.
EntriesExist == \A k \in Streams : fds[TcpCell(k)] = Connection(k) => k < entries

\* mini_iperf.c:110 "number of parallel data streams": a client that completes has
\* run that many.  A thread that cannot be created is skipped in silence.
NoStreamIsSkipped == client = "done" => requested = Streams
=============================================================================
