----------------------- MODULE ParallelStreamsProofs -----------------------
(***************************************************************************)
(* Proofs about ParallelStreams for any number of streams, any size of the *)
(* server's own lists, any distance between them, and any pthread_create   *)
(* failing: its types, that a normal end was requested, that streams do    *)
(* not mix, and what the go message guarantees.                            *)
(***************************************************************************)
EXTENDS ParallelStreams, TLAPS

\* The main threads: the client's makes threads after the go message only, the
\* server's sends it after its own loop.
GoInv ==
  /\ cmain \in {"create", "join", "hung"} => GoSent \/ server # "running"
  /\ (\E k \in Streams : cthread[k] # "none") => cmain \in {"create", "join", "hung"}
  /\ smain \in {"go", "join", "hung"} => \A k \in Streams : sthread[k] # "none"

\* A client's thread that is past its connect.
BeyondConnect(k) == cthread[k] \notin NoThread \cup {"connect"}

\* What has been requested is what the threads have sent; a stream gets past its
\* connect only by a server thread that listens, and that thread past its accept
\* only by the stream.
EndInv ==
  /\ \A k \in Streams : cthread[k] \in {"close", "exit"} => k \in requested
  /\ \A k \in Streams : BeyondConnect(k) => sthread[k] \notin NoThread \cup {"listen"}
  /\ \A k \in Streams :
       sthread[k] \in {"header", "socket", "bind", "measure"} => BeyondConnect(k)
  /\ client = "done" => \A k \in Streams : cthread[k] \in {"exit", "unset"}
  /\ server = "success" => \/ requested # {}
                           \/ \A k \in Streams : sthread[k] = "unset"
                           \/ own + 1 + Padding < N

\* The options of a thread are those of its stream.
MixInv ==
  /\ smain \in {"create", "go", "join", "hung"} => received = Port
  /\ \A k \in Streams : sthread[k] # "none" => options[k] = [offset |-> k, port |-> Port]

\* A UDP socket is found among the connections only when the lists are too short;
\* with lists that are long enough every entry holds its own descriptor.
OwnEntries ==
  \A k \in Streams : /\ fds[TcpCell(k)] \in {None, Connection(k)}
                     /\ fds[UdpCell(k)] \in {None, UdpSocket(k)}
FdInv ==
  /\ \A k \in Streams : fds[TcpCell(k)] > N => own + 1 + Padding < N
  /\ own >= N /\ client # "failed" => server # "undefined" /\ OwnEntries

Inv == TypeOK /\ GoInv /\ EndInv /\ MixInv /\ FdInv

-----------------------------------------------------------------------------
LEMMA ByteType == Byte \in Nat /\ Byte > 1
  BY DEF Byte

\* Exchanging the bytes of a 16-bit word twice gives the word.
LEMMA SwapTwice ==
  ASSUME NEW x \in UInt16
  PROVE  ntohs(htons(x)) = x /\ htons(x) \in UInt16
<1> USE ByteType
<1>1. x \in Nat /\ x < Byte * Byte
  BY SMT DEF UInt16
<1> DEFINE q == x \div Byte
           r == x % Byte
<1>2. q \in Nat /\ q < Byte /\ r \in Nat /\ r < Byte /\ x = Byte * q + r
  BY <1>1, SMT
<1>3. htons(x) = r * Byte + q
  BY <1>2, SMT DEF htons
<1> HIDE DEF q, r
<1>4. ((r * Byte + q) \div Byte) = r /\ ((r * Byte + q) % Byte) = q
  BY <1>2, SMT
<1>5. ntohs(r * Byte + q) = x
  BY <1>2, <1>4, SMT DEF ntohs, htons
<1>6. r * Byte + q \in Nat /\ r * Byte + q < Byte * Byte
  BY <1>2, SMT
<1>7. QED
  BY <1>3, <1>5, <1>6, SMT DEF UInt16

\* The port the server's main thread receives is the client's.
LEMMA PortRoundTrip == ntohs(HeaderPort(0)) = Port
<1>1. htons(Port) \in UInt16 /\ ntohs(htons(Port)) = Port
  BY SwapTwice, PortAssumption
<1>2. HeaderPort(0) = htons(Port)
  BY <1>1, ByteType, SMT DEF HeaderPort, UInt16
<1>3. QED
  BY <1>1, <1>2

LEMMA Constants ==
  /\ N \in Nat /\ N > 1 /\ Padding \in Nat
  /\ \A n \in OwnStreams : n \in Nat
  BY StreamsAssumption, MemoryAssumption, ByteType, SMT DEF UInt16

\* Every entry that is written is a cell of the memory.
LEMMA EntriesAreCells ==
  ASSUME own \in OwnStreams, NEW o \in 0 .. N
  PROVE  TcpCell(o) \in Cells /\ UdpCell(o) \in Cells
<1>1. own \in Nat /\ N \in Nat /\ Padding \in Nat
  BY Constants
<1>2. own + 1 + Padding + o \in 0 .. (own + 1 + Padding + N) /\ o \in 0 .. (own + 1 + Padding + N)
  BY <1>1, SMT
<1>3. QED
  BY <1>2, Zenon DEF TcpCell, UdpCell, entries, Cells

\* No two entries of one list are the same cell, and entries of the two lists are
\* only when the lists are too short.
LEMMA CellsApart ==
  ASSUME own \in OwnStreams, NEW o \in 0 .. N, NEW k \in Streams
  PROVE  /\ TcpCell(k) = TcpCell(o) => k = o
         /\ UdpCell(k) = UdpCell(o) => k = o
         /\ TcpCell(k) = UdpCell(o) => own + 1 + Padding < N
         /\ own >= N => UdpCell(k) # TcpCell(o) /\ TcpCell(k) # UdpCell(o)
<1>1. own \in Nat /\ N \in Nat /\ Padding \in Nat
  BY Constants
<1>2. QED
  BY <1>1, SMT DEF TcpCell, UdpCell, entries, Streams

\* A list as long as the streams takes all of them.
LEMMA LongListsSuffice ==
  ASSUME own \in OwnStreams, own >= N, NEW o \in 0 .. N
  PROVE  InLists(TcpCell(o)) /\ InLists(UdpCell(o))
<1>1. own \in Nat /\ N \in Nat /\ Padding \in Nat
  BY Constants
<1>2. QED
  BY <1>1, SMT DEF InLists, TcpCell, UdpCell, entries

\* A connection stored in its own entry, or in any once the client has failed.
LEMMA StoreConnection ==
  ASSUME TypeOK, FdInv, NEW o \in 0 .. N, NEW c \in 0 .. N,
         c = o \/ client = "failed",
         fds' = [fds EXCEPT ![TcpCell(o)] = Connection(c)],
         UNCHANGED <<own, client, server>>
  PROVE  FdInv' /\ fds' \in [Cells -> Descriptors]
<1> USE DEF Connection
<1>1. own \in OwnStreams /\ own \in Nat /\ N \in Nat /\ Padding \in Nat /\ c \in Nat /\ c <= N
  BY Constants DEF TypeOK
<1>2. TcpCell(o) \in Cells /\ c \in Descriptors
  BY <1>1, EntriesAreCells DEF Descriptors
<1>3. fds' \in [Cells -> Descriptors]
  BY <1>2 DEF TypeOK
<1>4. ASSUME NEW k \in Streams
      PROVE  /\ fds'[TcpCell(k)] = IF k = o THEN c ELSE fds[TcpCell(k)]
             /\ own >= N => fds'[UdpCell(k)] = fds[UdpCell(k)]
             /\ TcpCell(k)' = TcpCell(k) /\ UdpCell(k)' = UdpCell(k)
  <2>1. k \in 0 .. N
    BY <1>1 DEF Streams
  <2>2. TcpCell(k) \in Cells /\ UdpCell(k) \in Cells
    BY <1>1, <2>1, EntriesAreCells
  <2>3. TcpCell(k)' = TcpCell(k) /\ UdpCell(k)' = UdpCell(k)
    BY DEF TcpCell, UdpCell, entries
  <2>4. /\ TcpCell(k) = TcpCell(o) => k = o
        /\ own >= N => UdpCell(k) # TcpCell(o)
    BY <1>1, CellsApart
  <2>5. k = o => TcpCell(k) = TcpCell(o)
    OBVIOUS
  <2>6. QED
    BY <1>2, <2>2, <2>3, <2>4, <2>5 DEF TypeOK
<1>5. QED
  BY <1>1, <1>3, <1>4 DEF FdInv, OwnEntries

\* A UDP socket stored in its own entry.
LEMMA StoreSocket ==
  ASSUME TypeOK, FdInv, NEW o \in Streams,
         fds' = [fds EXCEPT ![UdpCell(o)] = UdpSocket(o)],
         UNCHANGED <<own, client, server>>
  PROVE  FdInv' /\ fds' \in [Cells -> Descriptors]
<1>1. own \in OwnStreams /\ own \in Nat /\ N \in Nat /\ Padding \in Nat /\ o \in 0 .. N
  BY Constants DEF TypeOK, Streams
<1>2. UdpCell(o) \in Cells /\ UdpSocket(o) \in Descriptors
  BY <1>1, EntriesAreCells, SMT DEF Descriptors, UdpSocket
<1>3. fds' \in [Cells -> Descriptors]
  BY <1>2 DEF TypeOK
<1>4. ASSUME NEW k \in Streams
      PROVE  /\ fds'[TcpCell(k)] = fds[TcpCell(k)] \/ own + 1 + Padding < N
             /\ own >= N => fds'[TcpCell(k)] = fds[TcpCell(k)]
             /\ fds'[UdpCell(k)] = IF k = o THEN UdpSocket(k) ELSE fds[UdpCell(k)]
             /\ TcpCell(k)' = TcpCell(k) /\ UdpCell(k)' = UdpCell(k)
  <2>1. k \in 0 .. N
    BY <1>1 DEF Streams
  <2>2. TcpCell(k) \in Cells /\ UdpCell(k) \in Cells
    BY <1>1, <2>1, EntriesAreCells
  <2>3. TcpCell(k)' = TcpCell(k) /\ UdpCell(k)' = UdpCell(k)
    BY DEF TcpCell, UdpCell, entries
  <2>4. /\ UdpCell(k) = UdpCell(o) => k = o
        /\ TcpCell(k) = UdpCell(o) => own + 1 + Padding < N
        /\ own >= N => TcpCell(k) # UdpCell(o)
    BY <1>1, CellsApart
  <2>5. k = o => UdpCell(k) = UdpCell(o)
    OBVIOUS
  <2>6. QED
    BY <1>2, <2>2, <2>3, <2>4, <2>5 DEF TypeOK
<1>5. QED
  BY <1>1, <1>3, <1>4 DEF FdInv, OwnEntries

LEMMA FdSame ==
  ASSUME FdInv, UNCHANGED <<own, fds, client, server>>
  PROVE  FdInv'
  BY DEF FdInv, OwnEntries, TcpCell, UdpCell, entries

LEMMA InitInv == Init => Inv
<1> SUFFICES ASSUME Init PROVE Inv
  OBVIOUS
<1>1. N \in Nat /\ N > 1 /\ Padding \in Nat /\ own \in OwnStreams /\ own \in Nat
  BY Constants DEF Init
<1>2. TypeOK
  BY DEF Init, TypeOK, Streams, None, NoThread, Descriptors,
         ClientMain, ClientThread, ServerMain, ServerThread
<1>3. GoInv /\ EndInv /\ MixInv
  BY DEF Init, GoInv, EndInv, MixInv, GoSent, BeyondConnect, NoThread
<1>4. ASSUME NEW k \in Streams PROVE fds[TcpCell(k)] = None /\ fds[UdpCell(k)] = None
  <2>1. k \in 0 .. N
    BY <1>1 DEF Streams
  <2>2. TcpCell(k) \in Cells /\ UdpCell(k) \in Cells
    BY <1>1, <2>1, EntriesAreCells
  <2>3. QED
    BY <2>2 DEF Init
<1>5. FdInv
  BY <1>1, <1>4 DEF Init, FdInv, OwnEntries, None
<1>6. QED
  BY <1>2, <1>3, <1>5 DEF Inv

USE DEF clientVars, serverVars, ClientRuns, ServerRuns, ClientMain, ClientThread,
        ServerMain, ServerThread, GoSent, NoThread, BeyondConnect

-----------------------------------------------------------------------------
(* The client's steps. *)

LEMMA DeathKeepsInv == Inv /\ ClientRuns /\ ClientDies /\ UNCHANGED serverVars => Inv'
<1> SUFFICES ASSUME Inv, ClientDies, UNCHANGED serverVars PROVE Inv'
  OBVIOUS
<1>1. TypeOK' /\ GoInv' /\ EndInv' /\ MixInv'
  BY DEF Inv, TypeOK, GoInv, EndInv, MixInv, ClientDies
<1>2. FdInv'
  BY DEF Inv, FdInv, ClientDies, TcpCell, UdpCell, entries
<1>3. QED
  BY <1>1, <1>2 DEF Inv

\* The client writes no memory of the server.
LEMMA ClientKeepsFds ==
  ASSUME Inv, UNCHANGED serverVars,
         client' = client \/ (client' = "done" /\ client = "running")
  PROVE  FdInv'
  BY DEF Inv, FdInv, OwnEntries, TcpCell, UdpCell, entries

LEMMA ClientMainKeepsInv == Inv /\ ClientMainStep => Inv'
<1> SUFFICES ASSUME Inv, ClientMainStep PROVE Inv'
  OBVIOUS
<1>1. CASE ClientRuns /\ ClientDies /\ UNCHANGED serverVars
  BY <1>1, DeathKeepsInv
<1>2. CASE ClientConnect /\ ~ClientDies
  BY <1>2, ClientKeepsFds DEF ClientConnect, Inv, TypeOK, GoInv, EndInv, MixInv
<1>3. CASE ClientSendHeader /\ ~ClientDies
  BY <1>3, ClientKeepsFds DEF ClientSendHeader, SendFails, Inv, TypeOK, GoInv, EndInv, MixInv
<1>4. CASE ClientReceiveGo /\ ~ClientDies
  BY <1>4, ClientKeepsFds DEF ClientReceiveGo, SendFails, Inv, TypeOK, GoInv, EndInv, MixInv
<1>5. CASE ClientJoin
  BY <1>5, ClientKeepsFds DEF ClientJoin, Inv, TypeOK, GoInv, EndInv, MixInv
<1>6. ASSUME NEW k \in Streams, ClientCreate(k) PROVE Inv'
  <2>1. PICK pc \in {"connect", "unset"} : cthread' = [cthread EXCEPT ![k] = pc]
    BY <1>6 DEF ClientCreate, CreatedAs
  <2>2. /\ cthread[k] = "none" /\ cmain = "create" /\ cmain' \in {"create", "join"}
        /\ UNCHANGED <<client, requested>> /\ UNCHANGED serverVars
    BY <1>6 DEF ClientCreate, CreatesNow
  <2>3. TypeOK'
    BY <2>1, <2>2 DEF Inv, TypeOK
  <2>4. GoInv'
    BY <2>1, <2>2 DEF Inv, TypeOK, GoInv
  <2>5. EndInv' /\ MixInv'
    BY <2>1, <2>2 DEF Inv, TypeOK, EndInv, MixInv
  <2>6. FdInv'
    BY <2>2, ClientKeepsFds
  <2>7. QED
    BY <2>3, <2>4, <2>5, <2>6 DEF Inv
<1>7. ASSUME NEW k \in Streams, ClientJoinUnset(k), ~ClientDies PROVE Inv'
  BY <1>7, ClientKeepsFds DEF ClientJoinUnset, Inv, TypeOK, GoInv, EndInv, MixInv
<1>8. QED
  BY <1>1, <1>2, <1>3, <1>4, <1>5, <1>6, <1>7
  DEF ClientMainStep, ClientConnect, ClientSendHeader, ClientReceiveGo, SendFails,
      ClientJoinUnset

LEMMA StreamKeepsInv == ASSUME NEW k \in Streams, Inv, StreamStep(k) PROVE Inv'
<1>1. CASE ClientRuns /\ ClientDies /\ UNCHANGED serverVars
  BY <1>1, DeathKeepsInv
<1>2. CASE StreamConnect(k) /\ ~ClientDies
  <2>1. Listening(k)
    BY <1>2 DEF StreamConnect
  <2>2. PICK j \in Streams :
          options[j].offset = k /\ sthread[j] \notin NoThread \cup {"listen"}
    BY <2>1 DEF Listening
  <2>3. options[j] = [offset |-> j, port |-> Port]
    BY <2>2 DEF Inv, MixInv
  <2>4. sthread[k] \notin NoThread \cup {"listen"}
    BY <2>2, <2>3
  <2>5. QED
    BY <1>2, <2>4, ClientKeepsFds
    DEF StreamConnect, StreamGoes, Inv, TypeOK, GoInv, EndInv, MixInv
<1>3. CASE StreamSendHeader(k) /\ ~ClientDies
  BY <1>3, ClientKeepsFds
  DEF StreamSendHeader, StreamGoes, SendFails, Inv, TypeOK, GoInv, EndInv, MixInv
<1>4. CASE StreamMeasure(k)
  BY <1>4, ClientKeepsFds DEF StreamMeasure, StreamGoes, Inv, TypeOK, GoInv, EndInv, MixInv
<1>5. CASE StreamSendTerm(k) /\ ~ClientDies
  BY <1>5, ClientKeepsFds
  DEF StreamSendTerm, StreamGoes, SendFails, Inv, TypeOK, GoInv, EndInv, MixInv
<1>6. CASE StreamClose(k)
  BY <1>6, ClientKeepsFds DEF StreamClose, StreamGoes, Inv, TypeOK, GoInv, EndInv, MixInv
<1>7. QED
  BY <1>1, <1>2, <1>3, <1>4, <1>5, <1>6
  DEF StreamStep, StreamConnect, StreamSendHeader, StreamSendTerm, SendFails

-----------------------------------------------------------------------------
(* The server's steps. *)

\* The server may exit in any state; a success needs a request, or no thread at
\* all, or lists that are too short, and undefined behaviour a client that failed
\* or lists that are too short.
LEMMA ExitKeepsInv ==
  ASSUME NEW how \in {"success", "failed", "undefined"}, Inv, ServerRuns,
         how = "success" => \/ requested # {}
                            \/ \A k \in Streams : sthread[k] = "unset"
                            \/ own + 1 + Padding < N,
         how = "undefined" => client = "failed" \/ ~(own >= N),
         ServerExits(how)
  PROVE  Inv'
<1>1. TypeOK' /\ GoInv' /\ EndInv' /\ MixInv'
  BY DEF ServerExits, Inv, TypeOK, GoInv, EndInv, MixInv
<1>2. FdInv'
  BY DEF ServerExits, Inv, FdInv, OwnEntries, TcpCell, UdpCell, entries
<1>3. QED
  BY <1>1, <1>2 DEF Inv

LEMMA MasterKeepsInv == Inv /\ MasterStep => Inv'
<1> SUFFICES ASSUME Inv, MasterStep PROVE Inv'
  OBVIOUS
<1>1. CASE MasterListen
  BY <1>1, FdSame DEF MasterListen, MasterGoes, Inv, TypeOK, GoInv, EndInv, MixInv
<1>2. CASE MasterAccept
  BY <1>2, FdSame DEF MasterAccept, MasterGoes, Inv, TypeOK, GoInv, EndInv, MixInv
<1>3. CASE MasterReadHeader
  <2>1. FdInv' /\ fds' \in [Cells -> Descriptors]
    <3>1. 0 \in 0 .. N
      BY Constants
    <3>2. QED
      BY <1>3, <3>1, StoreConnection DEF MasterReadHeader, MasterGoes, Inv
  <2>2. QED
    BY <1>3, <2>1, PortRoundTrip, PortAssumption
    DEF MasterReadHeader, MasterGoes, Inv, TypeOK, GoInv, EndInv, MixInv
<1>4. CASE MasterReadNothing
  <2>1. 1 \in Streams
    BY Constants DEF Streams
  <2>2. client = "failed"
    BY <1>4, <2>1 DEF MasterReadNothing, MainSentHeader, Inv, TypeOK, EndInv, GoInv
  <2>3. QED
    BY <1>4, <2>2, ExitKeepsInv DEF MasterReadNothing
<1>5. CASE MasterSendGo
  BY <1>5, FdSame DEF MasterSendGo, MasterGoes, Inv, TypeOK, GoInv, EndInv, MixInv
<1>6. ASSUME NEW k \in Streams, MasterCreate(k) PROVE Inv'
  <2> USE DEF MasterCreate, MasterGoes
  <2>1. PICK pc \in {"listen", "unset"} : sthread' = [sthread EXCEPT ![k] = pc]
    BY <1>6 DEF CreatedAs
  <2>2. TypeOK'
    BY <1>6, <2>1 DEF Inv, TypeOK
  <2>3. GoInv'
    BY <1>6, <2>1, StreamsAssumption DEF Inv, TypeOK, GoInv, CreatesNow, Streams
  <2>4. EndInv'
    BY <1>6, <2>1 DEF CreatesNow, Inv, TypeOK, EndInv
  <2>5. MixInv'
    BY <1>6, <2>1 DEF Inv, TypeOK, MixInv
  <2>6. QED
    BY <1>6, <2>2, <2>3, <2>4, <2>5, FdSame DEF Inv
<1>7. CASE MasterJoin
  BY <1>7, ExitKeepsInv DEF MasterJoin
<1>8. ASSUME NEW k \in Streams, MasterJoinUnset(k) PROVE Inv'
  <2>1. CASE ServerExits("failed")
    BY <1>8, <2>1, ExitKeepsInv DEF MasterJoinUnset
  <2>2. CASE ~ServerExits("failed")
    BY <1>8, <2>2, FdSame DEF MasterJoinUnset, MasterGoes, Inv, TypeOK, GoInv, EndInv, MixInv
  <2>3. QED
    BY <2>1, <2>2
<1>9. QED
  BY <1>1, <1>2, <1>3, <1>4, <1>5, <1>6, <1>7, <1>8 DEF MasterStep

\* A thread that goes on keeps what is not about memory, and its accept waits for
\* its stream.
LEMMA GoesKeepsInv ==
  ASSUME NEW k \in Streams, Inv, NEW pc \in {"accept", "header", "socket", "bind", "measure"},
         sthread[k] \notin NoThread, ServerGoes(k, pc),
         pc = "accept" \/ BeyondConnect(k),
         fds' \in [Cells -> Descriptors]
  PROVE  TypeOK' /\ GoInv' /\ EndInv' /\ MixInv'
  BY DEF ServerGoes, Inv, TypeOK, GoInv, EndInv, MixInv

LEMMA ThreadKeepsInv == ASSUME NEW k \in Streams, Inv, ThreadStep(k) PROVE Inv'
<1>1. sthread[k] \notin NoThread /\ options[k].offset = k /\ k \in 0 .. N
  <2>1. sthread[k] \notin NoThread
    BY DEF ThreadStep, ThreadListen, ThreadAccept, ThreadReadHeader, ThreadReadNothing,
           ThreadOpenUdp, ThreadBegin, ThreadTerminate, ThreadDies
  <2>2. k \in 0 .. N
    BY Constants DEF Streams
  <2>3. sthread[k] # "none"
    BY <2>1
  <2>4. options[k] = [offset |-> k, port |-> Port]
    BY <2>3 DEF Inv, MixInv
  <2>5. options[k].offset = k
    BY <2>4
  <2>6. QED
    BY <2>1, <2>2, <2>5
<1>2. sthread[k] \in {"header", "socket", "bind", "measure"} => BeyondConnect(k)
  BY DEF Inv, EndInv
<1>3. own >= N => InLists(TcpCell(k)) /\ InLists(UdpCell(k))
  BY <1>1, LongListsSuffice DEF Inv, TypeOK
<1>4. CASE ThreadListen(k)
  BY <1>1, <1>4, GoesKeepsInv, FdSame DEF ThreadListen, ServerGoes, Inv, TypeOK
<1>5. CASE ThreadAccept(k)
  <2>1. BeyondConnect(k)
    BY <1>1, <1>5 DEF ThreadAccept, Connected
  <2>2. QED
    BY <1>1, <1>5, <2>1, GoesKeepsInv, FdSame DEF ThreadAccept, ServerGoes, Inv, TypeOK
<1>6. CASE ThreadReadHeader(k)
  <2>1. CASE ServerExits("undefined")
    <3>2. CASE ~InLists(TcpCell(k))
      BY <1>3, <1>6, <2>1, <3>2, ExitKeepsInv DEF ThreadReadHeader
    <3>3. CASE InLists(TcpCell(k))
      BY <1>1, <1>6, <2>1, <3>3 DEF ThreadReadHeader, ServerStores, ServerExits, ServerGoes
    <3>4. QED
      BY <3>2, <3>3
  <2>2. CASE ServerGoes(k, "socket") /\ fds' = [fds EXCEPT ![TcpCell(k)] = Connection(k)]
    <3>1. FdInv' /\ fds' \in [Cells -> Descriptors]
      BY <1>1, <2>2, StoreConnection DEF ServerGoes, Inv
    <3>2. QED
      BY <1>1, <1>2, <1>6, <2>2, <3>1, GoesKeepsInv DEF ThreadReadHeader, Inv
  <2>3. QED
    BY <1>1, <1>6, <2>1, <2>2 DEF ThreadReadHeader, ServerStores
<1>7. CASE ThreadReadNothing(k)
  <2>1. client = "failed"
    BY <1>1, <1>2, <1>7 DEF ThreadReadNothing, SentHeader, Connected, Inv, TypeOK, EndInv
  <2>2. CASE ServerExits("undefined")
    BY <1>7, <2>1, <2>2, ExitKeepsInv DEF ThreadReadNothing
  <2>3. CASE ServerGoes(k, "socket") /\ UNCHANGED fds
    BY <1>1, <1>2, <1>7, <2>3, GoesKeepsInv, FdSame
    DEF ThreadReadNothing, ServerGoes, Inv, TypeOK
  <2>4. ASSUME NEW o \in 0 .. N, ServerGoes(k, "socket"),
               fds' = [fds EXCEPT ![TcpCell(o)] = Connection(k)]
        PROVE  Inv'
    <3>1. FdInv' /\ fds' \in [Cells -> Descriptors]
      BY <1>1, <2>1, <2>4, StoreConnection DEF ServerGoes, Inv
    <3>2. QED
      BY <1>1, <1>2, <1>7, <2>4, <3>1, GoesKeepsInv DEF ThreadReadNothing, Inv
  <2>5. {0} \cup Streams = 0 .. N
    BY Constants DEF Streams
  <2>6. QED
    BY <1>1, <1>7, <2>2, <2>3, <2>4, <2>5 DEF ThreadReadNothing, ServerStores
<1>8. CASE ThreadOpenUdp(k)
  <2>1. CASE ~InLists(UdpCell(k)) /\ ServerExits("undefined")
    BY <1>3, <1>8, <2>1, ExitKeepsInv DEF ThreadOpenUdp
  <2>2. CASE ServerGoes(k, "bind") /\ fds' = [fds EXCEPT ![UdpCell(k)] = UdpSocket(k)]
    <3>1. FdInv' /\ fds' \in [Cells -> Descriptors]
      BY <2>2, StoreSocket DEF ServerGoes, Inv
    <3>2. QED
      BY <1>1, <1>2, <1>8, <2>2, <3>1, GoesKeepsInv DEF ThreadOpenUdp, Inv
  <2>3. QED
    BY <1>1, <1>8, <2>1, <2>2 DEF ThreadOpenUdp, ServerStores
<1>9. CASE ThreadBegin(k)
  BY <1>1, <1>2, <1>9, GoesKeepsInv, FdSame DEF ThreadBegin, ServerGoes, Inv, TypeOK
<1>10. CASE ThreadTerminate(k)
  <2>1. CASE fds[TcpCell(k)] \in requested
    BY <1>10, <2>1, ExitKeepsInv DEF ThreadTerminate
  <2>2. ASSUME NEW j \in Streams, fds[TcpCell(k)] = UdpSocket(j) PROVE Inv'
    <3>1. fds[TcpCell(k)] > N
      BY <2>2, Constants DEF UdpSocket, Streams
    <3>2. own + 1 + Padding < N
      BY <3>1 DEF Inv, FdInv
    <3>3. QED
      BY <1>10, <3>2, ExitKeepsInv DEF ThreadTerminate
  <2>3. QED
    BY <1>1, <1>10, <2>1, <2>2 DEF ThreadTerminate, ReadsAsTermination
<1>11. CASE ThreadDies(k)
  BY <1>11, ExitKeepsInv DEF ThreadDies
<1>12. QED
  BY <1>4, <1>5, <1>6, <1>7, <1>8, <1>9, <1>10, <1>11 DEF ThreadStep

-----------------------------------------------------------------------------
LEMMA NextKeepsInv == Inv /\ [Next]_vars => Inv'
<1> SUFFICES ASSUME Inv, [Next]_vars PROVE Inv'
  OBVIOUS
<1>1. CASE ClientFault
  BY <1>1, DeathKeepsInv DEF ClientFault
<1>2. CASE ServerFault
  BY <1>2, ExitKeepsInv DEF ServerFault
<1>3. CASE UNCHANGED vars
  BY <1>3, FdSame DEF vars, Inv, TypeOK, GoInv, EndInv, MixInv
<1>4. QED
  BY <1>1, <1>2, <1>3, ClientMainKeepsInv, MasterKeepsInv, StreamKeepsInv, ThreadKeepsInv
  DEF Next

THEOREM Invariance == Spec => []Inv
  BY InitInv, NextKeepsInv, PTL DEF Spec

\* The threads of both processes and the memory of the server's lists keep their
\* types, for any number of streams (conduct_experiment_client_parallel and its
\* server).
THEOREM TypeCorrect == Spec => []TypeOK
<1>1. Inv => TypeOK
  BY DEF Inv
<1>2. QED
  BY <1>1, Invariance, PTL

\* No thread's death, failed creation, reset or close is taken for a normal end
\* of a stream: pthread_join on the client, checkForTermination on the server.
THEOREM NormalEnd == Spec => []NormalEndIsRequested
<1>1. Inv => NormalEndIsRequested
  BY DEF Inv, TypeOK, EndInv, NormalEndIsRequested
<1>2. QED
  BY <1>1, Invariance, PTL

\* A stream's thread has that stream's ports, and with a server whose own -n is as
\* large nothing but that stream's descriptors, wherever the lists lie.
THEOREM NoMixing == Spec => []StreamsDoNotMix
<1>1. Inv => StreamsDoNotMix
  BY DEF Inv, MixInv, FdInv, OwnEntries, StreamsDoNotMix
<1>2. QED
  BY <1>1, Invariance, PTL

\* The go message is sent after the last pthread_create of the server.
THEOREM GoAfterCreation == Spec => []GoMeansCreated
<1>1. Inv => GoMeansCreated
  BY DEF Inv, GoInv, GoMeansCreated
<1>2. QED
  BY <1>1, Invariance, PTL
=============================================================================
