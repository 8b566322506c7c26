----------------------------- MODULE LossyStream -----------------------------
(***************************************************************************)
(* One stream from end to end: clients that number their datagrams         *)
(* (send_wbandwidth), the path into the receive buffer of the server's UDP *)
(* socket, and the accounting of StreamStats, whose environment this is.   *)
(* The socket is bound but not connected, so it takes the datagrams of     *)
(* every client that sends to it.                                          *)
(***************************************************************************)
EXTENDS StreamStats, SequencesExt

CONSTANTS
  Clients,      \* the clients that send to the server's port
  Len1,         \* the length of every datagram: packet_length + sizeof(udp_header_t)
  MaxExchanges  \* bound: how often the path exchanges neighbours; 0: it keeps the order

ASSUME PathAssumption == Len1 \in Lens /\ MaxExchanges \in Nat

VARIABLES
  sent,       \* packet_id of each client's bandwidthControl; Unsent before the first
  path,       \* the datagrams on their way or in the buffer, by id
  lost,       \* history: how many datagrams were lost
  exchanged,  \* history: how many times two neighbours were exchanged
  discarded   \* the server has received, and thrown away, its first datagram

pathVars == <<sent, path, lost, exchanged, discarded>>
allVars == <<status, elapsed, prevtime, interval_max, curr_id, missing_packets,
             missing_packets_so_far, total_packets, total_packets_so_far,
             throughput, goodput, report, sent, path, lost, exchanged, discarded>>

Unsent == -1
\* The first datagram of start_experiment_client: its bytes, the id among them,
\* are uninitialized memory.  It stands in path as id 0.
Opening == 0

PathInit ==
  /\ Init
  /\ sent = [c \in Clients |-> Unsent]
  /\ path = <<>> /\ lost = 0 /\ exchanged = 0 /\ discarded = FALSE

\* Mutants: the id is advanced after it was written; and in two places.
SendStale(c) ==
  /\ sent[c] < MaxId
  /\ sent' = [sent EXCEPT ![c] = @ + 1]
  /\ path' = Append(path, IF sent[c] = Unsent THEN Opening ELSE sent[c])
  /\ UNCHANGED <<lost, exchanged, discarded, vars>>
SendSkips(c) ==
  /\ sent[c] + 1 < MaxId
  /\ sent' = [sent EXCEPT ![c] = IF @ = Unsent THEN 0 ELSE @ + 2]
  /\ path' = Append(path, sent'[c])
  /\ UNCHANGED <<lost, exchanged, discarded, vars>>

\* start_experiment_client's first sendto, then one send_wbandwidth after the
\* other: the id is advanced, written and sent.
Send(c) ==
  /\ sent[c] < MaxId
  /\ sent' = [sent EXCEPT ![c] = @ + 1]
  /\ path' = Append(path, sent'[c])
  /\ UNCHANGED <<lost, exchanged, discarded, vars>>

\* The network drops a datagram, or the receive buffer is full (external).
Lose ==
  /\ \E i \in 1 .. Len(path) : path' = RemoveAt(path, i)
  /\ lost' = lost + 1
  /\ UNCHANGED <<sent, exchanged, discarded, vars>>

\* Two neighbours arrive in the other order (external).
Exchange ==
  /\ exchanged < MaxExchanges
  /\ exchanged' = exchanged + 1
  /\ \E i \in 1 .. (Len(path) - 1) :
       path' = [path EXCEPT ![i] = path[i + 1], ![i + 1] = path[i]]
  /\ UNCHANGED <<sent, lost, discarded, vars>>

\* The first datagram that arrives starts the clock and is thrown away, whether
\* or not it is an opening one.
Discard ==
  /\ ~discarded /\ path # <<>>
  /\ discarded' = TRUE
  /\ path' = Tail(path)
  /\ UNCHANGED <<sent, lost, exchanged, vars>>

\* A datagram is counted: an opening one with whatever id it holds.
Receive ==
  /\ discarded /\ path # <<>>
  /\ \/ Head(path) # Opening /\ Packet(Head(path), Len1)
     \/ Head(path) = Opening /\ \E id \in 0 .. MaxId : Packet(id, Len1)
     \/ DivideByZero
  /\ path' = Tail(path)
  /\ UNCHANGED <<sent, lost, exchanged, discarded>>

\* The server's clock runs from the discarded datagram on.
Pass == discarded /\ Tick /\ UNCHANGED pathVars

PathNext ==
  \/ \E c \in Clients : Send(c)
  \/ Lose \/ Exchange \/ Discard \/ Receive \/ Pass

PathSpec == PathInit /\ [][PathNext]_allVars

-----------------------------------------------------------------------------
(* Properties *)

\* One client and the path to the server are the environment StreamStats takes
\* for granted: as long as no two datagrams have been exchanged every id counted
\* is greater than the one before (NextFifo), also when the first datagrams are
\* lost; after that any id may come, also the undefined one of the opening
\* datagram.
ImplementsStreamStats ==
  Init /\ [][IF exchanged = 0 THEN NextFifo ELSE Next]_vars

\* From end to end the server never reports a loss that did not happen: it
\* counts at most as many misses as datagrams were lost, the opening one
\* included (when that is lost, the first numbered one is thrown away in its
\* place and counted as missing).  It holds for one client on a path that keeps
\* the order.  mini_iperf.h:57 gives packet_id "to check outoforder and missing
\* packets": the code tells neither a datagram out of order nor one of another
\* client from a missing one.
LossIsReal == missing_packets <= lost

\* On a path that reorders the misses are still explained: whenever two
\* neighbours are exchanged the comparison with the previous id fails at most
\* three times more, before, between and after the two.
MissesAreExplained == missing_packets <= lost + 3 * exchanged
=============================================================================
