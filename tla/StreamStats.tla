----------------------------- MODULE StreamStats -----------------------------
(***************************************************************************)
(* The per-packet accounting of the mini_iperf server: the body of the     *)
(* receive loop of start_experiment_server (mini_iperf_server.c:548-609).  *)
(* Every datagram is counted, the ones that are not the successor of the   *)
(* previous one are taken as evidence of loss, and the first datagram of a *)
(* second that is a multiple of the interval closes a report.              *)
(*                                                                         *)
(* The datagrams are an environment: NextFifo lets the network drop them,  *)
(* Next also lets it reorder and duplicate them.  The clock is the         *)
(* difference of the tv_sec fields (timespec_diff_lowres), so it counts    *)
(* second boundaries since the discarded first datagram.                   *)
(***************************************************************************)
EXTENDS Integers

CONSTANTS
  Interval,     \* exp_options->interval_duration, in seconds
  HeaderLen,    \* sizeof(udp_header_t)
  Lens,         \* the datagram lengths recvfrom may return
  Word,         \* uint32_t arithmetic is modulo Word
  MaxId,        \* bound: packet ids are at most MaxId
  MaxElapsed,   \* bound: seconds the clock may advance
  MaxPackets    \* bound: datagrams counted in one behaviour

ASSUME IntervalAssumption == Interval \in Nat \ {0}
ASSUME LengthAssumption == HeaderLen \in Nat /\ Lens \subseteq Nat
\* The packet counters do not wrap within the bound; the byte counters, and the
\* product in calculateLostPackets, may.
ASSUME BoundAssumption ==
  /\ MaxId \in Nat
  /\ MaxElapsed \in Nat
  /\ Word \in Nat
  /\ MaxPackets \in 0 .. (Word - 1)

VARIABLES
  status,                 \* "running", or "sigfpe" after an integer division by 0
  elapsed,                \* what time_elapsed would be if a datagram came now
  prevtime,               \* time_elapsed of the last report
  interval_max,           \* end of the last reported interval, as labelled
  curr_id,                \* packet_id of the last datagram
  missing_packets,        \* every miss since the start
  missing_packets_so_far, \* sequence gaps since the last report
  total_packets,          \* datagrams since the start
  total_packets_so_far,   \* datagrams since the last report
  throughput,             \* stats.throughput
  goodput,                \* stats.goodput
  report                  \* the last report handed to send_stats

vars == <<status, elapsed, prevtime, interval_max, curr_id, missing_packets,
          missing_packets_so_far, total_packets, total_packets_so_far,
          throughput, goodput, report>>

UInt32 == 0 .. (Word - 1)

\* calculateLostPackets: the product is uint32_t, the quotient an integer.
calculateLostPackets(lost_packets, packets) ==
  ((lost_packets * 100) % Word) \div packets

NoReport == [sec_min |-> 0, sec_max |-> 0, throughput |-> 0,
             goodput |-> 0, pct_loss_percentage |-> 0]

Init ==
  /\ status = "running"
  /\ elapsed = 0
  /\ prevtime = 0
  /\ interval_max = 0
  /\ curr_id = 0
  /\ missing_packets = 0
  /\ missing_packets_so_far = 0
  /\ total_packets = 0
  /\ total_packets_so_far = 0
  /\ throughput = 0
  /\ goodput = 0
  /\ report = NoReport

-----------------------------------------------------------------------------
\* Mutant: any new second is taken for the end of an interval.
ReportDueEverySecond == prevtime # elapsed

\* isInterval && prevtime != time_elapsed
ReportDue == elapsed % Interval = 0 /\ prevtime # elapsed

\* Mutant: the sum is kept in a signed integer.
ReceivedSigned(len) == throughput + len - HeaderLen

\* stats.throughput += len - sizeof(udp_header_t), an unsigned subtraction
Received(len) == (throughput + len - HeaderLen) % Word

IsShort(len) == len < HeaderLen
\* Mutant: compares with the previous id, not with its successor.
IsGapOffByOne(id) == curr_id # id

IsGap(id) == curr_id + 1 # id

\* Mutants: the gaps are not reset by a report; stats is not cleared by a
\* report; a datagram that reveals a gap is not counted.
AccountKeepsGaps(id, len, good, gaps, packets) ==
  /\ curr_id' = id
  /\ missing_packets' = missing_packets + (IF IsGap(id) THEN 1 ELSE 0)
  /\ missing_packets_so_far' = missing_packets_so_far + (IF IsGap(id) THEN 1 ELSE 0)
  /\ goodput' = IF IsGap(id) THEN good ELSE good + len - HeaderLen
  /\ total_packets_so_far' = packets + 1

AccountKeepsGoodput(id, len, good, gaps, packets) ==
  /\ curr_id' = id
  /\ missing_packets' = missing_packets + (IF IsGap(id) THEN 1 ELSE 0)
  /\ missing_packets_so_far' = gaps + (IF IsGap(id) THEN 1 ELSE 0)
  /\ goodput' = IF IsGap(id) THEN goodput ELSE goodput + len - HeaderLen
  /\ total_packets_so_far' = packets + 1

AccountSkipsGaps(id, len, good, gaps, packets) ==
  /\ curr_id' = id
  /\ missing_packets' = missing_packets + (IF IsGap(id) THEN 1 ELSE 0)
  /\ missing_packets_so_far' = gaps + (IF IsGap(id) THEN 1 ELSE 0)
  /\ goodput' = IF IsGap(id) THEN good ELSE good + len - HeaderLen
  /\ total_packets_so_far' = packets + (IF IsGap(id) THEN 0 ELSE 1)

\* What is done with the datagram itself, after a possible report.  good, gaps
\* and packets are the interval's counters that the report may have reset.
AccountPacket(id, len, good, gaps, packets) ==
  /\ curr_id' = id
  /\ missing_packets' = missing_packets + (IF IsShort(len) THEN 1 ELSE 0)
                                        + (IF IsGap(id) THEN 1 ELSE 0)
  /\ missing_packets_so_far' = (gaps + (IF IsGap(id) THEN 1 ELSE 0)) % Word
  /\ goodput' = IF IsShort(len) \/ IsGap(id)
                THEN good
                ELSE (good + len - HeaderLen) % Word
  /\ total_packets_so_far' = (packets + 1) % Word

Receiving == status = "running" /\ total_packets < MaxPackets

\* A datagram that closes no interval.
CountPacket(id, len) ==
  /\ Receiving
  /\ ~ReportDue
  /\ total_packets' = total_packets + 1
  /\ throughput' = Received(len)
  /\ AccountPacket(id, len, goodput, missing_packets_so_far, total_packets_so_far)
  /\ UNCHANGED <<status, elapsed, prevtime, interval_max, report>>

\* The datagram that closes an interval: the report takes its bytes into the
\* throughput, but its goodput and its gap go to the interval it opens.
ReportInterval(id, len) ==
  /\ Receiving
  /\ ReportDue
  /\ total_packets_so_far # 0
  /\ total_packets' = total_packets + 1
  /\ interval_max' = interval_max + Interval
  /\ report' = [sec_min |-> interval_max,
                sec_max |-> interval_max + Interval,
                throughput |-> Received(len),
                goodput |-> goodput,
                pct_loss_percentage |->
                  calculateLostPackets(missing_packets_so_far, total_packets_so_far)]
  /\ throughput' = 0
  /\ prevtime' = elapsed
  /\ AccountPacket(id, len, 0, 0, 0)
  /\ UNCHANGED <<status, elapsed>>

\* The same with no datagram counted yet: calculateLostPackets divides by 0 and
\* the process is killed; the variables keep what the last datagram left.
DivideByZero ==
  /\ Receiving
  /\ ReportDue
  /\ total_packets_so_far = 0
  /\ status' = "sigfpe"
  /\ UNCHANGED <<elapsed, prevtime, interval_max, curr_id, missing_packets,
                 missing_packets_so_far, total_packets, total_packets_so_far,
                 throughput, goodput, report>>

\* A second boundary passes (external: the monotonic clock).
Tick ==
  /\ status = "running"
  /\ elapsed < MaxElapsed
  /\ elapsed' = elapsed + 1
  /\ UNCHANGED <<status, prevtime, interval_max, curr_id, missing_packets,
                 missing_packets_so_far, total_packets, total_packets_so_far,
                 throughput, goodput, report>>

Packet(id, len) == CountPacket(id, len) \/ ReportInterval(id, len)

\* The network keeps the order and makes no duplicates, but may drop.
NextFifo ==
  \/ Tick
  \/ DivideByZero
  \/ \E id \in 1 .. MaxId, len \in Lens : id > curr_id /\ Packet(id, len)

\* The network may also reorder and duplicate, the opening datagram included,
\* whose id is uninitialized memory.
Next ==
  \/ Tick
  \/ DivideByZero
  \/ \E id \in 0 .. MaxId, len \in Lens : Packet(id, len)

SpecFifo == Init /\ [][NextFifo]_vars
Spec == Init /\ [][Next]_vars

-----------------------------------------------------------------------------
\* Type invariant: the counters that are uint32_t in the code stay in range.
TypeOK ==
  /\ status \in {"running", "sigfpe"}
  /\ elapsed \in 0 .. MaxElapsed
  /\ prevtime \in Nat
  /\ interval_max \in Nat
  /\ curr_id \in 0 .. MaxId
  /\ missing_packets \in Nat
  /\ missing_packets_so_far \in UInt32
  /\ total_packets \in 0 .. MaxPackets
  /\ total_packets_so_far \in UInt32
  /\ throughput \in UInt32
  /\ goodput \in UInt32
  /\ report \in [sec_min : Nat, sec_max : Nat, throughput : UInt32,
                 goodput : UInt32, pct_loss_percentage : Nat]

\* The interval labels (interval_max) never run ahead of the clock: however
\* long the stream pauses, the server does not report a second that has not
\* passed.  They can only fall behind, by whole intervals.
LabelsBehindClock ==
  /\ interval_max <= prevtime
  /\ prevtime <= elapsed
  /\ prevtime % Interval = 0

\* A report never claims to have lost more than all packets: the gaps counted
\* since a report are at most the packets counted since it, because both are
\* reset together and a packet adds at most one gap.
LossAtMostReceived ==
  /\ missing_packets_so_far <= total_packets_so_far
  /\ report.pct_loss_percentage <= 100

\* With datagrams of one length no report shows more goodput than throughput,
\* though the closing datagram is in the throughput of the interval it closes
\* and in the goodput of the interval it opens.
GoodputAtMostThroughput == report.goodput <= report.throughput

\* On a network that keeps the order, the gaps never overstate the loss: the
\* ids up to curr_id that never arrived are at least the misses counted.
LossNotOverstated ==
  /\ missing_packets_so_far <= missing_packets
  /\ missing_packets <= curr_id - total_packets

\* The interval's packet counter is part of the total one, and is zero only
\* before the first packet: the packet that closes a report is already counted
\* in the interval it opens.
CountersAgree ==
  /\ total_packets_so_far <= total_packets
  /\ total_packets_so_far = 0 => total_packets = 0
  /\ total_packets = 0 => interval_max = 0

\* Once a packet has been counted the division is safe for ever: the only
\* report without packets is one due at the very first counted datagram.
DivisionSafeAfterFirstPacket ==
  status = "sigfpe" => total_packets = 0 /\ interval_max = 0 /\ elapsed >= Interval

\* Two reports are at least Interval seconds apart and their labels are
\* adjacent: a second never gets two reports, an interval is never skipped.
ReportsAreSpaced ==
  [][prevtime' # prevtime =>
       /\ prevtime' >= prevtime + Interval
       /\ report'.sec_min = interval_max
       /\ report'.sec_max = report'.sec_min + Interval]_vars

\* mini_iperf.c:83 "Interval in seconds to print information": every interval
\* with traffic ends in a report.  The code may divide by 0 instead.
NeverDividesByZero == status # "sigfpe"

\* mini_iperf.h:47 "Interval to print experiment results": the interval a report
\* names ends in the second it is printed.  A pause longer than an interval
\* leaves the labels behind for the rest of the experiment.
LabelIsElapsed ==
  [][prevtime' # prevtime => report'.sec_max = elapsed]_vars

\* mini_iperf.h:57 "to check outoforder and missing packets": on a network that
\* keeps the order, the packets missing are the ids that did not arrive.  The
\* code counts one miss for a gap of any length.
MissingIsExact == missing_packets = curr_id - total_packets
=============================================================================
