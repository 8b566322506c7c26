-------------------------- MODULE StreamStatsProofs --------------------------
(***************************************************************************)
(* Proofs about StreamStats, for every interval, word size, set of lengths *)
(* and bound that the assumptions of the module allow.                     *)
(***************************************************************************)
EXTENDS StreamStats, TLAPS

(***************************************************************************)
(* Remainders                                                              *)
(***************************************************************************)

\* Two different multiples of k, in order, are at least k apart.
LEMMA MultiplesApart ==
  ASSUME NEW k \in Nat \ {0}, NEW a \in Nat, NEW b \in Nat,
         a % k = 0, b % k = 0, a < b
  PROVE  a + k <= b
<1>1. PICK i \in Nat : a = k * i
  <2>1. a = k * (a \div k)
    BY SMT
  <2>2. a \div k \in Nat
    BY SMT
  <2> QED BY <2>1, <2>2
<1>2. PICK j \in Nat : b = k * j
  <2>1. b = k * (b \div k)
    BY SMT
  <2>2. b \div k \in Nat
    BY SMT
  <2> QED BY <2>1, <2>2
<1>3. i < j
  BY <1>1, <1>2, SMT
<1>4. k * (i + 1) <= k * j
  BY <1>3, SMT
<1> QED BY <1>1, <1>2, <1>4, SMT

\* A remainder is a machine word, and the word itself when it fits.
LEMMA Remainder ==
  ASSUME NEW w \in Nat \ {0}, NEW x \in Int
  PROVE  /\ x % w \in 0 .. (w - 1)
         /\ x \in 0 .. (w - 1) => x % w = x
         /\ x \in Nat => x % w <= x
<1>1. x % w \in 0 .. (w - 1)
  BY SMT
<1>2. x \in 0 .. (w - 1) => x % w = x
  BY SMT
<1>3. x \in Nat => x % w <= x
  BY SMT
<1> QED BY <1>1, <1>2, <1>3
(***************************************************************************)
(* The loss percentage                                                     *)
(***************************************************************************)

\* The quotient of calculateLostPackets is a natural number, and a percentage
\* of at most 100 when no more packets were lost than counted.
LEMMA LossPercentage ==
  ASSUME NEW lost \in Nat, NEW packets \in Nat \ {0}, Word \in Nat \ {0}
  PROVE  /\ calculateLostPackets(lost, packets) \in Nat
         /\ lost <= packets => calculateLostPackets(lost, packets) <= 100
<1> DEFINE p == (lost * 100) % Word
<1>1. p \in Nat /\ p <= lost * 100
  <2>1. lost * 100 \in Nat
    BY SMT
  <2>2. \A x \in Nat : x % Word \in Nat /\ x % Word <= x
    BY Remainder, Z3
  <2> QED BY <2>1, <2>2
<1> HIDE DEF p
<1>2. p \div packets \in Nat
  BY <1>1, SMT
<1>3. lost <= packets => p \div packets <= 100
  <2>1. p = packets * (p \div packets) + (p % packets) /\ p % packets >= 0
    BY <1>1, SMT
  <2>2. SUFFICES ASSUME lost <= packets, p \div packets >= 101
                 PROVE  FALSE
    BY <1>2, SMT
  <2>3. packets * (p \div packets) >= packets * 101
    BY <1>2, <2>2, SMT
  <2> QED BY <1>1, <1>2, <2>1, <2>2, <2>3, SMT
<1> QED BY <1>2, <1>3 DEF calculateLostPackets, p

(***************************************************************************)
(* Type correctness                                                        *)
(***************************************************************************)

\* Accounting a datagram keeps the counters in their types, whatever the
\* counters of the interval it starts from.
LEMMA AccountPacketType ==
  ASSUME TypeOK, NEW id \in 0 .. MaxId, NEW len \in Lens,
         NEW good \in UInt32, NEW gaps \in UInt32, NEW packets \in UInt32,
         AccountPacket(id, len, good, gaps, packets)
  PROVE  /\ curr_id' \in 0 .. MaxId
         /\ missing_packets' \in Nat
         /\ missing_packets_so_far' \in UInt32
         /\ goodput' \in UInt32
         /\ total_packets_so_far' \in UInt32
<1> USE BoundAssumption, LengthAssumption
<1>1. \A x \in Int : x % Word \in UInt32
  BY Remainder, Z3 DEF UInt32
<1>2. curr_id' \in 0 .. MaxId /\ missing_packets' \in Nat
  BY DEF AccountPacket, TypeOK
<1>3. missing_packets_so_far' \in UInt32
  <2>1. gaps + (IF IsGap(id) THEN 1 ELSE 0) \in Int
    BY DEF UInt32
  <2> QED BY <1>1, <2>1 DEF AccountPacket
<1>4. goodput' \in UInt32
  <2>1. good + len - HeaderLen \in Int
    BY DEF UInt32
  <2> QED BY <1>1, <2>1 DEF AccountPacket
<1>5. total_packets_so_far' \in UInt32
  <2>1. packets + 1 \in Int
    BY DEF UInt32
  <2> QED BY <1>1, <2>1 DEF AccountPacket
<1> QED BY <1>2, <1>3, <1>4, <1>5

\* The bytes received, wrapped to a machine word.
LEMMA ReceivedType ==
  ASSUME TypeOK, NEW len \in Lens
  PROVE  Received(len) \in UInt32
<1> USE BoundAssumption, LengthAssumption
<1>1. \A x \in Int : x % Word \in UInt32
  BY Remainder, Z3 DEF UInt32
<1>2. throughput + len - HeaderLen \in Int
  BY DEF TypeOK, UInt32
<1> QED BY <1>1, <1>2 DEF Received

\* Every step of the unordered network keeps the types.
LEMMA TypeStep ==
  ASSUME TypeOK, [Next]_vars
  PROVE  TypeOK'
<1> USE BoundAssumption, LengthAssumption, IntervalAssumption
<1>1. CASE Tick
  BY <1>1 DEF Tick, TypeOK
<1>2. CASE DivideByZero
  BY <1>2 DEF DivideByZero, TypeOK
<1>3. ASSUME NEW id \in 0 .. MaxId, NEW len \in Lens, CountPacket(id, len)
      PROVE  TypeOK'
  <2>1. /\ curr_id' \in 0 .. MaxId
        /\ missing_packets' \in Nat
        /\ missing_packets_so_far' \in UInt32
        /\ goodput' \in UInt32
        /\ total_packets_so_far' \in UInt32
    BY <1>3, AccountPacketType DEF CountPacket, TypeOK
  <2>2. throughput' \in UInt32
    BY <1>3, ReceivedType DEF CountPacket
  <2> QED BY <1>3, <2>1, <2>2 DEF CountPacket, Receiving, TypeOK
<1>4. ASSUME NEW id \in 0 .. MaxId, NEW len \in Lens, ReportInterval(id, len)
      PROVE  TypeOK'
  <2>1. /\ curr_id' \in 0 .. MaxId
        /\ missing_packets' \in Nat
        /\ missing_packets_so_far' \in UInt32
        /\ goodput' \in UInt32
        /\ total_packets_so_far' \in UInt32
    <3>1. 0 \in UInt32
      BY DEF UInt32
    <3> QED BY <1>4, <3>1, AccountPacketType DEF ReportInterval
  <2>2. throughput' \in UInt32
    BY <1>4 DEF ReportInterval, UInt32
  <2>3. report' \in [sec_min : Nat, sec_max : Nat, throughput : UInt32,
                     goodput : UInt32, pct_loss_percentage : Nat]
    <3>1. Received(len) \in UInt32
      BY ReceivedType
    <3>2. calculateLostPackets(missing_packets_so_far, total_packets_so_far) \in Nat
      BY <1>4, LossPercentage DEF ReportInterval, TypeOK, UInt32
    <3> QED BY <1>4, <3>1, <3>2 DEF ReportInterval, TypeOK
  <2> QED BY <1>4, <2>1, <2>2, <2>3 DEF ReportInterval, Receiving, TypeOK
<1>5. CASE UNCHANGED vars
  BY <1>5 DEF vars, TypeOK
<1> QED BY <1>1, <1>2, <1>3, <1>4, <1>5 DEF Next, Packet

\* The counters of the receive loop keep their types on any network.
THEOREM TypeCorrect == Spec => []TypeOK
<1>1. Init => TypeOK
  BY BoundAssumption DEF Init, TypeOK, NoReport, UInt32
<1>2. TypeOK /\ [Next]_vars => TypeOK'
  BY TypeStep
<1> QED BY <1>1, <1>2, PTL DEF Spec

(***************************************************************************)
(* Labels, losses and the division                                         *)
(***************************************************************************)

\* The inductive invariant: the four properties support each other.  That the
\* division is safe needs the counters to agree; that they agree needs the
\* types; that a due report is a whole interval after the last one needs the
\* labels to be multiples of the interval.
Inv ==
  /\ TypeOK
  /\ LabelsBehindClock
  /\ CountersAgree
  /\ LossAtMostReceived
  /\ DivisionSafeAfterFirstPacket

\* A report falls due at least one whole interval after the previous one.
LEMMA DueIsSpaced ==
  ASSUME TypeOK, LabelsBehindClock, ReportDue
  PROVE  elapsed >= prevtime + Interval
<1>1. /\ prevtime \in Nat /\ elapsed \in Nat
      /\ prevtime % Interval = 0 /\ elapsed % Interval = 0
      /\ prevtime < elapsed
  BY BoundAssumption DEF TypeOK, LabelsBehindClock, ReportDue
<1> QED BY <1>1, MultiplesApart, IntervalAssumption

\* The packet counters do not wrap: they are bounded by total_packets.
LEMMA CountersDoNotWrap ==
  ASSUME NEW n \in Nat, n <= MaxPackets
  PROVE  n % Word = n
<1>1. Word \in Nat \ {0} /\ n \in 0 .. (Word - 1)
  BY BoundAssumption
<1> QED BY <1>1

LEMMA InvStep ==
  ASSUME Inv, [Next]_vars
  PROVE  Inv'
<1> USE BoundAssumption, LengthAssumption, IntervalAssumption
<1>t. TypeOK'
  BY TypeStep DEF Inv
<1>1. CASE Tick
  BY <1>t, <1>1 DEF Tick, Inv, TypeOK, LabelsBehindClock, CountersAgree,
                    LossAtMostReceived, DivisionSafeAfterFirstPacket
<1>2. CASE DivideByZero
  <2>1. elapsed >= Interval
    BY <1>2, DueIsSpaced DEF DivideByZero, Inv, TypeOK
  <2>2. total_packets = 0 /\ interval_max = 0
    BY <1>2 DEF DivideByZero, Inv, CountersAgree
  <2> QED BY <1>t, <1>2, <2>1, <2>2
          DEF DivideByZero, Inv, TypeOK, LabelsBehindClock, CountersAgree,
              LossAtMostReceived, DivisionSafeAfterFirstPacket
<1>3. ASSUME NEW id \in 0 .. MaxId, NEW len \in Lens, CountPacket(id, len)
      PROVE  Inv'
  <2>1. LabelsBehindClock'
    BY <1>3 DEF CountPacket, Inv, LabelsBehindClock
  <2>2. /\ total_packets_so_far + 1 <= total_packets + 1
        /\ total_packets + 1 <= MaxPackets
        /\ missing_packets_so_far \in Nat
        /\ missing_packets_so_far <= total_packets_so_far
    BY <1>3 DEF CountPacket, Receiving, Inv, TypeOK, UInt32, CountersAgree,
                LossAtMostReceived
  <2>3. total_packets_so_far' = total_packets_so_far + 1
    BY <1>3, <2>2, CountersDoNotWrap DEF CountPacket, AccountPacket, Inv, TypeOK, UInt32
  <2>4. missing_packets_so_far' <= missing_packets_so_far + 1
    <3>1. missing_packets_so_far + (IF IsGap(id) THEN 1 ELSE 0) \in Nat
      BY <2>2
    <3>2. /\ missing_packets_so_far + (IF IsGap(id) THEN 1 ELSE 0)
                <= missing_packets_so_far + 1
          /\ missing_packets_so_far + (IF IsGap(id) THEN 1 ELSE 0) <= MaxPackets
      BY <2>2 DEF Inv, TypeOK, UInt32
    <3> QED BY <1>3, <3>1, <3>2, CountersDoNotWrap DEF CountPacket, AccountPacket
  <2>5. total_packets' = total_packets + 1 /\ UNCHANGED <<report, interval_max, status>>
    BY <1>3 DEF CountPacket
  <2>6. CountersAgree'
    BY <2>2, <2>3, <2>5 DEF CountersAgree, Inv, TypeOK, UInt32
  <2>7. LossAtMostReceived'
    BY <1>t, <2>2, <2>3, <2>4, <2>5 DEF LossAtMostReceived, Inv, TypeOK, UInt32
  <2>8. DivisionSafeAfterFirstPacket'
    BY <1>3, <2>5 DEF CountPacket, Receiving, DivisionSafeAfterFirstPacket
  <2> QED BY <1>t, <2>1, <2>6, <2>7, <2>8 DEF Inv
<1>4. ASSUME NEW id \in 0 .. MaxId, NEW len \in Lens, ReportInterval(id, len)
      PROVE  Inv'
  <2>1. LabelsBehindClock'
    <3>1. elapsed >= prevtime + Interval
      BY <1>4, DueIsSpaced DEF ReportInterval, Inv
    <3> QED BY <1>4, <3>1 DEF ReportInterval, ReportDue, Inv, TypeOK, LabelsBehindClock
  <2>2. total_packets_so_far' = 1
    <3>1. 0 + 1 = 1 /\ 1 \in Nat /\ 1 <= MaxPackets
      BY <1>4 DEF ReportInterval, Receiving, Inv, TypeOK
    <3> QED BY <1>4, <3>1, CountersDoNotWrap DEF ReportInterval, AccountPacket
  <2>3. missing_packets_so_far' <= 1
    <3>1. 0 + (IF IsGap(id) THEN 1 ELSE 0) \in Nat
      OBVIOUS
    <3>2. /\ 0 + (IF IsGap(id) THEN 1 ELSE 0) <= 1
          /\ 0 + (IF IsGap(id) THEN 1 ELSE 0) <= MaxPackets
      BY <1>4 DEF ReportInterval, Receiving, Inv, TypeOK
    <3> QED BY <1>4, <3>1, <3>2, CountersDoNotWrap DEF ReportInterval, AccountPacket
  <2>4. total_packets' = total_packets + 1 /\ UNCHANGED status
    BY <1>4 DEF ReportInterval
  <2>5. CountersAgree'
    BY <2>2, <2>4 DEF CountersAgree, Inv, TypeOK
  <2>6. report'.pct_loss_percentage <= 100
    <3>1. calculateLostPackets(missing_packets_so_far, total_packets_so_far) <= 100
      BY <1>4, LossPercentage DEF ReportInterval, Inv, TypeOK, UInt32, LossAtMostReceived
    <3> QED BY <1>4, <3>1 DEF ReportInterval
  <2>7. LossAtMostReceived'
    BY <2>2, <2>3, <2>6 DEF LossAtMostReceived
  <2>8. DivisionSafeAfterFirstPacket'
    BY <1>4, <2>4 DEF ReportInterval, Receiving, DivisionSafeAfterFirstPacket
  <2> QED BY <1>t, <2>1, <2>5, <2>7, <2>8 DEF Inv
<1>5. CASE UNCHANGED vars
  BY <1>t, <1>5 DEF vars, Inv, LabelsBehindClock, CountersAgree,
                    LossAtMostReceived, DivisionSafeAfterFirstPacket
<1> QED BY <1>1, <1>2, <1>3, <1>4, <1>5 DEF Next, Packet

LEMMA InvInit == Init => Inv
BY BoundAssumption, IntervalAssumption
   DEF Init, Inv, TypeOK, NoReport, UInt32, LabelsBehindClock, CountersAgree,
       LossAtMostReceived, DivisionSafeAfterFirstPacket

THEOREM Invariance == Spec => []Inv
BY InvInit, InvStep, PTL DEF Spec

\* The labels of the reports never run ahead of the clock.
THEOREM LabelsStayBehind == Spec => []LabelsBehindClock
<1>1. Inv => LabelsBehindClock
  BY DEF Inv
<1> QED BY <1>1, Invariance, PTL

\* The counters of an interval and of the whole stream agree, whatever resets a
\* report brings.
THEOREM CountersStayInStep == Spec => []CountersAgree
<1>1. Inv => CountersAgree
  BY DEF Inv
<1> QED BY <1>1, Invariance, PTL

\* No report claims a loss of more than 100%.
THEOREM LossIsAPercentage == Spec => []LossAtMostReceived
<1>1. Inv => LossAtMostReceived
  BY DEF Inv
<1> QED BY <1>1, Invariance, PTL

\* The division by zero can only happen at the first counted datagram.
THEOREM DivisionIsSafe == Spec => []DivisionSafeAfterFirstPacket
<1>1. Inv => DivisionSafeAfterFirstPacket
  BY DEF Inv
<1> QED BY <1>1, Invariance, PTL

\* Reports are at least an interval apart and their labels are adjacent.
THEOREM ReportsSpaced == Spec => ReportsAreSpaced
<1>1. ASSUME Inv, [Next]_vars
      PROVE  [prevtime' # prevtime =>
                /\ prevtime' >= prevtime + Interval
                /\ report'.sec_min = interval_max
                /\ report'.sec_max = report'.sec_min + Interval]_vars
  <2>1. SUFFICES ASSUME prevtime' # prevtime
                 PROVE  /\ prevtime' >= prevtime + Interval
                        /\ report'.sec_min = interval_max
                        /\ report'.sec_max = report'.sec_min + Interval
    OBVIOUS
  <2>2. PICK id \in 0 .. MaxId, len \in Lens : ReportInterval(id, len)
    BY <1>1, <2>1 DEF Next, Packet, Tick, DivideByZero, CountPacket, vars
  <2>3. elapsed >= prevtime + Interval
    BY <1>1, <2>2, DueIsSpaced DEF ReportInterval, Inv
  <2> QED BY <2>2, <2>3 DEF ReportInterval
<1> QED BY <1>1, Invariance, PTL DEF Spec, ReportsAreSpaced

(***************************************************************************)
(* Goodput against throughput, when every datagram has the same length     *)
(***************************************************************************)

\* P is the payload of a datagram.  The closing datagram makes the open
\* interval's goodput at most one payload larger than its throughput.
PayloadInv(P) ==
  /\ throughput <= total_packets * P
  /\ goodput <= total_packets * P
  /\ goodput <= throughput + P
  /\ report.goodput <= report.throughput

\* Nothing wraps: a byte counter is at most the bytes of all the datagrams.
LEMMA PayloadsFit ==
  ASSUME NEW P \in Nat, MaxPackets * P < Word, TypeOK, Receiving,
         NEW x \in Nat, x <= total_packets * P
  PROVE  /\ (x + P) % Word = x + P
         /\ x + P <= (total_packets + 1) * P
<1>1. (total_packets + 1) * P = total_packets * P + P
  BY BoundAssumption DEF TypeOK
<1>2. (total_packets + 1) * P <= MaxPackets * P
  BY BoundAssumption DEF TypeOK, Receiving
<1>3. /\ total_packets * P \in Nat /\ (total_packets + 1) * P \in Nat
      /\ MaxPackets * P \in Nat
  BY BoundAssumption DEF TypeOK
<1>4. x + P \in 0 .. (Word - 1)
  BY <1>1, <1>2, <1>3, BoundAssumption
<1>5. (x + P) % Word = x + P
  <2>1. Word \in Nat \ {0}
    BY BoundAssumption
  <2> QED BY <1>4, <2>1
<1> QED BY <1>1, <1>3, <1>5

\* If all datagrams have one length, which holds a header, and their payloads
\* together fit a machine word, no report shows more goodput than throughput.
THEOREM GoodputIsBounded ==
  ASSUME NEW L \in Nat, Lens = {L}, HeaderLen <= L,
         MaxPackets * (L - HeaderLen) < Word
  PROVE  Spec => []GoodputAtMostThroughput
<1> DEFINE P == L - HeaderLen
<1>p. P \in Nat
  BY LengthAssumption
<1>1. Init => TypeOK /\ PayloadInv(P)
  <2>1. 0 * P = 0
    BY <1>p
  <2> HIDE DEF P
  <2> QED BY <1>p, <2>1, BoundAssumption DEF Init, TypeOK, NoReport, UInt32, PayloadInv
<1>2. TypeOK /\ PayloadInv(P) /\ [Next]_vars => (TypeOK /\ PayloadInv(P))'
  <2> SUFFICES ASSUME TypeOK, PayloadInv(P), [Next]_vars
               PROVE  (TypeOK /\ PayloadInv(P))'
    OBVIOUS
  <2>t. TypeOK'
    BY TypeStep
  <2>1. CASE Tick \/ DivideByZero \/ UNCHANGED vars
    BY <2>t, <2>1 DEF Tick, DivideByZero, vars, PayloadInv
  <2>2. ASSUME NEW id \in 0 .. MaxId, CountPacket(id, L)
        PROVE  PayloadInv(P)'
    <3>1. /\ throughput \in Nat /\ goodput \in Nat /\ Receiving
          /\ throughput <= total_packets * P /\ goodput <= total_packets * P
          /\ total_packets \in Nat /\ HeaderLen \in Nat
      BY <2>2, LengthAssumption DEF CountPacket, PayloadInv, TypeOK, UInt32
    <3>2. throughput + L - HeaderLen = throughput + P /\ goodput + L - HeaderLen = goodput + P
      BY <3>1
    <3> HIDE DEF P
    <3>3. /\ throughput' = throughput + P
          /\ throughput + P <= (total_packets + 1) * P
      BY <1>p, <2>2, <3>1, <3>2, PayloadsFit DEF CountPacket, Received, P
    <3>4. goodput + P <= (total_packets + 1) * P
      BY <1>p, <3>1, PayloadsFit DEF P
    <3>5. goodput' = goodput \/ goodput' = goodput + P
      BY <1>p, <2>2, <3>1, <3>2, PayloadsFit DEF CountPacket, AccountPacket, P
    <3>6. total_packets' = total_packets + 1 /\ report' = report
      BY <2>2 DEF CountPacket
    <3>7. goodput <= throughput + P /\ report.goodput <= report.throughput
      BY DEF PayloadInv
    <3>8. (total_packets + 1) * P \in Nat
      BY <1>p, <3>1
    <3> QED BY <1>p, <3>1, <3>3, <3>4, <3>5, <3>6, <3>7, <3>8 DEF PayloadInv
  <2>3. ASSUME NEW id \in 0 .. MaxId, ReportInterval(id, L)
        PROVE  PayloadInv(P)'
    <3>1. /\ throughput \in Nat /\ goodput \in Nat /\ Receiving
          /\ throughput <= total_packets * P /\ goodput <= throughput + P
          /\ total_packets \in Nat /\ HeaderLen \in Nat
      BY <2>3, LengthAssumption DEF ReportInterval, PayloadInv, TypeOK, UInt32
    <3>2. throughput + L - HeaderLen = throughput + P /\ 0 + L - HeaderLen = 0 + P
      BY <3>1
    <3> HIDE DEF P
    <3>3. report'.throughput = throughput + P /\ report'.goodput = goodput
      BY <1>p, <2>3, <3>1, <3>2, PayloadsFit DEF ReportInterval, Received, P
    <3>4. /\ 0 <= total_packets * P /\ total_packets * P \in Nat
          /\ (total_packets + 1) * P \in Nat
      BY <1>p, <3>1
    <3>5. (0 + P) % Word = P /\ P <= (total_packets + 1) * P
      BY <1>p, <3>1, <3>4, PayloadsFit DEF P
    <3>6. goodput' = 0 \/ goodput' = P
      BY <2>3, <3>2, <3>5 DEF ReportInterval, AccountPacket
    <3>7. throughput' = 0 /\ total_packets' = total_packets + 1
      BY <2>3 DEF ReportInterval
    <3> QED BY <1>p, <3>1, <3>3, <3>4, <3>5, <3>6, <3>7 DEF PayloadInv
  <2> QED BY <2>t, <2>1, <2>2, <2>3 DEF Next, Packet
<1>3. PayloadInv(P) => GoodputAtMostThroughput
  BY DEF PayloadInv, GoodputAtMostThroughput
<1> QED BY <1>1, <1>2, <1>3, PTL DEF Spec

(***************************************************************************)
(* The loss on a network that keeps the order                              *)
(***************************************************************************)

\* An ordered network is a special case of the unordered one.
LEMMA FifoIsSpecialCase == NextFifo => Next
BY DEF NextFifo, Next

\* If every datagram holds a header and the network keeps the order, a gap is
\* only counted when at least one id is skipped: losses are not overstated.
THEOREM LossIsNotOverstated ==
  ASSUME \A len \in Lens : HeaderLen <= len
  PROVE  SpecFifo => []LossNotOverstated
<1>1. Init => TypeOK /\ LossNotOverstated
  BY BoundAssumption DEF Init, TypeOK, NoReport, UInt32, LossNotOverstated
<1>2. TypeOK /\ LossNotOverstated /\ [NextFifo]_vars => (TypeOK /\ LossNotOverstated)'
  <2> SUFFICES ASSUME TypeOK, LossNotOverstated, [NextFifo]_vars
               PROVE  (TypeOK /\ LossNotOverstated)'
    OBVIOUS
  <2>t. TypeOK'
    BY TypeStep, FifoIsSpecialCase
  <2>1. CASE Tick \/ DivideByZero \/ UNCHANGED vars
    BY <2>t, <2>1 DEF Tick, DivideByZero, vars, LossNotOverstated
  <2>2. ASSUME NEW id \in 1 .. MaxId, NEW len \in Lens, id > curr_id,
               NEW good, NEW gaps \in Nat, NEW packets,
               gaps <= missing_packets,
               AccountPacket(id, len, good, gaps, packets),
               total_packets' = total_packets + 1
        PROVE  LossNotOverstated'
    <3> DEFINE gap == IF IsGap(id) THEN 1 ELSE 0
    <3>1. /\ missing_packets' = missing_packets + gap
          /\ missing_packets_so_far' = (gaps + gap) % Word
          /\ curr_id' = id
      <4>1. ~IsShort(len)
        BY LengthAssumption DEF IsShort
      <4>2. missing_packets' = missing_packets + 0 + gap
        BY <2>2, <4>1 DEF AccountPacket
      <4>3. missing_packets \in Nat
        BY DEF TypeOK
      <4> QED BY <2>2, <4>2, <4>3 DEF AccountPacket
    <3>2. gap \in Nat /\ id >= curr_id + 1 + gap
      BY <2>2, BoundAssumption DEF IsGap, TypeOK
    <3> HIDE DEF gap
    <3>3. (gaps + gap) % Word <= gaps + gap /\ (gaps + gap) % Word \in Int
      <4>1. \A x \in Nat : x % Word \in Nat /\ x % Word <= x
        BY BoundAssumption, Remainder, Z3
      <4> QED BY <3>2, <4>1
    <3> QED BY <2>2, <3>1, <3>2, <3>3, BoundAssumption DEF LossNotOverstated, TypeOK
  <2>3. ASSUME NEW id \in 1 .. MaxId, NEW len \in Lens, id > curr_id,
               CountPacket(id, len)
        PROVE  LossNotOverstated'
    <3>1. missing_packets_so_far \in Nat /\ missing_packets_so_far <= missing_packets
      BY DEF TypeOK, UInt32, LossNotOverstated
    <3> QED BY <2>2, <2>3, <3>1 DEF CountPacket
  <2>4. ASSUME NEW id \in 1 .. MaxId, NEW len \in Lens, id > curr_id,
               ReportInterval(id, len)
        PROVE  LossNotOverstated'
    <3>1. 0 \in Nat /\ 0 <= missing_packets
      BY DEF TypeOK
    <3> QED BY <2>2, <2>4, <3>1 DEF ReportInterval
  <2> QED BY <2>t, <2>1, <2>3, <2>4 DEF NextFifo, Packet
<1> QED BY <1>1, <1>2, PTL DEF SpecFifo
=============================================================================
