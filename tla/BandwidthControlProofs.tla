------------------------ MODULE BandwidthControlProofs ------------------------
(***************************************************************************)
(* Proofs about BandwidthControl, for every tick, word size, payload and   *)
(* bandwidth, and for any work between two readings of the clock.          *)
(***************************************************************************)
EXTENDS BandwidthControl, TLAPS

\* A product of positive numbers is positive, and grows with a factor.
LEMMA Products ==
  /\ \A a, b \in Nat \ {0} : a * b \in Nat \ {0}
  /\ \A a, b, c \in Nat : a <= b => c * a <= c * b
BY SMT

\* If p divided by d is at least b, then d is at most p divided by b.
LEMMA Swap ==
  ASSUME NEW p \in Nat, NEW d \in Nat \ {0}, NEW b \in Nat \ {0}, b <= p \div d
  PROVE  d <= p \div b
<1> DEFINE q == p \div d
           t == p \div b
<1>1. q \in Nat /\ t \in Nat
  BY SMT
<1>2. d * q <= p
  BY SMT
<1>3. p < b * (t + 1)
  BY SMT
<1>4. d * b <= d * q
  BY <1>1, Products
<1>5. d * b \in Nat /\ d * q \in Nat /\ b * (t + 1) \in Nat /\ d * b = b * d
  BY <1>1, SMT
<1>6. b * d < b * (t + 1)
  BY <1>2, <1>3, <1>4, <1>5
<1>7. CASE t + 1 <= d
  <2>1. b * (t + 1) <= b * d
    BY <1>1, <1>7, Products
  <2> QED BY <1>5, <1>6, <2>1
<1>8. CASE d <= t
  BY <1>8
<1> QED BY <1>1, <1>7, <1>8

\* The word lemmas, in the form used below.
LEMMA Words ==
  /\ \A y \in Int : y % Word \in Nat /\ y % Word < Word
  /\ \A y \in Nat : y % Word <= y
<1>1. Word \in Nat \ {0}
  BY WordAssumption
<1>2. \A w \in Nat \ {0} : \A y \in Int : y % w \in 0 .. (w - 1)
  BY SMT
<1>3. \A w \in Nat \ {0} : \A y \in 0 .. (w - 1) : y \in Nat /\ y < w
  OBVIOUS
<1>4. \A w \in Nat \ {0} : \A y \in Nat : y % w <= y
  BY SMT
<1> QED BY <1>1, <1>2, <1>3, <1>4, Zenon

\* A measured rate of at least the bandwidth means a pause of at most the time
\* a datagram takes.
LEMMA FastMeansClose ==
  ASSUME NEW d \in Nat \ {0}, NEW r \in calculateThroughput(d), Bandwidth <= r
  PROVE  d <= Time
<1> DEFINE p == Bits * Second
           q == p \div d
<1>1. /\ Bandwidth \in Nat \ {0} /\ p \in Nat \ {0}
  BY PacingAssumption, Products
<1>2. q \in Nat
  BY <1>1, SMT
<1>3. p % d = 0 => q # 0
  BY <1>1, SMT
<1>4. PICK y \in {q} \cup (IF p % d = 0 THEN {q - 1} ELSE {}) : r = y % Word
  BY Zenon DEF calculateThroughput
<1>5. y \in Nat /\ y <= q
  BY <1>2, <1>3, <1>4
<1>6. r \in Nat /\ r <= y
  BY <1>4, <1>5, Words
<1>7. Bandwidth <= q
  BY <1>1, <1>2, <1>5, <1>6
<1>8. p \in Nat
  BY <1>1
<1> HIDE DEF p
<1>9. d <= p \div Bandwidth
  BY <1>1, <1>7, <1>8, Swap
<1> QED BY <1>9 DEF p, Time

Paced ==
  Longest < Second =>
    /\ sleeptime <= Longest
    /\ slept = sleeptime \/ sleeptime <= Time

Inv == TypeOK /\ Paced

LEMMA TimeType == Time \in Nat /\ Increment \in Nat /\ Second \in Nat /\ Word \in Nat
<1>1. Bits * Second \in Nat
  BY PacingAssumption, Products
<1>2. \A p \in Nat : \A b \in Nat \ {0} : p \div b \in Nat
  BY SMT
<1> QED BY <1>1, <1>2, PacingAssumption, WordAssumption DEF Time

LEMMA InvInit == Init => Inv
<1>1. 0 <= (6 * Time) \div 5 /\ (6 * Time) \div 5 \in Nat
  BY TimeType, SMT
<1> QED BY <1>1, TimeType, PacingAssumption, WordAssumption
        DEF Init, Inv, TypeOK, Paced, Longest

LEMMA SendStep ==
  ASSUME Inv, NEW elapsed \in Nat \ {0}, Send(elapsed)
  PROVE  Inv'
<1> DEFINE d == Diff(elapsed)
<1>1. /\ sleeptime \in Nat /\ slept \in Nat /\ sleeptime < Word /\ slept < Second
  BY DEF Inv, TypeOK
<1>2. d \in Nat \ {0} /\ slept < d
  BY <1>1 DEF Diff
<1>3. rate' \in calculateThroughput(d)
  BY DEF Send
<1>4. rate' \in Nat
  <2>1. \A p, k \in Nat : k # 0 => p \div k \in Int /\ (p \div k) - 1 \in Int
    BY SMT
  <2>2. Bits * Second \in Nat
    BY PacingAssumption, Products
  <2> QED BY <1>2, <1>3, <2>1, <2>2, Words DEF calculateThroughput
<1>5. Bandwidth <= rate' => d <= Time
  BY <1>2, <1>3, FastMeansClose
<1>6. first' = FALSE
  BY DEF Send
<1> HIDE DEF d
<1>7. CASE rate' > Bandwidth /\ sleeptime' = Raised(sleeptime) /\ slept' = Pause(sleeptime')
  <2> DEFINE x == Increment + (6 * sleeptime) \div 5
  <2>1. x \in Nat
    BY <1>1, TimeType, SMT
  <2>2. sleeptime' = x % Word
    BY <1>7 DEF Raised
  <2>3. sleeptime' \in Nat /\ sleeptime' < Word /\ sleeptime' <= x
    BY <2>1, <2>2, Words
  <2>4. slept' \in Nat /\ slept' < Second
    BY <1>7, <2>3, TimeType, PacingAssumption DEF Pause
  <2>5. d <= Time
    BY <1>4, <1>5, <1>7, PacingAssumption
  <2>6. ASSUME Longest < Second
        PROVE  sleeptime' <= Longest /\ slept' = sleeptime'
    <3>1. sleeptime <= Time
      BY <1>1, <1>2, <2>5, <2>6, TimeType DEF Inv, Paced
    <3>2. (6 * sleeptime) \div 5 <= (6 * Time) \div 5
      BY <1>1, <3>1, TimeType, SMT
    <3>3. (6 * sleeptime) \div 5 \in Nat /\ (6 * Time) \div 5 \in Nat
      BY <1>1, TimeType, SMT
    <3>4. x <= Longest /\ Longest \in Nat
      BY <3>2, <3>3, TimeType DEF Longest
    <3> QED BY <1>7, <2>1, <2>3, <2>6, <3>4, TimeType DEF Pause
  <2> QED BY <1>4, <1>6, <2>3, <2>4, <2>6 DEF Inv, TypeOK, Paced
<1>8. CASE rate' < Bandwidth /\ sleeptime' = Lowered(sleeptime) /\ slept' = Pause(sleeptime')
  <2>1. sleeptime' \in Nat /\ sleeptime' <= sleeptime
    <3>1. (4 * sleeptime) \div 5 \in Nat /\ (4 * sleeptime) \div 5 <= sleeptime
      BY <1>1, SMT
    <3> QED BY <1>8, <3>1 DEF Lowered
  <2>2. sleeptime' < Word
    BY <1>1, <2>1, TimeType
  <2>3. slept' \in Nat /\ slept' < Second
    BY <1>8, <2>1, TimeType, PacingAssumption DEF Pause
  <2>4. ASSUME Longest < Second
        PROVE  sleeptime' <= Longest /\ slept' = sleeptime'
    <3>1. Longest \in Nat
      <4>1. (6 * Time) \div 5 \in Nat
        BY TimeType, SMT
      <4> QED BY <4>1, TimeType DEF Longest
    <3>2. sleeptime <= Longest
      BY <2>4 DEF Inv, Paced
    <3> QED BY <1>1, <1>8, <2>1, <2>4, <3>1, <3>2, TimeType DEF Pause
  <2> QED BY <1>4, <1>6, <2>1, <2>2, <2>3, <2>4 DEF Inv, TypeOK, Paced
<1>9. CASE rate' = Bandwidth /\ slept' = 0 /\ sleeptime' = sleeptime
  <2>1. d <= Time
    BY <1>4, <1>5, <1>9, PacingAssumption
  <2>2. ASSUME Longest < Second
        PROVE  sleeptime <= Longest /\ sleeptime <= Time
    BY <1>1, <1>2, <2>1, <2>2, TimeType DEF Inv, Paced
  <2>3. 0 < Second /\ slept' \in Nat /\ slept' < Second
    BY <1>9, PacingAssumption
  <2>4. TypeOK'
    BY <1>1, <1>4, <1>6, <1>9, <2>3 DEF TypeOK
  <2>5. Paced'
    BY <1>9, <2>2 DEF Paced
  <2> QED BY <2>4, <2>5 DEF Inv
<1> QED BY <1>7, <1>8, <1>9 DEF Send

LEMMA InvStep == Inv /\ [Next]_vars => Inv'
<1> SUFFICES ASSUME Inv, [Next]_vars PROVE Inv'
  OBVIOUS
<1>1. CASE UNCHANGED vars
  BY <1>1 DEF vars, Inv, TypeOK, Paced
<1>2. ASSUME NEW elapsed \in Works \cup Uptimes, Send(elapsed)
      PROVE  Inv'
  <2>1. elapsed \in Nat \ {0}
    BY PacingAssumption
  <2> QED BY <1>2, <2>1, SendStep, Zenon
<1> QED BY <1>1, <1>2 DEF Next

THEOREM Invariance == Spec => []Inv
BY InvInit, InvStep, PTL DEF Spec

\* Nothing leaves its type: sleeptime stays a word, and no call sleeps a second.
THEOREM TypeCorrect == Spec => []TypeOK
<1>1. Inv => TypeOK
  BY DEF Inv
<1> QED BY <1>1, Invariance, PTL

\* For every payload and bandwidth whose datagram time, and one step above it,
\* is less than a second, the pause is bounded by that step: nanosleep is never
\* asked for more than it takes.
THEOREM PauseBounded == Spec => []SleepBounded
<1>1. Inv => SleepBounded
  BY DEF Inv, Paced, SleepBounded
<1> QED BY <1>1, Invariance, PTL
=============================================================================
