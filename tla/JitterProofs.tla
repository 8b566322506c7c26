------------------------------ MODULE JitterProofs ------------------------------
(***************************************************************************)
(* Proofs about Jitter, for every word size, tick, initial array limit and *)
(* bound that the module's assumptions allow.  What the loops over the     *)
(* array compute is proved from the recursive function that Total is, by   *)
(* induction on the natural numbers.                                       *)
(***************************************************************************)
EXTENDS Jitter, TLAPS, WellFoundedInduction

(***************************************************************************)
(* The array                                                               *)
(***************************************************************************)

ArrayType == [sizeLimit : Nat, fillSize : Nat, allocated : Nat,
              jitters_arr : [0 .. MaxPackets -> Nat]]

\* Machine arithmetic stays in the natural numbers.
LEMMA WordsAreNatural ==
  /\ \A y \in Int : y % Word \in Nat
  /\ \A y \in Int : y % Word64 \in Nat
<1>1. Word \in Nat \ {0} /\ Word64 \in Nat \ {0}
  BY WordAssumption
<1>2. \A w \in Nat \ {0} : \A y \in Int : y % w \in 0 .. (w - 1)
  BY SMT
<1>3. \A w \in Nat \ {0} : 0 .. (w - 1) \subseteq Nat
  OBVIOUS
<1> QED BY <1>1, <1>2, <1>3, Zenon

\* The limit is the initial one or was doubled for datagrams that arrived, so
\* it cannot wrap; the block holds at least the limit, and the initial limit,
\* which clearJittersArray returns to.
ArrayInv ==
  /\ jitters \in ArrayType
  /\ packets \in 0 .. MaxPackets
  /\ jitters.fillSize <= packets
  /\ jitters.fillSize <= jitters.sizeLimit
  /\ SizeLimit <= jitters.sizeLimit
  /\ jitters.sizeLimit <= jitters.allocated
  /\ jitters.sizeLimit = SizeLimit \/ jitters.sizeLimit <= 2 * packets
  /\ write \in [index : Nat, size : Nat]
  /\ write.index < write.size

LEMMA UpdatedFields ==
  ASSUME NEW a \in ArrayType, NEW x \in Nat
  PROVE  LET b == updateJittersArray(a, x)
         IN /\ b.sizeLimit = IF Full(a) THEN Grown(a) ELSE a.sizeLimit
            /\ b.allocated = IF Full(a) THEN Grown(a) ELSE a.allocated
            /\ b.fillSize = a.fillSize + 1
            /\ b.jitters_arr = [a.jitters_arr EXCEPT ![a.fillSize] = x]
            /\ b \in ArrayType
<1>1. Grown(a) \in Nat
  <2>1. a.sizeLimit + a.sizeLimit \in Int
    BY DEF ArrayType
  <2> QED BY <2>1, WordsAreNatural DEF Grown
<1>2. a.jitters_arr \in [0 .. MaxPackets -> Nat]
  BY DEF ArrayType
<1>3. [a.jitters_arr EXCEPT ![a.fillSize] = x] \in [0 .. MaxPackets -> Nat]
  BY <1>2
<1> DEFINE e == [a.jitters_arr EXCEPT ![a.fillSize] = x]
           full == Full(a)
           grown == Grown(a)
<1>4. updateJittersArray(a, x) =
        [a EXCEPT !.sizeLimit = IF full THEN grown ELSE @,
                  !.allocated = IF full THEN grown ELSE @,
                  !.jitters_arr = e,
                  !.fillSize = @ + 1]
  BY DEF updateJittersArray, ArrayType
<1>5. e \in [0 .. MaxPackets -> Nat] /\ grown \in Nat
  BY <1>1, <1>3
<1> HIDE DEF e, full, grown
<1>6. updateJittersArray(a, x) =
        [sizeLimit |-> IF full THEN grown ELSE a.sizeLimit,
         fillSize |-> a.fillSize + 1,
         allocated |-> IF full THEN grown ELSE a.allocated,
         jitters_arr |-> e]
  BY <1>4 DEF ArrayType
<1> QED BY <1>5, <1>6 DEF ArrayType, e, full, grown

\* One more jitter in an array that obeys the invariant.
LEMMA UpdatedInv ==
  ASSUME ArrayInv, packets < MaxPackets, NEW x \in Nat
  PROVE  LET b == updateJittersArray(jitters, x)
         IN /\ b \in ArrayType
            /\ b.fillSize = jitters.fillSize + 1
            /\ b.fillSize <= b.sizeLimit
            /\ SizeLimit <= b.sizeLimit
            /\ b.sizeLimit <= b.allocated
            /\ b.sizeLimit = SizeLimit \/ b.sizeLimit <= 2 * (packets + 1)
<1> DEFINE b == updateJittersArray(jitters, x)
           s == jitters.sizeLimit
           f == jitters.fillSize
<1>1. /\ b.sizeLimit = IF Full(jitters) THEN Grown(jitters) ELSE s
      /\ b.allocated = IF Full(jitters) THEN Grown(jitters) ELSE jitters.allocated
      /\ b.fillSize = f + 1 /\ b \in ArrayType
  BY UpdatedFields DEF ArrayInv
<1>2. /\ s \in Nat /\ f \in Nat /\ packets \in Nat /\ MaxPackets \in Nat
      /\ jitters.allocated \in Nat /\ SizeLimit \in Nat \ {0} /\ Word \in Nat \ {0}
      /\ 2 * MaxPackets < Word
  BY SizeAssumption, WordAssumption DEF ArrayInv, ArrayType
<1>3. f <= packets /\ f <= s /\ SizeLimit <= s /\ s <= jitters.allocated
      /\ (s = SizeLimit \/ s <= 2 * packets)
  BY DEF ArrayInv
<1>4. Full(jitters) <=> s = f
  BY DEF Full
<1>5. Full(jitters) => Grown(jitters) = s + s
  <2>1. Full(jitters) => s + s \in 0 .. (Word - 1)
    BY <1>2, <1>3, <1>4
  <2>2. \A k \in 0 .. (Word - 1) : k % Word = k
    BY <1>2
  <2> QED BY <2>1, <2>2 DEF Grown
<1> HIDE DEF b, s, f
<1> QED BY <1>1, <1>2, <1>3, <1>4, <1>5 DEF b, f

LEMMA ArrayStep ==
  ASSUME ArrayInv, jitter' \in Nat, [Next]_vars
  PROVE  ArrayInv'
<1> DEFINE x == jitter' % Word
<1>x. x \in Nat
  BY WordsAreNatural
<1>u. Updated = updateJittersArray(jitters, x)
  BY DEF Updated
<1>w. /\ jitters.fillSize \in Nat /\ jitters.sizeLimit \in Nat /\ jitters.allocated \in Nat
      /\ packets \in Nat /\ SizeLimit \in Nat
  BY SizeAssumption DEF ArrayInv, ArrayType
<1> HIDE DEF x
<1>1. ASSUME NEW end, NEW stamp, Count(end, stamp)
      PROVE  ArrayInv'
  <2>1. /\ packets < MaxPackets /\ packets' = packets + 1
        /\ jitters' = Updated /\ write' = [index |-> jitters.fillSize, size |-> Updated.allocated]
    BY <1>1 DEF Count, Measure, Written
  <2>2. /\ Updated \in ArrayType /\ Updated.fillSize = jitters.fillSize + 1
        /\ Updated.fillSize <= Updated.sizeLimit /\ SizeLimit <= Updated.sizeLimit
        /\ Updated.sizeLimit <= Updated.allocated
        /\ Updated.sizeLimit = SizeLimit \/ Updated.sizeLimit <= 2 * (packets + 1)
    BY <1>x, <1>u, <2>1, UpdatedInv
  <2>3. Updated.sizeLimit \in Nat /\ Updated.allocated \in Nat /\ Updated.fillSize \in Nat
    BY <2>2 DEF ArrayType
  <2>4. packets' \in 0 .. MaxPackets /\ Updated.fillSize <= packets'
    BY <1>w, <2>1, <2>2, SizeAssumption DEF ArrayInv
  <2>5. jitters.fillSize < Updated.allocated
    BY <1>w, <2>2, <2>3
  <2>6. write' \in [index : Nat, size : Nat] /\ write'.index < write'.size
    BY <1>w, <2>1, <2>3, <2>5
  <2> QED BY <2>1, <2>2, <2>4, <2>6 DEF ArrayInv
<1>2. ASSUME NEW end, NEW stamp, Report(end, stamp)
      PROVE  ArrayInv'
  <2>1. /\ packets < MaxPackets /\ packets' = packets + 1
        /\ jitters' = clearJittersArray(Updated)
        /\ write' = [index |-> jitters.fillSize, size |-> Updated.allocated]
    BY <1>2 DEF Report, Measure, Written
  <2>2. /\ Updated \in ArrayType /\ Updated.fillSize = jitters.fillSize + 1
        /\ Updated.fillSize <= Updated.sizeLimit /\ SizeLimit <= Updated.sizeLimit
        /\ Updated.sizeLimit <= Updated.allocated
    BY <1>x, <1>u, <2>1, UpdatedInv
  <2>3. Updated.sizeLimit \in Nat /\ Updated.allocated \in Nat /\ Updated.fillSize \in Nat
    BY <2>2 DEF ArrayType
  <2>4. /\ jitters' \in ArrayType /\ jitters'.fillSize = 0
        /\ jitters'.sizeLimit = SizeLimit /\ jitters'.allocated = Updated.allocated
    BY <1>w, <2>1, <2>2 DEF clearJittersArray, ArrayType
  <2>5. packets' \in 0 .. MaxPackets /\ 0 <= packets'
    BY <1>w, <2>1, SizeAssumption DEF ArrayInv
  <2>6. jitters.fillSize < Updated.allocated /\ SizeLimit <= Updated.allocated
    BY <1>w, <2>2, <2>3
  <2>7. write' \in [index : Nat, size : Nat] /\ write'.index < write'.size
    BY <1>w, <2>1, <2>3, <2>6
  <2> QED BY <1>w, <2>4, <2>5, <2>6, <2>7 DEF ArrayInv
<1>3. ASSUME NEW end, NEW stamp, ReallocFails(end, stamp)
      PROVE  ArrayInv'
  <2>1. /\ packets < MaxPackets /\ packets' = packets + 1
        /\ jitters' = jitters /\ write' = write
    BY <1>3 DEF ReallocFails, Measure
  <2>2. packets' \in 0 .. MaxPackets /\ packets <= packets' /\ packets' \in Nat
    BY <1>w, <2>1, SizeAssumption DEF ArrayInv
  <2> QED BY <1>w, <2>1, <2>2 DEF ArrayInv
<1>4. CASE UNCHANGED vars
  BY <1>4 DEF vars, ArrayInv
<1> QED BY <1>1, <1>2, <1>3, <1>4 DEF Next

LEMMA ArrayInit == Init => ArrayInv
<1> SUFFICES ASSUME Init PROVE ArrayInv
  OBVIOUS
<1>1. [i \in 0 .. MaxPackets |-> 0] \in [0 .. MaxPackets -> Nat]
  OBVIOUS
<1>2. jitters \in ArrayType /\ jitters.fillSize = 0 /\ jitters.sizeLimit = SizeLimit
      /\ jitters.allocated = SizeLimit
  BY <1>1, SizeAssumption DEF Init, initJittersArray, ArrayType
<1> QED BY <1>2, SizeAssumption DEF Init, ArrayInv

(***************************************************************************)
(* The time stamps                                                         *)
(***************************************************************************)

Three == [1 .. 3 -> Nat]

\* t1, t2 and t3 are stamped in this order.
InOrder(ts) == (Unset(ts[1]) => Unset(ts[2])) /\ (Unset(ts[2]) => Unset(ts[3]))

\* Where the last stamp s3, the last two, the last three are kept when none of
\* them is on a whole second: at the end of t, or before stamps that are unset.
HoldsOne(ts, s3) ==
  \/ ts[1] = s3 /\ Unset(ts[2]) /\ Unset(ts[3])
  \/ ~Unset(ts[1]) /\ ts[2] = s3 /\ Unset(ts[3])
  \/ ts[3] = s3
HoldsTwo(ts, s2, s3) ==
  \/ ts[1] = s2 /\ ts[2] = s3 /\ Unset(ts[3])
  \/ ts[2] = s2 /\ ts[3] = s3

StampInv ==
  /\ t \in Three /\ stamps \in Three
  /\ jitter = calculateJitter(t)
  /\ stamps[3] <= MaxTime
  /\ InOrder(t)
  /\ ~Unset(stamps[3]) => HoldsOne(t, stamps[3])
  /\ ~Unset(stamps[2]) /\ ~Unset(stamps[3]) => HoldsTwo(t, stamps[2], stamps[3])
  /\ ~WholeSecond(stamps) => t = stamps

LEMMA ThreeElements ==
  /\ \A ts \in Three : ts[1] \in Nat /\ ts[2] \in Nat /\ ts[3] \in Nat
  /\ \A a, b, c \in Nat : <<a, b, c>> \in Three
  /\ \A ts, us \in Three :
       ts[1] = us[1] /\ ts[2] = us[2] /\ ts[3] = us[3] => ts = us
<1>1. 1 .. 3 = {1, 2, 3}
  OBVIOUS
<1> QED BY <1>1 DEF Three

\* What updateJitterTimes returns, stamp by stamp.
LEMMA UpdatedTimes ==
  ASSUME NEW ts \in Three, NEW stamp \in Nat, InOrder(ts)
  PROVE  LET us == updateJitterTimes(ts, stamp)
         IN /\ us \in Three
            /\ \/ Unset(ts[1]) /\ us[1] = stamp /\ us[2] = ts[2] /\ us[3] = ts[3]
               \/ /\ ~Unset(ts[1]) /\ Unset(ts[2])
                  /\ us[1] = ts[1] /\ us[2] = stamp /\ us[3] = ts[3]
               \/ /\ ~Unset(ts[2]) /\ Unset(ts[3])
                  /\ us[1] = ts[1] /\ us[2] = ts[2] /\ us[3] = stamp
               \/ ~Unset(ts[3]) /\ us[1] = ts[2] /\ us[2] = ts[3] /\ us[3] = stamp
<1> DEFINE us == updateJitterTimes(ts, stamp)
<1>1. (\A i \in 1 .. 3 : Unset(ts[i])) <=> Unset(ts[1]) /\ Unset(ts[2]) /\ Unset(ts[3])
  <2>1. 1 .. 3 = {1, 2, 3}
    OBVIOUS
  <2> QED BY <2>1
<1>2. ts[1] \in Nat /\ ts[2] \in Nat /\ ts[3] \in Nat
  BY ThreeElements
<1>3. CASE Unset(ts[1])
  <2>1. us = [ts EXCEPT ![1] = stamp]
    BY <1>1, <1>3 DEF InOrder, updateJitterTimes
  <2> QED BY <1>3, <2>1 DEF Three
<1>4. CASE ~Unset(ts[1]) /\ Unset(ts[2])
  <2>1. us = [ts EXCEPT ![2] = stamp]
    BY <1>1, <1>4 DEF InOrder, updateJitterTimes
  <2> QED BY <1>4, <2>1 DEF Three
<1>5. CASE ~Unset(ts[2]) /\ Unset(ts[3])
  <2>1. us = [ts EXCEPT ![3] = stamp]
    BY <1>1, <1>5 DEF InOrder, updateJitterTimes
  <2> QED BY <1>5, <2>1 DEF Three
<1>6. CASE ~Unset(ts[3])
  <2>1. us = <<ts[2], ts[3], stamp>>
    BY <1>1, <1>6 DEF InOrder, updateJitterTimes
  <2>2. us \in Three
    BY <1>2, <2>1, ThreeElements
  <2> QED BY <1>6, <2>1, <2>2
<1> QED BY <1>3, <1>4, <1>5, <1>6 DEF InOrder

LEMMA JitterType ==
  ASSUME NEW ts \in Three
  PROVE  calculateJitter(ts) \in Nat
<1>1. ts[1] - ts[2] \in Int /\ ts[2] - ts[3] \in Int
  BY ThreeElements
<1>2. /\ timespec_diff_highres(ts[1], ts[2]) \in Nat
      /\ timespec_diff_highres(ts[2], ts[3]) \in Nat
  BY <1>1, WordsAreNatural DEF timespec_diff_highres
<1> QED BY <1>2 DEF calculateJitter, Distance

\* A stamp that is not set cannot be one that is.
LEMMA StampStep ==
  ASSUME StampInv, NEW stamp \in Nat, stamp <= MaxTime,
         t' = updateJitterTimes(t, stamp),
         stamps' = <<stamps[2], stamps[3], stamp>>,
         jitter' = calculateJitter(t')
  PROVE  StampInv'
<1>1. /\ t' \in Three
      /\ \/ Unset(t[1]) /\ t'[1] = stamp /\ t'[2] = t[2] /\ t'[3] = t[3]
         \/ ~Unset(t[1]) /\ Unset(t[2]) /\ t'[1] = t[1] /\ t'[2] = stamp /\ t'[3] = t[3]
         \/ ~Unset(t[2]) /\ Unset(t[3]) /\ t'[1] = t[1] /\ t'[2] = t[2] /\ t'[3] = stamp
         \/ ~Unset(t[3]) /\ t'[1] = t[2] /\ t'[2] = t[3] /\ t'[3] = stamp
  BY UpdatedTimes DEF StampInv
<1>2. /\ stamps' \in Three /\ stamps'[1] = stamps[2]
      /\ stamps'[2] = stamps[3] /\ stamps'[3] = stamp
  BY ThreeElements DEF StampInv
<1>3. InOrder(t)
  BY DEF StampInv
<1>4. InOrder(t')
  BY <1>1, <1>3, Zenon DEF InOrder
<1>5. ~Unset(stamp) => HoldsOne(t', stamp)
  BY <1>1, <1>3, Zenon DEF InOrder, HoldsOne
<1>6. ~Unset(stamps[3]) /\ ~Unset(stamp) => HoldsTwo(t', stamps[3], stamp)
  <2>1. ~Unset(stamps[3]) => HoldsOne(t, stamps[3])
    BY DEF StampInv
  <2> QED BY <1>1, <1>3, <2>1, Zenon DEF InOrder, HoldsOne, HoldsTwo
<1>7. ~WholeSecond(stamps') => t' = stamps'
  <2>1. SUFFICES ASSUME ~WholeSecond(stamps')
                 PROVE  t' = stamps'
    OBVIOUS
  <2>2. ~Unset(stamps[2]) /\ ~Unset(stamps[3]) /\ ~Unset(stamp)
    <3>1. 1 \in 1 .. 3 /\ 2 \in 1 .. 3 /\ 3 \in 1 .. 3
      OBVIOUS
    <3> QED BY <1>2, <2>1, <3>1, Zenon DEF WholeSecond
  <2>3. HoldsTwo(t, stamps[2], stamps[3])
    BY <2>2 DEF StampInv
  <2>4. t'[1] = stamps[2] /\ t'[2] = stamps[3] /\ t'[3] = stamp
    BY <1>1, <1>3, <2>2, <2>3, Zenon DEF InOrder, HoldsTwo
  <2> QED BY <1>1, <1>2, <2>4, ThreeElements
<1> QED BY <1>1, <1>2, <1>4, <1>5, <1>6, <1>7 DEF StampInv

\* Three stamps that are set and rise: the wrapped differences have the right
\* distance.
LEMMA JitterOfThree ==
  ASSUME NEW ts \in Three, ts[1] < ts[2], ts[2] < ts[3], ts[3] <= MaxTime
  PROVE  calculateJitter(ts) = Distance(ts[3] - ts[2], ts[2] - ts[1])
<1>1. /\ ts[1] \in Nat /\ ts[2] \in Nat /\ ts[3] \in Nat
      /\ MaxTime \in Nat /\ Word64 \in Nat \ {0} /\ MaxTime < Word64
  BY ThreeElements, ClockAssumption, WordAssumption
<1>2. ASSUME NEW x \in Nat, NEW y \in Nat, x < y, y < Word64
      PROVE  (x - y) % Word64 = Word64 + x - y
  BY <1>1, <1>2, SMT
<1>3. /\ timespec_diff_highres(ts[1], ts[2]) = Word64 + ts[1] - ts[2]
      /\ timespec_diff_highres(ts[2], ts[3]) = Word64 + ts[2] - ts[3]
  BY <1>1, <1>2 DEF timespec_diff_highres
<1> QED BY <1>1, <1>3 DEF calculateJitter, Distance

\* A set of natural numbers has a least one.
LEMMA Least ==
  ASSUME NEW T \in SUBSET Nat, T # {}
  PROVE  \E m \in T : \A k \in T : m <= k
<1>1. IsWellFoundedOn(OpToRel(<, Nat), Nat)
  BY NatLessThanWellFounded
<1>2. PICK m \in T : \A k \in T : ~ (<<k, m>> \in OpToRel(<, Nat))
  BY <1>1, WFMin
<1>3. ASSUME NEW k \in T
      PROVE  m <= k
  <2>1. <<k, m>> \notin OpToRel(<, Nat)
    BY <1>2
  <2> QED BY <2>1 DEF OpToRel
<1> QED BY <1>3

\* So one that holds 0 and the successor of each of its elements holds them all.
LEMMA Induction ==
  ASSUME NEW T \in SUBSET Nat, 0 \in T, \A n \in T : n + 1 \in T
  PROVE  \A n \in Nat : n \in T
<1> SUFFICES ASSUME Nat \ T # {} PROVE FALSE
  OBVIOUS
<1>1. PICK m \in Nat \ T : \A k \in Nat \ T : m <= k
  BY Least
<1>2. m # 0 /\ m - 1 \in Nat /\ ~(m <= m - 1)
  OBVIOUS
<1>3. m - 1 \in T
  BY <1>1, <1>2
<1>4. (m - 1) + 1 = m
  OBVIOUS
<1> QED BY <1>1, <1>3, <1>4

\* g is the partial sums of the first n elements of f.
Sums(g, f, n) ==
  /\ \A i \in 0 .. n : g[i] \in Int
  /\ g[0] = 0
  /\ \A i \in 1 .. n : g[i] = g[i - 1] + f[i - 1]

LEMMA SumsExist ==
  ASSUME NEW N \in Nat, NEW f, \A i \in 0 .. (N - 1) : f[i] \in Int
  PROVE  \E g \in [0 .. N -> Int] : Sums(g, f, N)
<1> DEFINE T == {n \in Nat : n <= N => \E g \in [0 .. n -> Int] : Sums(g, f, n)}
<1>1. 0 \in T
  <2>1. [i \in 0 .. 0 |-> 0] \in [0 .. 0 -> Int] /\ Sums([i \in 0 .. 0 |-> 0], f, 0)
    BY DEF Sums
  <2> QED BY <2>1
<1>2. ASSUME NEW n \in T
      PROVE  n + 1 \in T
  <2> SUFFICES ASSUME n + 1 <= N
               PROVE  \E h \in [0 .. (n + 1) -> Int] : Sums(h, f, n + 1)
    OBVIOUS
  <2>1. PICK g \in [0 .. n -> Int] : Sums(g, f, n)
    BY <1>2
  <2> DEFINE h == [i \in 0 .. (n + 1) |-> IF i <= n THEN g[i] ELSE g[n] + f[n]]
  <2>2. n \in Nat /\ f[n] \in Int /\ g[n] \in Int
    BY <1>2, <2>1
  <2>3. h \in [0 .. (n + 1) -> Int]
    BY <2>1, <2>2
  <2>4. h[0] = 0 /\ \A i \in 0 .. (n + 1) : h[i] \in Int
    BY <2>1, <2>2, <2>3 DEF Sums
  <2>5. ASSUME NEW i \in 1 .. (n + 1)
        PROVE  h[i] = h[i - 1] + f[i - 1]
    <3>1. CASE i <= n
      BY <2>1, <2>2, <3>1 DEF Sums
    <3>2. CASE i = n + 1
      <4>1. i - 1 = n
        BY <2>2, <3>2
      <4> QED BY <2>2, <3>2, <4>1
    <3> QED BY <2>2, <3>1, <3>2
  <2> HIDE DEF h
  <2>6. Sums(h, f, n + 1)
    BY <2>4, <2>5 DEF Sums
  <2> QED BY <2>3, <2>6
<1>3. T \in SUBSET Nat
  OBVIOUS
<1> HIDE DEF T
<1>4. N \in T
  BY <1>1, <1>2, <1>3, Induction
<1> QED BY <1>4 DEF T

\* They depend on nothing else: the sums of functions that agree agree.
LEMMA SumsAgree ==
  ASSUME NEW n \in Nat, NEW m \in Nat, n <= m, NEW f, NEW h,
         \A i \in 0 .. (n - 1) : f[i] = h[i],
         NEW a, Sums(a, f, n), NEW b, Sums(b, h, m)
  PROVE  a[n] = b[n]
<1> DEFINE T == {i \in Nat : i <= n => a[i] = b[i]}
<1>1. 0 \in T
  BY DEF Sums
<1>2. ASSUME NEW i \in T
      PROVE  i + 1 \in T
  <2> SUFFICES ASSUME i + 1 <= n PROVE a[i + 1] = b[i + 1]
    OBVIOUS
  <2>1. i \in Nat /\ a[i] = b[i] /\ f[i] = h[i]
    OBVIOUS
  <2>2. i + 1 \in 1 .. n /\ i + 1 \in 1 .. m /\ (i + 1) - 1 = i
    BY <2>1
  <2>3. a[i + 1] = a[i] + f[i] /\ b[i + 1] = b[i] + h[i]
    BY <2>2 DEF Sums
  <2> QED BY <2>1, <2>3
<1>3. T \in SUBSET Nat
  OBVIOUS
<1> HIDE DEF T
<1>4. n \in T
  BY <1>1, <1>2, <1>3, Induction
<1> QED BY <1>4 DEF T

\* Total is the last of them.
LEMMA TotalIsSum ==
  ASSUME NEW n \in Nat, NEW f, \A i \in 0 .. (n - 1) : f[i] \in Int
  PROVE  \E g : Sums(g, f, n) /\ Total(f, n) = g[n]
<1> DEFINE Recurs(g) == g = [i \in 0 .. n |-> IF i = 0 THEN 0 ELSE g[i - 1] + f[i - 1]]
           sum == CHOOSE g : Recurs(g)
<1>1. Total(f, n) = sum[n]
  BY DEF Total
<1>2. PICK g \in [0 .. n -> Int] : Sums(g, f, n)
  BY SumsExist
<1>3. Recurs(g)
  <2>1. ASSUME NEW i \in 0 .. n
        PROVE  g[i] = IF i = 0 THEN 0 ELSE g[i - 1] + f[i - 1]
    BY <1>2 DEF Sums
  <2> QED BY <1>2, <2>1
<1>4. Recurs(sum)
  BY <1>3
<1> HIDE DEF sum
<1>5. \A i \in 0 .. n : sum[i] = IF i = 0 THEN 0 ELSE sum[i - 1] + f[i - 1]
  BY <1>4
<1> HIDE DEF Recurs
<1> DEFINE T == {i \in Nat : i <= n => sum[i] \in Int}
<1>6. 0 \in T
  BY <1>5
<1>7. ASSUME NEW i \in T
      PROVE  i + 1 \in T
  <2> SUFFICES ASSUME i + 1 <= n PROVE sum[i + 1] \in Int
    OBVIOUS
  <2>1. i \in Nat /\ sum[i] \in Int /\ f[i] \in Int
    OBVIOUS
  <2>2. i + 1 \in 0 .. n /\ i + 1 # 0 /\ (i + 1) - 1 = i
    BY <2>1
  <2>3. sum[i + 1] = sum[i] + f[i]
    BY <1>5, <2>2
  <2> QED BY <2>1, <2>3
<1>8. T \in SUBSET Nat
  OBVIOUS
<1> HIDE DEF T
<1>9. \A i \in 0 .. n : sum[i] \in Int
  <2>1. \A i \in Nat : i \in T
    BY <1>6, <1>7, <1>8, Induction
  <2> QED BY <2>1 DEF T
<1>10. Sums(sum, f, n)
  BY <1>5, <1>9 DEF Sums
<1> QED BY <1>1, <1>10

\* What the loops over the array compute: nothing for no element, and one element
\* more for one more; an element beyond the last one does not matter.
LEMMA TotalType ==
  ASSUME NEW n \in Nat, NEW f, \A i \in 0 .. (n - 1) : f[i] \in Int
  PROVE  Total(f, n) \in Int /\ (n = 0 => Total(f, n) = 0)
BY TotalIsSum DEF Sums

LEMMA TotalOfOneMore ==
  ASSUME NEW n \in Nat, NEW f, NEW h, \A i \in 0 .. (n - 1) : f[i] \in Int /\ h[i] = f[i],
         h[n] \in Int
  PROVE  Total(h, n + 1) = Total(f, n) + h[n]
<1>1. PICK a : Sums(a, f, n) /\ Total(f, n) = a[n]
  BY TotalIsSum
<1>2. \A i \in 0 .. n : h[i] \in Int
  OBVIOUS
<1>3. n + 1 \in Nat /\ (n + 1) - 1 = n /\ n <= n + 1 /\ n + 1 \in 1 .. (n + 1)
  OBVIOUS
<1>4. PICK b : Sums(b, h, n + 1) /\ Total(h, n + 1) = b[n + 1]
  BY <1>2, <1>3, TotalIsSum
<1>5. b[n + 1] = b[n] + h[n]
  BY <1>3, <1>4 DEF Sums
<1>6. a[n] = b[n]
  BY <1>1, <1>3, <1>4, SumsAgree
<1> QED BY <1>1, <1>4, <1>5, <1>6

(***************************************************************************)
(* The sum and the array                                                   *)
(***************************************************************************)

\* What has no remainder is a multiple.
LEMMA Multiples ==
  ASSUME NEW w \in Nat \ {0}, NEW x \in Int
  PROVE  x % w = 0 <=> \E k \in Int : x = w * k
<1>1. x = w * (x \div w) + (x % w) /\ x \div w \in Int /\ x % w \in 0 .. (w - 1)
  BY SMT
<1>2. ASSUME x % w = 0
      PROVE  \E k \in Int : x = w * k
  <2>1. x = w * (x \div w)
    BY <1>1, <1>2
  <2> QED BY <1>1, <2>1
<1>3. ASSUME NEW k \in Int, x = w * k
      PROVE  x % w = 0
  <2> DEFINE d == k - x \div w
  <2>1. d \in Int /\ w * d = x % w
    BY <1>1, <1>3
  <2>2. d >= 1 => w * d >= w
    BY <2>1, SMT
  <2>3. d <= -1 => w * d <= -w
    BY <2>1, SMT
  <2>4. d = 0
    <3> HIDE DEF d
    <3> QED BY <1>1, <2>1, <2>2, <2>3
  <2> QED BY <2>1, <2>4
<1> QED BY <1>2, <1>3

\* The counter counts the elements, and the sum differs from that of the elements
\* by whole words: what each element has lost when it was made 32 bits wide, and
\* what the sum has lost beyond 64.
SumInv ==
  /\ jitter_counter = jitters.fillSize
  /\ (jitter_sum - Total(jitters.jitters_arr, jitters.fillSize)) % Word = 0

LEMMA ElementsAreNatural ==
  ASSUME NEW a \in ArrayType, a.fillSize <= MaxPackets + 1
  PROVE  /\ a.fillSize \in Nat
         /\ \A i \in 0 .. (a.fillSize - 1) : a.jitters_arr[i] \in Int
         /\ Total(a.jitters_arr, a.fillSize) \in Int
<1>1. a.fillSize \in Nat /\ a.jitters_arr \in [0 .. MaxPackets -> Nat] /\ MaxPackets \in Nat
  BY SizeAssumption DEF ArrayType
<1>2. \A i \in 0 .. (a.fillSize - 1) : i \in 0 .. MaxPackets
  BY <1>1
<1>3. \A i \in 0 .. (a.fillSize - 1) : a.jitters_arr[i] \in Int
  BY <1>1, <1>2
<1> QED BY <1>1, <1>3, TotalType

\* One more datagram, in the sum and in the array.
LEMMA SumStaysCongruent ==
  ASSUME ArrayInv, SumInv, packets < MaxPackets, jitter_sum \in Nat, NEW j \in Nat
  PROVE  LET a == updateJittersArray(jitters, j % Word)
         IN (((jitter_sum + j) % Word64) - Total(a.jitters_arr, a.fillSize)) % Word = 0
<1> DEFINE f == jitters.jitters_arr
           n == jitters.fillSize
           h == [f EXCEPT ![n] = j % Word]
           T == Total(f, n)
<1>1. /\ jitters \in ArrayType /\ n \in Nat /\ n \in 0 .. MaxPackets
      /\ f \in [0 .. MaxPackets -> Nat] /\ n <= MaxPackets + 1
  <2>1. /\ jitters \in ArrayType /\ packets \in 0 .. MaxPackets
        /\ jitters.fillSize <= packets /\ MaxPackets \in Nat
    BY SizeAssumption DEF ArrayInv
  <2>2. n \in Nat /\ f \in [0 .. MaxPackets -> Nat]
    BY <2>1 DEF ArrayType
  <2>3. n <= packets
    BY <2>1
  <2> HIDE DEF n, f
  <2> QED BY <2>1, <2>2, <2>3
<1>2. j % Word \in Nat
  BY WordsAreNatural
<1>3. /\ updateJittersArray(jitters, j % Word).jitters_arr = h
      /\ updateJittersArray(jitters, j % Word).fillSize = n + 1
  BY <1>1, <1>2, UpdatedFields
<1>4. T \in Int /\ \A i \in 0 .. (n - 1) : f[i] \in Int
  BY <1>1, ElementsAreNatural
<1>5. h[n] = j % Word /\ h[n] \in Int /\ \A i \in 0 .. (n - 1) : h[i] = f[i]
  <2> DEFINE x == j % Word
  <2>1. x \in Nat
    BY <1>2
  <2>2. h = [f EXCEPT ![n] = x]
    OBVIOUS
  <2> HIDE DEF n, f, h, x
  <2>3. \A i \in 0 .. (n - 1) : i # n /\ i \in 0 .. MaxPackets
    BY <1>1, SizeAssumption
  <2>4. h[n] = x /\ \A i \in 0 .. (n - 1) : h[i] = f[i]
    BY <1>1, <2>2, <2>3
  <2>5. h[n] \in Int
    BY <2>1, <2>4
  <2> QED BY <2>4, <2>5 DEF x
<1>6. Total(h, n + 1) = T + (j % Word)
  <2> HIDE DEF f, n, h
  <2> QED BY <1>1, <1>4, <1>5, TotalOfOneMore
<1>7. Word \in Nat \ {0} /\ Word64 \in Nat \ {0} /\ Word64 % Word = 0
  BY WordAssumption
<1>8. (jitter_sum - T) % Word = 0
  BY DEF SumInv
<1> HIDE DEF T, f, n, h
<1> DEFINE s == jitter_sum + j
<1>9. s \in Int /\ jitter_sum - T \in Int
  BY <1>4
<1>10. PICK c \in Int : jitter_sum - T = Word * c
  BY <1>7, <1>8, <1>9, Multiples
<1>11. PICK m \in Int : Word64 = Word * m
  BY <1>7, Multiples
<1>12. \A w \in Nat \ {0} : \A x \in Int : \E k \in Int : x = w * k + (x % w)
  <2>1. \A w \in Nat \ {0} : \A x \in Int : x = w * (x \div w) + (x % w) /\ x \div w \in Int
    BY SMT
  <2> QED BY <2>1, Zenon
<1>13. PICK q \in Int, r \in Int :
         s = Word64 * q + (s % Word64) /\ j = Word * r + (j % Word)
  <2>1. j \in Int
    OBVIOUS
  <2> HIDE DEF s
  <2> QED BY <1>7, <1>9, <1>12, <2>1, Zenon
<1>14. (s % Word64) \in Int /\ j % Word \in Int
  BY <1>9, <1>2, WordsAreNatural
<1>15. (s % Word64) - (T + (j % Word)) = Word * (c - m * q + r)
  <2> DEFINE u == (s % Word64)
             v == j % Word
  <2>1. u \in Int /\ v \in Int
    BY <1>14
  <2>2. jitter_sum + j = (Word * m) * q + u
    BY <1>11, <1>13 DEF s
  <2>3. j = Word * r + v
    BY <1>13
  <2> HIDE DEF u, v
  <2>4. (Word * m) * q = Word * (m * q)
    BY <1>7, SMT
  <2>5. m * q \in Int
    OBVIOUS
  <2> DEFINE p == m * q
  <2>6. jitter_sum + j = Word * p + u /\ p \in Int
    BY <2>2, <2>4, <2>5
  <2> HIDE DEF p
  <2>7. u - (T + v) = Word * c - Word * p + Word * r
    BY <1>4, <1>7, <1>10, <2>1, <2>3, <2>6
  <2>8. Word * c - Word * p + Word * r = Word * (c - p + r)
    BY <1>7, <2>6, SMT
  <2> QED BY <2>7, <2>8 DEF u, v, p
<1>16. ((s % Word64) - (T + (j % Word))) % Word = 0
  <2> DEFINE k == c - m * q + r
  <2>1. k \in Int /\ (s % Word64) - (T + (j % Word)) \in Int
    BY <1>4, <1>14
  <2>2. (s % Word64) - (T + (j % Word)) = Word * k
    BY <1>15
  <2> HIDE DEF k, s
  <2> QED BY <1>7, <2>1, <2>2, Multiples
<1> QED BY <1>3, <1>6, <1>16 DEF s

LEMMA SumStep ==
  ASSUME ArrayInv, SumInv, jitter_sum \in Nat, jitter' \in Nat, [Next]_vars
  PROVE  SumInv'
<1>0. jitters.fillSize \in Nat /\ jitters \in ArrayType
  BY DEF ArrayInv, ArrayType
<1>1. ASSUME NEW end, NEW stamp, Count(end, stamp)
      PROVE  SumInv'
  <2>1. /\ packets < MaxPackets /\ jitter_counter' = jitter_counter + 1
        /\ jitters' = updateJittersArray(jitters, jitter' % Word)
        /\ jitter_sum' = (jitter_sum + jitter') % Word64
    BY <1>1 DEF Count, Measure, Updated
  <2>2. jitters'.fillSize = jitters.fillSize + 1
    <3>1. jitter' % Word \in Nat
      BY WordsAreNatural
    <3> QED BY <1>0, <2>1, <3>1, UpdatedFields
  <2>3. (jitter_sum' - Total(jitters'.jitters_arr, jitters'.fillSize)) % Word = 0
    BY <2>1, SumStaysCongruent
  <2> QED BY <2>1, <2>2, <2>3 DEF SumInv
<1>2. ASSUME NEW end, NEW stamp, Report(end, stamp)
      PROVE  SumInv'
  <2>1. jitters' = clearJittersArray(Updated) /\ jitter_sum' = 0 /\ jitter_counter' = 0
    BY <1>2 DEF Report
  <2>2. Updated \in ArrayType
    <3>1. jitter' % Word \in Nat
      BY WordsAreNatural
    <3> QED BY <1>0, <3>1, UpdatedFields DEF Updated
  <2>3. jitters'.fillSize = 0
    BY <2>1, <2>2 DEF clearJittersArray, ArrayType
  <2>4. Total(jitters'.jitters_arr, 0) = 0
    BY TotalType
  <2>5. (0 - 0) % Word = 0
    BY WordAssumption
  <2> QED BY <2>1, <2>3, <2>4, <2>5 DEF SumInv
<1>3. CASE UNCHANGED <<jitters, jitter_sum, jitter_counter>>
  BY <1>3 DEF SumInv
<1> QED BY <1>1, <1>2, <1>3 DEF Next, ReallocFails, vars

(***************************************************************************)
(* Results                                                                 *)
(***************************************************************************)

\* Seconds grow with the clock.
LEMMA SecondsGrow ==
  ASSUME NEW a \in Nat, NEW b \in Nat, a <= b
  PROVE  a \div Second \in Nat /\ a \div Second <= b \div Second
<1>1. Second \in Nat \ {0}
  BY ClockAssumption
<1> QED BY <1>1, SMT

RestType ==
  /\ status \in {"running", "sigsegv"}
  /\ now \in Nat /\ start \in Nat /\ prevtime \in Nat
  /\ start <= now \div Second
  /\ jitter_sum \in Nat /\ jitter_counter \in Nat

Inv == ArrayInv /\ StampInv /\ RestType

LEMMA InitInv == Init => Inv
<1> SUFFICES ASSUME Init PROVE Inv
  OBVIOUS
<1>1. ArrayInv
  BY ArrayInit
<1>2. /\ Second \in Nat \ {0} /\ MaxTime \in Nat /\ Word64 \in Nat \ {0}
      /\ now \in Nat
  BY ClockAssumption, WordAssumption DEF Init
<1>3. StampInv
  <2>1. t = <<0, 0, 0>> /\ stamps = <<0, 0, 0>> /\ jitter = 0
    BY DEF Init
  <2>2. <<0, 0, 0>> \in Three
    BY ThreeElements
  <2>3. Unset(0)
    BY <1>2 DEF Unset
  <2>4. calculateJitter(<<0, 0, 0>>) = 0
    <3>1. (0 - 0) % Word64 \in Nat
      BY WordsAreNatural
    <3> QED BY <3>1 DEF calculateJitter, timespec_diff_highres, Distance
  <2>5. WholeSecond(stamps) /\ Unset(stamps[2]) /\ Unset(stamps[3]) /\ InOrder(t)
    BY <2>1, <2>3 DEF WholeSecond, InOrder
  <2> QED BY <1>2, <2>1, <2>2, <2>4, <2>5 DEF StampInv
<1>4. RestType
  BY <1>2, SecondsGrow DEF Init, RestType
<1> QED BY <1>1, <1>3, <1>4 DEF Inv

LEMMA NextInv == Inv /\ [Next]_vars => Inv'
<1> SUFFICES ASSUME Inv, [Next]_vars PROVE Inv'
  OBVIOUS
<1>1. CASE UNCHANGED vars
  BY <1>1 DEF vars, Inv, ArrayInv, StampInv, RestType
<1>2. CASE Next
  <2>1. PICK gap \in Gaps, delay \in Gaps :
          \/ Count(now + gap, now + gap + delay)
          \/ Report(now + gap, now + gap + delay)
          \/ ReallocFails(now + gap, now + gap + delay)
    BY <1>2, Zenon DEF Next
  <2> DEFINE end == now + gap
             stamp == now + gap + delay
  <2>2. now \in Nat /\ start \in Nat /\ prevtime \in Nat /\ start <= now \div Second
    BY DEF Inv, RestType
  <2>3. gap \in Nat /\ delay \in Nat
    BY ClockAssumption
  <2>4. end \in Nat /\ stamp \in Nat /\ now <= end /\ end <= stamp
    BY <2>2, <2>3
  <2>5. /\ end \div Second \in Nat /\ start <= end \div Second
        /\ stamp \div Second \in Nat /\ start <= stamp \div Second
    BY <2>2, <2>4, SecondsGrow
  <2> HIDE DEF end, stamp
  <2>6. Measure(end, stamp)
    BY <2>1 DEF Count, Report, ReallocFails, end, stamp
  <2>7. StampInv'
    <3>1. StampInv
      BY DEF Inv
    <3> QED BY <2>4, <2>6, <3>1, StampStep DEF Measure
  <2>8. ArrayInv'
    <3>1. jitter' \in Nat
      BY <2>7, JitterType DEF StampInv
    <3> QED BY <3>1, ArrayStep DEF Inv
  <2>9. RestType'
    <3>1. jitter \in Nat /\ jitter' \in Nat
      BY <2>7, JitterType DEF Inv, StampInv
    <3>2. (jitter_sum + jitter') % Word64 \in Nat
      <4>1. jitter_sum + jitter' \in Int
        BY <3>1 DEF Inv, RestType
      <4> QED BY <4>1, WordsAreNatural
    <3>3. now' = stamp
      BY <2>6 DEF Measure
    <3>4. Elapsed(end) \in Nat
      BY <2>2, <2>5 DEF Elapsed
    <3>5. CASE Count(end, stamp)
      BY <2>4, <2>5, <3>2, <3>3, <3>5 DEF Count, Inv, RestType
    <3>6. CASE Report(end, stamp)
      BY <2>4, <2>5, <3>3, <3>4, <3>6 DEF Report, Inv, RestType
    <3>7. CASE ReallocFails(end, stamp)
      BY <2>4, <2>5, <3>3, <3>7 DEF ReallocFails, Inv, RestType
    <3> QED BY <2>1, <3>5, <3>6, <3>7 DEF end, stamp
  <2> QED BY <2>7, <2>8, <2>9 DEF Inv
<1> QED BY <1>1, <1>2

THEOREM Invariance == Spec => []Inv
<1> QED BY InitInv, NextInv, PTL DEF Spec

(***************************************************************************)
(* The array against the jitters measured since the last report            *)
(***************************************************************************)

\* The elements of the array are the jitters measured since the last report,
\* truncated to a uint32_t.
MeasuredInv ==
  /\ measured \in [fillSize : Nat, jitters_arr : [0 .. MaxPackets -> Nat]]
  /\ measured.fillSize = jitters.fillSize
  /\ \A i \in Used(jitters) : jitters.jitters_arr[i] = measured.jitters_arr[i] % Word

LEMMA UpdatedMeasured ==
  ASSUME ArrayInv, MeasuredInv, packets < MaxPackets, jitter' \in Nat
  PROVE  /\ Measured \in [fillSize : Nat, jitters_arr : [0 .. MaxPackets -> Nat]]
         /\ Measured.fillSize = Updated.fillSize
         /\ Updated \in ArrayType
         /\ Updated.fillSize \in 1 .. MaxPackets
         /\ \A i \in Used(Updated) : Updated.jitters_arr[i] = Measured.jitters_arr[i] % Word
<1> DEFINE n == jitters.fillSize
           f == jitters.jitters_arr
           g == measured.jitters_arr
           x == jitter' % Word
<1>1. /\ n \in Nat /\ f \in [0 .. MaxPackets -> Nat] /\ g \in [0 .. MaxPackets -> Nat]
      /\ jitters \in ArrayType /\ n <= packets /\ packets \in Nat /\ MaxPackets \in Nat
      /\ measured.fillSize = n
  <2>1. packets \in 0 .. MaxPackets /\ jitters \in ArrayType /\ n <= packets
    BY DEF ArrayInv
  <2>2. n \in Nat /\ f \in [0 .. MaxPackets -> Nat]
    BY <2>1 DEF ArrayType
  <2>3. g \in [0 .. MaxPackets -> Nat] /\ measured.fillSize = n
    BY DEF MeasuredInv
  <2> QED BY <2>1, <2>2, <2>3, SizeAssumption
<1>2. x \in Nat
  BY WordsAreNatural
<1>3. /\ Updated.fillSize = n + 1 /\ Updated \in ArrayType
      /\ Updated.jitters_arr = [f EXCEPT ![n] = x]
  BY <1>1, <1>2, UpdatedFields DEF Updated
<1>4. /\ Measured.fillSize = n + 1
      /\ Measured.jitters_arr = [g EXCEPT ![n] = jitter']
      /\ Measured \in [fillSize : Nat, jitters_arr : [0 .. MaxPackets -> Nat]]
  <2>1. measured \in [fillSize : Nat, jitters_arr : [0 .. MaxPackets -> Nat]]
    BY DEF MeasuredInv
  <2>2. [g EXCEPT ![n] = jitter'] \in [0 .. MaxPackets -> Nat]
    BY <1>1
  <2> QED BY <1>1, <2>1, <2>2 DEF Measured
<1>5. \A i \in 0 .. (n - 1) : f[i] = g[i] % Word
  BY DEF MeasuredInv, Used
<1>6. \A i \in 0 .. n : [f EXCEPT ![n] = x][i] = [g EXCEPT ![n] = jitter'][i] % Word
  <2>1. \A i \in 0 .. n : i \in 0 .. MaxPackets /\ (i = n \/ i \in 0 .. (n - 1))
    BY <1>1
  <2> TAKE i \in 0 .. n
  <2>2. CASE i = n
    BY <1>1, <2>1, <2>2
  <2>3. CASE i # n
    <3>1. f[i] = g[i] % Word
      BY <1>5, <2>1, <2>3
    <3> QED BY <1>1, <2>1, <2>3, <3>1, Zenon
  <2> QED BY <2>2, <2>3
<1>7. Used(Updated) = 0 .. n
  BY <1>1, <1>3 DEF Used
<1>8. n + 1 \in 1 .. MaxPackets
  BY <1>1
<1> QED BY <1>3, <1>4, <1>6, <1>7, <1>8, Zenon

LEMMA MeasuredInit == Init => MeasuredInv
<1> SUFFICES ASSUME Init PROVE MeasuredInv
  OBVIOUS
<1>1. jitters.fillSize = 0 /\ measured = NoneMeasured
  BY DEF Init, initJittersArray
<1> QED BY <1>1 DEF MeasuredInv, NoneMeasured, Used

LEMMA MeasuredStep ==
  ASSUME Inv, Inv', MeasuredInv, [Next]_vars
  PROVE  MeasuredInv'
<1>0. jitter' \in Nat
  BY JitterType DEF Inv, StampInv
<1>1. ASSUME NEW end, NEW stamp, Count(end, stamp)
      PROVE  MeasuredInv'
  <2>1. packets < MaxPackets /\ jitters' = Updated /\ measured' = Measured
    BY <1>1 DEF Count, Measure
  <2> QED BY <1>0, <2>1, UpdatedMeasured DEF MeasuredInv, Inv, Used
<1>2. ASSUME NEW end, NEW stamp, Report(end, stamp)
      PROVE  MeasuredInv'
  <2>1. packets < MaxPackets /\ measured' = NoneMeasured
        /\ jitters' = clearJittersArray(Updated)
    BY <1>2 DEF Report, Measure
  <2>2. Updated \in ArrayType
    BY <1>0, <2>1, UpdatedMeasured DEF Inv
  <2>3. jitters'.fillSize = 0
    BY <2>1, <2>2 DEF clearJittersArray, ArrayType
  <2> QED BY <2>1, <2>3 DEF MeasuredInv, NoneMeasured, Used
<1>3. CASE UNCHANGED <<jitters, measured>>
  BY <1>3 DEF MeasuredInv, Used
<1> QED BY <1>1, <1>2, <1>3 DEF Next, ReallocFails, vars

LEMMA MeasuredInvariance == Spec => [](Inv /\ MeasuredInv)
<1>1. Inv /\ MeasuredInv /\ [Next]_vars => Inv' /\ MeasuredInv'
  BY NextInv, MeasuredStep
<1> QED BY <1>1, InitInv, MeasuredInit, PTL DEF Spec

(***************************************************************************)
(* Theorems                                                                *)
(***************************************************************************)

\* Every variable keeps its type, whatever the jitters are.
THEOREM TypeCorrect == Spec => []TypeOK
<1>1. Inv /\ MeasuredInv => TypeOK
  <2> SUFFICES ASSUME Inv, MeasuredInv PROVE TypeOK
    OBVIOUS
  <2>1. jitter \in Nat
    BY JitterType DEF Inv, StampInv
  <2>2. jitters.sizeLimit \in Nat /\ jitters.fillSize \in Nat /\ jitters.allocated \in Nat
    BY DEF Inv, ArrayInv, ArrayType
  <2>3. packets \in 0 .. MaxPackets /\ jitters.fillSize <= packets
    BY DEF Inv, ArrayInv
  <2>4. jitters.fillSize \in 0 .. packets
    BY <2>2, <2>3, SizeAssumption
  <2>5. measured.fillSize \in 0 .. packets /\ measured.jitters_arr \in [0 .. MaxPackets -> Nat]
    BY <2>4 DEF MeasuredInv
  <2> QED BY <2>1, <2>2, <2>3, <2>4, <2>5 DEF Inv, StampInv, Three, RestType, TypeOK
<1> QED BY <1>1, MeasuredInvariance, PTL

\* The array is never written beyond its block, for every initial limit: a block
\* that realloc made smaller is still as large as the limit.
THEOREM WithinBounds == Spec => []WithinAllocation
<1>1. Inv => WithinAllocation
  BY DEF Inv, ArrayInv, WithinAllocation
<1> QED BY <1>1, Invariance, PTL

\* The jitter is that of the last three datagrams, for every word size and tick.
THEOREM JitterRight == Spec => []JitterOfLastThree
<1>1. Inv => JitterOfLastThree
  <2> SUFFICES ASSUME Inv, ~WholeSecond(stamps),
                      stamps[1] < stamps[2], stamps[2] < stamps[3]
               PROVE  jitter = Distance(stamps[3] - stamps[2], stamps[2] - stamps[1])
    BY DEF JitterOfLastThree
  <2>1. /\ t = stamps /\ stamps \in Three /\ stamps[3] <= MaxTime
        /\ jitter = calculateJitter(t)
    BY DEF Inv, StampInv
  <2> QED BY <2>1, JitterOfThree
<1> QED BY <1>1, Invariance, PTL

LEMMA InitSum == Init => SumInv
<1> SUFFICES ASSUME Init PROVE SumInv
  OBVIOUS
<1>1. jitter_counter = 0 /\ jitter_sum = 0 /\ jitters.fillSize = 0
  BY DEF Init, initJittersArray
<1>2. Total(jitters.jitters_arr, 0) = 0
  BY TotalType
<1>3. (0 - 0) % Word = 0
  BY WordAssumption
<1> QED BY <1>1, <1>2, <1>3 DEF SumInv

\* The average and the deviation of a report are about the same datagrams, for
\* every word size and every number of datagrams.
THEOREM SumMatches == Spec => []SameDatagrams
<1>1. Init => Inv /\ SumInv
  BY InitInv, InitSum
<1>2. Inv /\ SumInv /\ [Next]_vars => Inv' /\ SumInv'
  <2> SUFFICES ASSUME Inv, SumInv, [Next]_vars PROVE Inv' /\ SumInv'
    OBVIOUS
  <2>1. Inv'
    BY NextInv
  <2>2. jitter_sum \in Nat /\ jitter' \in Nat
    BY <2>1, JitterType DEF Inv, StampInv, RestType
  <2> QED BY <2>1, <2>2, SumStep DEF Inv
<1>3. SumInv => SameDatagrams
  BY DEF SumInv, SameDatagrams
<1> QED BY <1>1, <1>2, <1>3, PTL DEF Spec

(***************************************************************************)
(* The deviation                                                           *)
(***************************************************************************)

\* The whole root exists, is whole and grows with its argument.
LEMMA RootExists ==
  ASSUME NEW x \in Nat
  PROVE  /\ Isqrt(x) \in Nat
         /\ Isqrt(x) * Isqrt(x) <= x
         /\ (Isqrt(x) + 1) * (Isqrt(x) + 1) > x
<1> DEFINE above == {r \in Nat : (r + 1) * (r + 1) > x}
<1>1. x \in above
  BY SMT
<1>2. PICK m \in above : \A k \in above : m <= k
  BY <1>1, Least
<1>3. m \in Nat /\ m <= x /\ (m + 1) * (m + 1) > x
  BY <1>1, <1>2
<1>4. m * m <= x
  <2>1. CASE m = 0
    BY <2>1
  <2>2. CASE m # 0
    <3>1. m - 1 \in Nat /\ (m - 1) + 1 = m /\ ~(m <= m - 1)
      BY <1>3, <2>2
    <3>2. m - 1 \notin above
      BY <1>2, <3>1
    <3>3. ~(m * m > x)
      BY <3>1, <3>2
    <3>4. m * m \in Nat
      BY <1>3, SMT
    <3> QED BY <3>3, <3>4
  <2> QED BY <2>1, <2>2
<1>5. m \in 0 .. x
  BY <1>3
<1>6. \E r \in 0 .. x : r * r <= x /\ (r + 1) * (r + 1) > x
  BY <1>3, <1>4, <1>5
<1>7. Isqrt(x) \in 0 .. x /\ Isqrt(x) * Isqrt(x) <= x /\ (Isqrt(x) + 1) * (Isqrt(x) + 1) > x
  BY <1>6, Zenon DEF Isqrt
<1> QED BY <1>7

LEMMA RootGrows ==
  ASSUME NEW x \in Nat, NEW y \in Nat, x <= y
  PROVE  Isqrt(x) <= Isqrt(y)
<1> DEFINE p == Isqrt(x)
           q == Isqrt(y)
<1>1. p \in Nat /\ q \in Nat /\ p * p <= x /\ (q + 1) * (q + 1) > y
  BY RootExists
<1> HIDE DEF p, q
<1>2. p * p < (q + 1) * (q + 1)
  <2>1. p * p \in Nat /\ (q + 1) * (q + 1) \in Nat
    BY <1>1, SMT
  <2> QED BY <1>1, <2>1
<1>3. ASSUME p >= q + 1
      PROVE  p * p >= (q + 1) * (q + 1)
  BY <1>1, <1>3, SMT
<1>4. ~(p >= q + 1)
  <2>1. p * p \in Nat /\ (q + 1) * (q + 1) \in Nat
    BY <1>1, SMT
  <2> QED BY <1>2, <1>3, <2>1
<1> QED BY <1>1, <1>4 DEF p, q

\* The sum of natural numbers is one, and is no greater than that of numbers no
\* smaller; the sums of functions that agree agree.
LEMMA TotalGrows ==
  ASSUME NEW n \in Nat, NEW f, NEW h,
         \A i \in 0 .. (n - 1) : f[i] \in Nat /\ h[i] \in Nat /\ f[i] <= h[i]
  PROVE  Total(f, n) \in Nat /\ Total(h, n) \in Nat /\ Total(f, n) <= Total(h, n)
<1>1. PICK a : Sums(a, f, n) /\ Total(f, n) = a[n]
  BY TotalIsSum
<1>2. PICK b : Sums(b, h, n) /\ Total(h, n) = b[n]
  BY TotalIsSum
<1> DEFINE T == {i \in Nat : i <= n => a[i] \in Nat /\ b[i] \in Nat /\ a[i] <= b[i]}
<1>3. 0 \in T
  BY <1>1, <1>2 DEF Sums
<1>4. ASSUME NEW i \in T
      PROVE  i + 1 \in T
  <2> SUFFICES ASSUME i + 1 <= n
               PROVE  a[i + 1] \in Nat /\ b[i + 1] \in Nat /\ a[i + 1] <= b[i + 1]
    OBVIOUS
  <2>1. i \in Nat /\ a[i] \in Nat /\ b[i] \in Nat /\ a[i] <= b[i]
    OBVIOUS
  <2>2. i + 1 \in 1 .. n /\ (i + 1) - 1 = i /\ i \in 0 .. (n - 1)
    BY <2>1
  <2>3. a[i + 1] = a[i] + f[i] /\ b[i + 1] = b[i] + h[i]
    BY <1>1, <1>2, <2>2 DEF Sums
  <2>4. f[i] \in Nat /\ h[i] \in Nat /\ f[i] <= h[i]
    BY <2>2
  <2> QED BY <2>1, <2>3, <2>4
<1>5. T \in SUBSET Nat
  OBVIOUS
<1> HIDE DEF T
<1>6. n \in T
  BY <1>3, <1>4, <1>5, Induction
<1> QED BY <1>1, <1>2, <1>6 DEF T

LEMMA TotalAgrees ==
  ASSUME NEW n \in Nat, NEW f, NEW h, \A i \in 0 .. (n - 1) : f[i] \in Int /\ h[i] = f[i]
  PROVE  Total(f, n) = Total(h, n)
<1>1. PICK a : Sums(a, f, n) /\ Total(f, n) = a[n]
  BY TotalIsSum
<1>2. PICK b : Sums(b, h, n) /\ Total(h, n) = b[n]
  BY TotalIsSum
<1> QED BY <1>1, <1>2, SumsAgree

\* A square that wraps only becomes smaller.
LEMMA SquareShrinks ==
  ASSUME NEW d \in Int
  PROVE  /\ Square32(d) \in Nat /\ TrueSquare(d) \in Nat
         /\ Square32(d) <= TrueSquare(d)
         /\ TrueSquare(d) < Word => Square32(d) = TrueSquare(d)
<1>1. d * d \in Nat
  BY SMT
<1>2. \A w \in Nat \ {0} : \A y \in Nat : /\ y % w \in Nat /\ y % w <= y
                                          /\ y < w => y % w = y
  BY SMT
<1> QED BY <1>1, <1>2, WordAssumption DEF Square32, TrueSquare

LEMMA DeviationShrinks ==
  ASSUME NEW a \in ArrayType, a.fillSize \in 1 .. MaxPackets,
         NEW b, b.fillSize = a.fillSize,
         \A i \in Used(a) : b.jitters_arr[i] = a.jitters_arr[i]
  PROVE  /\ getJitterStandardDeviation(a) <= TrueDeviation(b)
         /\ SquaresFit(b) => getJitterStandardDeviation(a) = TrueDeviation(b)
<1> DEFINE n == a.fillSize
           f == a.jitters_arr
           m == Mean(a)
           F == [i \in 0 .. (n - 1) |-> Square32(f[i] - m)]
           G == [i \in 0 .. (n - 1) |-> TrueSquare(f[i] - m)]
<1>1. /\ n \in Nat \ {0} /\ Total(f, n) \in Int
      /\ \A i \in 0 .. (n - 1) : f[i] \in Int /\ b.jitters_arr[i] = f[i]
  <2>1. MaxPackets \in Nat /\ n \in Nat \ {0} /\ n <= MaxPackets + 1
    BY SizeAssumption
  <2> QED BY <2>1, ElementsAreNatural DEF Used
<1>2. m \in Int
  <2>1. \A k \in Nat \ {0} : \A x \in Int : x \div k \in Int
    BY SMT
  <2> QED BY <1>1, <2>1 DEF Mean
<1>3. Mean(b) = m
  BY <1>1, TotalAgrees DEF Mean
<1>4. Used(a) = 0 .. (n - 1) /\ Used(b) = 0 .. (n - 1)
  BY DEF Used
<1>5. \A i \in 0 .. (n - 1) : b.jitters_arr[i] - Mean(b) = f[i] - m
  BY <1>1, <1>3
<1>6. /\ MeanSquare(a, Square32) = Total(F, n) \div n
      /\ MeanSquare(b, TrueSquare) = Total(G, n) \div n
  <2>1. [i \in Used(b) |-> TrueSquare(b.jitters_arr[i] - Mean(b))] = G
    <3> HIDE DEF n, f, m
    <3> QED BY <1>4, <1>5
  <2> QED BY <1>4, <2>1 DEF MeanSquare
<1>7. \A i \in 0 .. (n - 1) : f[i] - m \in Int
  <2> HIDE DEF n, f, m
  <2> QED BY <1>1, <1>2
<1> HIDE DEF n, f, m
<1>8. \A i \in 0 .. (n - 1) : F[i] \in Nat /\ G[i] \in Nat /\ F[i] <= G[i]
  BY <1>7, SquareShrinks
<1>9. ASSUME SquaresFit(b)
      PROVE  F = G
  <2>1. \A i \in 0 .. (n - 1) : TrueSquare(f[i] - m) < Word
    BY <1>4, <1>5, <1>9 DEF SquaresFit
  <2>2. \A i \in 0 .. (n - 1) : Square32(f[i] - m) = TrueSquare(f[i] - m)
    BY <1>7, <2>1, SquareShrinks
  <2> QED BY <2>2, Zenon
<1> HIDE DEF F, G
<1>10. Total(F, n) \in Nat /\ Total(G, n) \in Nat /\ Total(F, n) <= Total(G, n)
  BY <1>1, <1>8, TotalGrows
<1>11. /\ Total(F, n) \div n \in Nat /\ Total(G, n) \div n \in Nat
       /\ Total(F, n) \div n <= Total(G, n) \div n
  <2>1. \A k \in Nat \ {0} : \A x, y \in Nat :
           x <= y => x \div k \in Nat /\ y \div k \in Nat /\ x \div k <= y \div k
    BY SMT
  <2> QED BY <1>1, <1>10, <2>1
<1>12. Isqrt(Total(F, n) \div n) <= Isqrt(Total(G, n) \div n)
  BY <1>11, RootGrows
<1> QED BY <1>6, <1>9, <1>12 DEF getJitterStandardDeviation, TrueDeviation

\* The reported deviation never exceeds that of the jitters measured since the last
\* report, whichever squares wrap, and is that deviation when none does: for every
\* word size, initial limit and number of datagrams.
THEOREM DeviationRight == Spec => DeviationNeverOverstated
<1> DEFINE Bounded ==
             /\ report'.deviation <= TrueDeviation(Measured)
             /\ SquaresFit(Measured) => report'.deviation = TrueDeviation(Measured)
<1>1. Inv /\ Inv' /\ MeasuredInv /\ [Next]_vars =>
        [prevtime' # prevtime /\ Narrow(Measured) => Bounded]_vars
  <2> SUFFICES ASSUME Inv, Inv', MeasuredInv, [Next]_vars, prevtime' # prevtime,
                      Narrow(Measured)
               PROVE  Bounded
    OBVIOUS
  <2>1. PICK end, stamp : Report(end, stamp)
    <3>1. Next
      BY DEF vars
    <3> QED BY <3>1 DEF Next, Count, ReallocFails
  <2>2. report'.deviation = getJitterStandardDeviation(Updated)
    BY <2>1 DEF Report
  <2>3. jitter' \in Nat /\ packets < MaxPackets
    BY <2>1, JitterType DEF Inv, StampInv, Report, Measure
  <2>4. /\ Measured \in [fillSize : Nat, jitters_arr : [0 .. MaxPackets -> Nat]]
        /\ Measured.fillSize = Updated.fillSize
        /\ Updated \in ArrayType
        /\ Updated.fillSize \in 1 .. MaxPackets
        /\ \A i \in Used(Updated) : Updated.jitters_arr[i] = Measured.jitters_arr[i] % Word
    BY <2>3, UpdatedMeasured DEF Inv
  <2>5. \A i \in Used(Updated) : Measured.jitters_arr[i] = Updated.jitters_arr[i]
    <3>1. \A y \in Nat : y < Word => y % Word = y
      BY WordAssumption
    <3>2. \A i \in Used(Updated) : Measured.jitters_arr[i] \in Nat
      BY <2>4, SizeAssumption DEF Used
    <3>3. \A i \in Used(Updated) : Measured.jitters_arr[i] < Word
      BY <2>4 DEF Narrow, Used
    <3> QED BY <2>4, <3>1, <3>2, <3>3
  <2> HIDE DEF Bounded
  <2>6. /\ getJitterStandardDeviation(Updated) <= TrueDeviation(Measured)
        /\ SquaresFit(Measured) =>
             getJitterStandardDeviation(Updated) = TrueDeviation(Measured)
    BY <2>4, <2>5, DeviationShrinks
  <2> QED BY <2>2, <2>6 DEF Bounded
<1> QED BY <1>1, MeasuredInvariance, PTL DEF Spec, DeviationNeverOverstated
=============================================================================
