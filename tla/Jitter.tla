-------------------------------- MODULE Jitter --------------------------------
(***************************************************************************)
(* The jitter of the mini_iperf server: the time stamps of the last three  *)
(* datagrams, the jitters computed from them, the array they are kept in   *)
(* for an interval, and the average and standard deviation a report takes. *)
(* It is the part of the receive loop that StreamStats leaves out.         *)
(*                                                                         *)
(* A struct timespec is the number of clock ticks since boot, Second ticks *)
(* in a second: tv_nsec is t % Second, tv_sec is t \div Second, and a      *)
(* structure cleared by memset is 0.                                       *)
(***************************************************************************)
EXTENDS Integers

CONSTANTS
  Second,      \* ticks in a second
  Interval,    \* exp_options->interval_duration
  Word,        \* uint32_t arithmetic is modulo Word
  Word64,      \* uint64_t arithmetic is modulo Word64
  SizeLimit,   \* the initial sizeLimit of the array, 100000
  Starts,      \* the uptimes at which the first datagram may be discarded
  Gaps,        \* the times that may pass between two readings of the clock
  MaxTime,     \* bound: the clock stops here
  MaxPackets   \* bound: datagrams in one behaviour

ASSUME ClockAssumption ==
  /\ Second \in Nat \ {0} /\ Interval \in Nat \ {0} /\ MaxTime \in Nat
  /\ Starts \subseteq 1 .. MaxTime /\ Gaps \subseteq Nat
\* Neither the clock nor the array's counters reach the word size.
ASSUME WordAssumption ==
  /\ Word \in Nat \ {0} /\ Word64 \in Nat \ {0} /\ Word64 % Word = 0
  /\ MaxTime < Word64
ASSUME SizeAssumption ==
  /\ SizeLimit \in Nat \ {0} /\ MaxPackets \in Nat
  /\ SizeLimit < Word /\ 2 * MaxPackets < Word

VARIABLES
  status,          \* "running" or "sigsegv"
  now,             \* the monotonic clock
  start, prevtime, \* in seconds: when the first datagram came; the last report
  t,               \* <<t1, t2, t3>>
  jitter,          \* the jitter of the last datagram
  jitters,         \* the jitter_deviation_t, and what is allocated for it
  jitter_sum, jitter_counter,
  report,          \* stats.jitter and stats.jitter_standard_deviation
  packets,         \* bound counter
  stamps,          \* history: when the last three datagrams were stamped, oldest first
  write,           \* history: the last element written and the elements allocated then
  measured         \* history: the jitters since the last report, none of them truncated

vars == <<status, now, start, prevtime, t, jitter, jitters, jitter_sum,
          jitter_counter, report, packets, stamps, write, measured>>

-----------------------------------------------------------------------------
(* Time stamps *)

Unset(time) == time % Second = 0        \* tv_nsec == 0

\* Mutant: t3 is stamped before the shift has saved it.
StampThenShift(ts, stamp) == <<ts[2], stamp, stamp>>

\* updateJitterTimes
updateJitterTimes(ts, stamp) ==
  IF \A i \in 1 .. 3 : Unset(ts[i])
  THEN [ts EXCEPT ![1] = stamp]
  ELSE IF ~Unset(ts[1]) /\ Unset(ts[2]) /\ Unset(ts[3])
  THEN [ts EXCEPT ![2] = stamp]
  ELSE IF ~Unset(ts[1]) /\ ~Unset(ts[2]) /\ Unset(ts[3])
  THEN [ts EXCEPT ![3] = stamp]
  ELSE <<ts[2], ts[3], stamp>>

timespec_diff_highres(a, b) == (a - b) % Word64

Distance(a, b) == IF a > b THEN a - b ELSE b - a

\* Mutant: the differences are subtracted without asking which is greater.
JitterSigned(ts) ==
  timespec_diff_highres(ts[3], ts[2]) - timespec_diff_highres(ts[2], ts[1])

\* calculateJitter: both differences are negative, so both wrap.
calculateJitter(ts) ==
  Distance(timespec_diff_highres(ts[1], ts[2]), timespec_diff_highres(ts[2], ts[3]))

-----------------------------------------------------------------------------
(* The array *)

initJittersArray ==
  [sizeLimit |-> SizeLimit, fillSize |-> 0, allocated |-> SizeLimit,
   jitters_arr |-> [i \in 0 .. MaxPackets |-> 0]]

\* Mutant: one element too late.
FullTooLate(a) == a.sizeLimit < a.fillSize
Full(a) == a.sizeLimit = a.fillSize
Grown(a) == (a.sizeLimit + a.sizeLimit) % Word

\* updateJittersArray: realloc to the new limit, which is less than what is
\* allocated when the array was larger before clearJittersArray.
updateJittersArray(a, new_jitter) ==
  [a EXCEPT !.sizeLimit = IF Full(a) THEN Grown(a) ELSE @,
            !.allocated = IF Full(a) THEN Grown(a) ELSE @,
            !.jitters_arr[a.fillSize] = new_jitter,
            !.fillSize = @ + 1]

\* Mutant: the elements of the interval are kept.
ClearKeeps(a) == [a EXCEPT !.sizeLimit = SizeLimit]

\* clearJittersArray: the limit is the initial one again, the block stays.
clearJittersArray(a) == [a EXCEPT !.sizeLimit = SizeLimit, !.fillSize = 0]

Used(a) == 0 .. (a.fillSize - 1)

\* for(i = 0; i < n; i++) sum += arr[i], in 64 bits, which a sum of 32 bit values
\* does not use up.
Total(arr, n) ==
  LET sum[i \in 0 .. n] == IF i = 0 THEN 0 ELSE sum[i - 1] + arr[i - 1]
  IN sum[n]

Mean(a) == Total(a.jitters_arr, a.fillSize) \div a.fillSize

\* sqrt of a whole number, truncated
Isqrt(x) == CHOOSE r \in 0 .. x : r * r <= x /\ (r + 1) * (r + 1) > x

\* The mean of the squares that square(d) gives for the distances from the mean.
MeanSquare(a, square(_)) ==
  Total([i \in Used(a) |-> square(a.jitters_arr[i] - Mean(a))], a.fillSize) \div a.fillSize

\* The product of two uint32_t is a uint32_t, also when it is kept in 64 bits.
Square32(d) == (d * d) % Word

getJitterStandardDeviation(a) == Isqrt(MeanSquare(a, Square32))

-----------------------------------------------------------------------------
NoReport == [jitter |-> 0, deviation |-> 0]
NoneMeasured == [fillSize |-> 0, jitters_arr |-> [i \in 0 .. MaxPackets |-> 0]]

Init ==
  /\ status = "running"
  /\ now \in Starts /\ start = now \div Second /\ prevtime = 0
  /\ t = <<0, 0, 0>> /\ jitter = 0 /\ jitters = initJittersArray
  /\ jitter_sum = 0 /\ jitter_counter = 0 /\ report = NoReport
  /\ packets = 0 /\ stamps = <<0, 0, 0>> /\ write = [index |-> 0, size |-> SizeLimit]
  /\ measured = NoneMeasured

Elapsed(end) == (end \div Second) - start
ReportDue(end) == Elapsed(end) % Interval = 0 /\ Elapsed(end) # prevtime

\* A datagram, received at end and stamped a little later, is measured.
Measure(end, stamp) ==
  /\ status = "running" /\ packets < MaxPackets /\ stamp <= MaxTime
  /\ packets' = packets + 1 /\ now' = stamp
  /\ t' = updateJitterTimes(t, stamp)
  /\ stamps' = <<stamps[2], stamps[3], stamp>>
  /\ jitter' = calculateJitter(t')

Updated == updateJittersArray(jitters, jitter' % Word)
Written == write' = [index |-> jitters.fillSize, size |-> Updated.allocated]

\* The history with the jitter of this datagram, as calculateJitter returned it.
Measured ==
  [fillSize |-> measured.fillSize + 1,
   jitters_arr |-> [measured.jitters_arr EXCEPT ![measured.fillSize] = jitter']]

\* A datagram that closes no interval.
Count(end, stamp) ==
  /\ Measure(end, stamp) /\ ~ReportDue(end)
  /\ jitters' = Updated /\ Written /\ measured' = Measured
  /\ jitter_sum' = (jitter_sum + jitter') % Word64
  /\ jitter_counter' = jitter_counter + 1
  /\ UNCHANGED <<status, start, prevtime, report>>

\* A datagram that closes one: it is part of the report.
Report(end, stamp) ==
  /\ Measure(end, stamp) /\ ReportDue(end)
  /\ report' = [jitter |-> ((jitter_sum + jitter') % Word64) \div (jitter_counter + 1),
                deviation |-> getJitterStandardDeviation(Updated)]
  /\ jitters' = clearJittersArray(Updated) /\ Written /\ measured' = NoneMeasured
  /\ jitter_sum' = 0 /\ jitter_counter' = 0
  /\ prevtime' = Elapsed(end)
  /\ UNCHANGED <<status, start>>

\* realloc returns a null pointer and its result is written through.
ReallocFails(end, stamp) ==
  /\ Measure(end, stamp) /\ Full(jitters)
  /\ status' = "sigsegv"
  /\ UNCHANGED <<start, prevtime, jitters, jitter_sum, jitter_counter,
                 report, write, measured>>

Next ==
  \E gap, delay \in Gaps :
    LET end == now + gap  stamp == end + delay
    IN Count(end, stamp) \/ Report(end, stamp) \/ ReallocFails(end, stamp)

Spec == Init /\ [][Next]_vars

-----------------------------------------------------------------------------
(* Properties *)

TypeOK ==
  /\ status \in {"running", "sigsegv"}
  /\ now \in Nat /\ start \in Nat /\ prevtime \in Nat
  /\ t \in [1 .. 3 -> Nat] /\ stamps \in [1 .. 3 -> Nat]
  /\ jitter \in Nat /\ jitter_sum \in Nat
  /\ jitters.sizeLimit \in Nat /\ jitters.fillSize \in 0 .. packets
  /\ jitters.allocated \in Nat
  /\ jitter_counter \in Nat /\ packets \in 0 .. MaxPackets
  /\ measured.fillSize \in 0 .. packets
  /\ measured.jitters_arr \in [0 .. MaxPackets -> Nat]

\* No jitter is ever written beyond the block, also when realloc has made the
\* block smaller after clearJittersArray has reset the limit: every element
\* written was allocated, and the limit never exceeds the allocation.
WithinAllocation ==
  /\ write.index < write.size
  /\ jitters.fillSize <= jitters.sizeLimit
  /\ jitters.sizeLimit <= jitters.allocated

\* The average and the deviation of a report are about the same datagrams: the
\* counter and the array are reset together, and the sum, kept in 64 bits, is
\* that of the elements, kept in 32, as far as 32 bits tell.
SameDatagrams ==
  /\ jitter_counter = jitters.fillSize
  /\ (jitter_sum - Total(jitters.jitters_arr, jitters.fillSize)) % Word = 0

WholeSecond(ts) == \E i \in 1 .. 3 : Unset(ts[i])

\* From the third datagram on the jitter is the difference between the last two
\* gaps, though tv_nsec == 0 is taken for "not stamped yet", provided none of
\* the three came on a whole second; and the wrapped differences do no harm.
JitterOfLastThree ==
  ~WholeSecond(stamps) /\ stamps[1] < stamps[2] /\ stamps[2] < stamps[3] =>
    jitter = Distance(stamps[3] - stamps[2], stamps[2] - stamps[1])

TrueSquare(d) == d * d
TrueDeviation(a) == Isqrt(MeanSquare(a, TrueSquare))

Narrow(a) == \A i \in Used(a) : a.jitters_arr[i] < Word
SquaresFit(a) == \A i \in Used(a) : TrueSquare(a.jitters_arr[i] - Mean(a)) < Word

\* The squares are computed in 32 bits and wrap (mini_iperf_server.c:330), but the
\* error has one direction: over all growths, shrinks and resets of the array, the
\* deviation of a report never exceeds that of the jitters measured since the
\* report before it, and is that deviation when no square exceeds a uint32_t.  An
\* interval with a jitter that does not fit a uint32_t itself is left out.
DeviationNeverOverstated ==
  [][prevtime' # prevtime /\ Narrow(Measured) =>
       /\ report'.deviation <= TrueDeviation(Measured)
       /\ SquaresFit(Measured) => report'.deviation = TrueDeviation(Measured)]_vars

\* mini_iperf_server.c:221 prints it as "JitterDeviation": the standard deviation
\* of the interval's jitters.  From 2^16 ns, 65 microseconds, on the square of a
\* distance does not fit the uint32_t it is computed in.
DeviationIsExact ==
  [][prevtime' # prevtime /\ Narrow(Measured) =>
       report'.deviation = TrueDeviation(Measured)]_vars

\* mini_iperf_server.c:221 prints the average of an interval as "Jitter": it
\* cannot exceed the time since boot.  The first two jitters of a stream are
\* computed from time stamps that are not set, and the second one wraps.
JitterIsPossible == report.jitter <= now
=============================================================================
