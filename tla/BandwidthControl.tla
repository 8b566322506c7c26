--------------------------- MODULE BandwidthControl ---------------------------
(***************************************************************************)
(* The pacing of a client's stream: send_wbandwidth measures the rate at   *)
(* which the last two datagrams followed each other, raises or lowers      *)
(* sleeptime by a fifth, and sleeps so long before it returns.  With a     *)
(* bandwidth of 0 it does nothing of this, so Bandwidth is positive here.  *)
(*                                                                         *)
(* Time is in ticks, Second of them in a second (nanoseconds in the code). *)
(* The products of the code are doubles precise enough to be truncated to  *)
(* the integers below; a quotient is, too, but when it is a whole number,  *)
(* which rounding may put just under itself.  What exceeds an unsigned int *)
(* is undefined in C and keeps its low bits in the Makefile's build.       *)
(***************************************************************************)
EXTENDS Integers

CONSTANTS
  Second,      \* ticks in a second, 10^9
  Word,        \* uint32_t arithmetic is modulo Word
  Bits,        \* the bits of a datagram's payload
  Bandwidth,   \* exp_options->bandwidth, in bits per second
  Increment,   \* 10U
  Works,       \* ticks from one reading of the clock to the next, sleep excepted
  Uptimes      \* the clock when the first datagram has been sent

ASSUME PacingAssumption ==
  /\ Second \in Nat \ {0} /\ Bits \in Nat \ {0} /\ Bandwidth \in Nat \ {0}
  /\ Increment \in Nat
  /\ Works \subseteq Nat \ {0} /\ Uptimes \subseteq Nat \ {0}
ASSUME WordAssumption == Word \in Nat \ {0} /\ Second < Word

VARIABLES
  sleeptime,   \* controlstr->sleeptime
  slept,       \* how long the last call slept
  rate,        \* current_throughput of the last call
  first        \* no call was made yet: bandwidthEnd is still cleared

vars == <<sleeptime, slept, rate, first>>

\* initBandwidthControl
Init == sleeptime = 0 /\ slept = 0 /\ rate = 0 /\ first = TRUE

\* calculateThroughput: the values it may return.
calculateThroughput(interval) ==
  LET quotient == (Bits * Second) \div interval
      exact == (Bits * Second) % interval = 0
  IN {q % Word : q \in {quotient} \cup (IF exact THEN {quotient - 1} ELSE {})}

\* Mutant: without the summand a sleeptime of 0 stays 0.
RaisedWithoutIncrement(s) == ((6 * s) \div 5) % Word
Raised(s) == (Increment + (6 * s) \div 5) % Word

\* Mutant: the pause never becomes shorter.
NotLowered(s) == s
Lowered(s) == (4 * s) \div 5

\* Mutant: the clock is read after the sleep, which is not measured then.
DiffWithoutSleep(elapsed) == elapsed

\* timespec_diff_highres(&now, &controlstr->bandwidthEnd).  The clock was read
\* before the last sleep; before the first call bandwidthEnd is 0, the boot.
Diff(elapsed) == slept + elapsed

\* nanosleep refuses tv_nsec >= 10^9 at once; the error is not looked at.
Pause(s) == IF s < Second THEN s ELSE 0

\* send_wbandwidth
Send(elapsed) ==
  /\ rate' \in calculateThroughput(Diff(elapsed))
  /\ \/ /\ rate' > Bandwidth
        /\ sleeptime' = Raised(sleeptime) /\ slept' = Pause(sleeptime')
     \/ /\ rate' < Bandwidth
        /\ sleeptime' = Lowered(sleeptime) /\ slept' = Pause(sleeptime')
     \/ /\ rate' = Bandwidth
        /\ slept' = 0 /\ UNCHANGED sleeptime
  /\ first' = FALSE

Next ==
  \/ first /\ \E uptime \in Uptimes : Send(uptime)
  \/ ~first /\ \E work \in Works : Send(work)

Spec == Init /\ [][Next]_vars

\* The client sends without waiting for anybody while its experiment lasts.
FairSpec == Spec /\ WF_vars(Next)

-----------------------------------------------------------------------------
(* Properties *)

TypeOK ==
  /\ sleeptime \in Nat /\ sleeptime < Word
  /\ slept \in Nat /\ slept < Second
  /\ rate \in Nat
  /\ first \in BOOLEAN

\* What a datagram takes at the bandwidth asked for.
Time == (Bits * Second) \div Bandwidth
Longest == Increment + (6 * Time) \div 5

\* The feedback does not run away: as long as one step above a datagram's time
\* is less than a second, sleeptime never exceeds that step, so nanosleep never
\* refuses it.  A rate that is hit exactly is not slept for, and the pause it
\* leaves behind was no longer than a datagram's time.
SleepBounded == Longest < Second => sleeptime <= Longest

\* mini_iperf.c:99 "Bandwidth in bits per second of the data stream": again and
\* again the stream is no faster than that.  It holds while a datagram takes
\* less than a second; a slower stream asks nanosleep for more than it takes,
\* does not sleep at all, and raises sleeptime further, until it wraps.
StreamSlowsDown == []<>(~first /\ rate <= Bandwidth)

\* The stream is not slowed down for ever either: when the work of a datagram
\* fits its time, the rate comes back to the bandwidth.
StreamSpeedsUp == []<>(~first /\ rate >= Bandwidth)
=============================================================================
