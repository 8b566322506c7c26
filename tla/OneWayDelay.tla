------------------------------ MODULE OneWayDelay ------------------------------
(***************************************************************************)
(* The experiment of a client started with -d, after the handshake that    *)
(* IperfSession has: measure_one_way_delay_client asks an NTP server for   *)
(* the time before each datagram and waits for the answer;                 *)
(* measure_one_way_delay_server waits for each datagram, after a look for  *)
(* the termination header, and reports from the time since it started.     *)
(*                                                                         *)
(* An NTPmeasurement_t is 8 bytes in a 32 byte chunk of the heap, never    *)
(* freed, and sendto is told to send the whole packet_length from there,   *)
(* so it also reads what follows: the call fails when that is beyond the   *)
(* end of the heap.  The server's measurement is a pointer never set.      *)
(***************************************************************************)
EXTENDS Integers, Sequences, FiniteSetsExt

CONSTANTS
  Second,        \* ticks in a second
  Duration,      \* exp_options->experiment_duration
  Interval,      \* exp_options->interval_duration of the server
  Heap,          \* chunks the heap has, and grows by when they are used up
  Payload,       \* chunks a datagram is read from
  Pointers,      \* what recvfrom to the unset pointer may do: "ok", "fault", "stray"
  NtpLossy,      \* TRUE: a datagram to or from the NTP server may be lost
  NtpFails,      \* TRUE: a call on the NTP socket may fail
  MaxQueue,      \* datagrams the server's receive buffer holds
  Step,          \* ticks the clock advances at a time
  MaxStart,      \* bound: the client reads its start by then
  MaxTime        \* bound: the clock stops so long after the first datagram

ASSUME TimeAssumption ==
  /\ Second \in Nat \ {0} /\ Duration \in Nat /\ Interval \in Nat \ {0}
  /\ Step \in Nat \ {0} /\ MaxStart \in Nat /\ MaxTime \in Nat
ASSUME SizeAssumption == Heap \in Nat \ {0} /\ Payload \in Nat \ {0} /\ MaxQueue \in Nat \ {0}
ASSUME SwitchAssumption ==
  Pointers \subseteq {"ok", "fault", "stray"} /\ NtpLossy \in BOOLEAN /\ NtpFails \in BOOLEAN

VARIABLES
  now,        \* the clock both hosts follow
  cpc,        \* client: "ask", "wait", "send", "start", "term", "done", "failed"
  chunk,      \* client: which of the heap's chunks the last measurement is in
  cstart,     \* client: start, or NotYet before it is read
  lastsend,   \* client: lastsend
  ntp,        \* the request: "none", "asked", "answered", "refused", "lost"
  term,       \* the termination header is in the server's TCP queue
  udp,        \* when the datagrams in the server's receive buffer were sent
  spc,        \* server: "bind", "first", "check", "receive", "done", "failed", "undefined"
  sstart,     \* server: start
  estimate,   \* server: estimatedRtt
  prevtime,   \* server: prevtime
  printed,    \* server: the last one_way_delay printed
  longest     \* history: the longest any datagram was on its way or in the buffer

clientVars == <<cpc, chunk, cstart, lastsend, ntp>>
serverVars == <<spc, sstart, estimate, prevtime, printed, longest>>
vars == <<now, cpc, chunk, cstart, lastsend, ntp, term, udp,
          spc, sstart, estimate, prevtime, printed, longest>>

NotYet == -1
ClientEnded == {"done", "failed"}
ServerEnded == {"done", "failed", "undefined"}

Init ==
  /\ now \in {n \in 0 .. (Second - 1) : n % Step = 0}
  /\ cpc = "ask" /\ chunk = 0 /\ cstart = NotYet /\ lastsend = FALSE /\ ntp = "none"
  /\ term = FALSE /\ udp = <<>>
  /\ spc = "bind" /\ sstart = 0 /\ estimate = 0 /\ prevtime = 0
  /\ printed = 0 /\ longest = 0

\* timespec_diff_lowres from start: second boundaries, not whole seconds.
Elapsed(start) == (now \div Second) - (start \div Second)

-----------------------------------------------------------------------------
(* Client *)

\* malloc of a measurement and the write of getTimeFromNTP, or its die().
ClientAsk ==
  /\ cpc = "ask" /\ chunk' = (chunk % Heap) + 1
  /\ \/ /\ cpc' = "wait"
        /\ ntp' \in {"asked"} \cup (IF NtpLossy THEN {"lost"} ELSE {})
     \/ NtpFails /\ cpc' = "failed" /\ ntp' = "none"
  /\ UNCHANGED <<now, cstart, lastsend, term, udp, serverVars>>

\* The NTP server (external), or its host, which has no such port.
NtpAnswer ==
  /\ ntp = "asked"
  /\ ntp' \in {"answered"} \cup (IF NtpLossy THEN {"lost"} ELSE {})
                           \cup (IF NtpFails THEN {"refused"} ELSE {})
  /\ UNCHANGED <<now, cpc, chunk, cstart, lastsend, term, udp, serverVars>>

\* The read of getTimeFromNTP, which waits for ever, or its die().
ClientRead ==
  /\ cpc = "wait" /\ ntp \in {"answered", "refused"}
  /\ cpc' = IF ntp = "answered" THEN "send" ELSE "failed"
  /\ ntp' = "none"
  /\ UNCHANGED <<now, chunk, cstart, lastsend, term, udp, serverVars>>

Readable == chunk - 1 + Payload <= Heap
ServerTakesUdp == spc \in {"first", "check", "receive"}

\* Mutant: nothing is lost behind a full buffer.
DatagramAlwaysQueued == udp' = Append(udp, now)

\* sendto: queued, or lost without a bound socket or room in its buffer, or on
\* the way.
DatagramSent ==
  \/ ServerTakesUdp /\ Len(udp) < MaxQueue /\ udp' = Append(udp, now)
  \/ UNCHANGED udp

\* The first datagram, whether it can be sent or not.
ClientSendFirst ==
  /\ cpc = "send" /\ cstart = NotYet
  /\ IF Readable THEN DatagramSent ELSE UNCHANGED udp
  /\ cpc' = "start"
  /\ UNCHANGED <<now, chunk, cstart, lastsend, ntp, term, serverVars>>

\* The client's clock starts after it, which the server may have received by then.
ClientStartClock ==
  /\ cpc = "start"
  /\ cpc' = "ask" /\ cstart' = now
  /\ UNCHANGED <<now, chunk, lastsend, ntp, term, udp, serverVars>>

\* Mutant: the last round is the first one, whatever the clock says.
ClientSendsOnce ==
  /\ cpc = "send" /\ cstart # NotYet
  /\ DatagramSent /\ cpc' = "term" /\ lastsend' = TRUE
  /\ UNCHANGED <<now, chunk, cstart, ntp, term, serverVars>>

\* Mutant: the flag of the last round is never raised.
ClientSendsForEver ==
  /\ cpc = "send" /\ cstart # NotYet
  /\ DatagramSent /\ cpc' = "ask"
  /\ UNCHANGED <<now, chunk, cstart, lastsend, ntp, term, serverVars>>

\* The loop: one more round once the duration is reached.
ClientSend ==
  /\ cpc = "send" /\ cstart # NotYet
  /\ IF ~Readable
     THEN cpc' = "failed" /\ UNCHANGED <<lastsend, udp>>
     ELSE /\ DatagramSent
          /\ cpc' = IF lastsend THEN "term" ELSE "ask"
          /\ lastsend' = (lastsend \/ Elapsed(cstart) >= Duration)
  /\ UNCHANGED <<now, chunk, cstart, ntp, term, serverVars>>

\* terminate_iperf_client
ClientTerm ==
  /\ cpc = "term"
  /\ cpc' = "done" /\ term' = (spc \notin ServerEnded)
  /\ UNCHANGED <<now, chunk, cstart, lastsend, ntp, udp, serverVars>>

-----------------------------------------------------------------------------
(* Server *)

ServerBind ==
  /\ spc = "bind"
  /\ spc' = "first"
  /\ UNCHANGED <<now, clientVars, term, udp, sstart, estimate, prevtime, printed, longest>>

\* The first datagram is discarded, into whatever measurement points at.
ServerDiscardFirst ==
  /\ spc = "first" /\ udp # <<>>
  /\ \E outcome \in Pointers :
       spc' = CASE outcome = "ok" -> "check" [] outcome = "fault" -> "failed"
                [] outcome = "stray" -> "undefined"
  /\ udp' = Tail(udp) /\ sstart' = now
  /\ UNCHANGED <<now, clientVars, term, estimate, prevtime, printed, longest>>

\* checkForTermination, before each datagram.
ServerCheckTerm ==
  /\ spc = "check"
  /\ IF term THEN spc' = "done" /\ term' = FALSE
     ELSE spc' = "receive" /\ UNCHANGED term
  /\ UNCHANGED <<now, clientVars, udp, sstart, estimate, prevtime, printed, longest>>

\* Mutant: the weights add up to more than one.
SmoothedTwice(sample) == (7 * estimate + 4 * sample) \div 8

\* 0.875 * estimatedRtt + 0.125 * sampleRtt, to the tick below.
Smoothed(sample) == (7 * estimate + sample) \div 8

ReportDue == Elapsed(sstart) % Interval = 0 /\ prevtime # Elapsed(sstart)

\* Mutant: the header is looked for once.
ServerReceivesOn ==
  /\ spc = "receive" /\ udp # <<>>
  /\ udp' = Tail(udp) /\ estimate' = Smoothed(now - sstart)
  /\ UNCHANGED <<now, clientVars, term, spc, sstart, prevtime, printed, longest>>

\* recvfrom, which waits for a datagram, and the report it may close.
ServerReceive ==
  /\ spc = "receive" /\ udp # <<>>
  /\ spc' = "check" /\ udp' = Tail(udp)
  /\ longest' = Max({longest, now - Head(udp)})
  /\ estimate' = Smoothed(now - sstart)
  /\ IF ReportDue
     THEN printed' = estimate' \div 2 /\ prevtime' = Elapsed(sstart)
     ELSE UNCHANGED <<printed, prevtime>>
  /\ UNCHANGED <<now, clientVars, term, sstart>>

-----------------------------------------------------------------------------
\* The clock.  Before the first datagram only its place in the second matters.
Tick ==
  /\ \/ cstart = NotYet /\ cpc # "start" /\ now' = (now + Step) % Second
     \/ cpc = "start" /\ now + Step <= MaxStart /\ now' = now + Step
     \/ cstart # NotYet /\ now + Step <= cstart + MaxTime /\ now' = now + Step
  /\ UNCHANGED <<clientVars, term, udp, serverVars>>

ClientStep ==
  \/ ClientAsk \/ ClientRead \/ ClientSendFirst \/ ClientStartClock
  \/ ClientSend \/ ClientTerm
ServerStep == ServerBind \/ ServerDiscardFirst \/ ServerCheckTerm \/ ServerReceive

Next == ClientStep \/ ServerStep \/ NtpAnswer \/ Tick

Spec == Init /\ [][Next]_vars

\* Processes run and time passes; the NTP server answers what reaches it.
Fairness ==
  WF_vars(ClientStep) /\ WF_vars(ServerStep) /\ WF_vars(NtpAnswer) /\ WF_vars(Tick)

FairSpec == Spec /\ Fairness

-----------------------------------------------------------------------------
(* Properties *)

TypeOK ==
  /\ now \in Nat
  /\ cpc \in {"ask", "wait", "send", "start", "term"} \cup ClientEnded
  /\ chunk \in Nat /\ cstart \in {NotYet} \cup Nat /\ lastsend \in BOOLEAN
  /\ ntp \in {"none", "asked", "answered", "refused", "lost"}
  /\ term \in BOOLEAN /\ udp \in Seq(Nat) /\ Len(udp) <= MaxQueue
  /\ spc \in {"bind", "first", "check", "receive"} \cup ServerEnded
  /\ sstart \in Nat /\ estimate \in Nat /\ prevtime \in Nat
  /\ printed \in Nat /\ longest \in Nat

\* The server ends normally only for a client that measured for its duration.
NormalEndIsComplete ==
  spc = "done" => cpc = "done" /\ Elapsed(cstart) >= Duration

\* The smoothing is an average: the estimate never exceeds the time the server
\* has been measuring, and so half of it bounds every delay printed.
EstimateWithinExperiment ==
  spc # "bind" => estimate <= now - sstart /\ 2 * printed <= now - sstart

\* A client ends, however late the answers to its requests are and whether or not
\* the server still listens, unless a datagram to or from the NTP server is lost.
ClientEnds == <>(cpc \in ClientEnded \/ ntp = "lost")

\* mini_iperf.c:116 "Experiment duration in seconds": after it the client ends.
\* It does not look at the clock while it waits for the NTP server, whose answer
\* may be lost.
ClientEndsAnyway == <>(cpc \in ClientEnded)

\* The server ends when the header is there before it waits for a datagram, or a
\* datagram is still queued behind the header.
EndsOnTermInTime ==
  (term /\ (spc = "check" \/ (spc = "receive" /\ udp # <<>>))) ~> spc \in ServerEnded

\* mini_iperf_server.c:178 "terminates both of the iperf communication channels
\* ot the server": the client's request ends the server.  It is not looked for
\* while the server waits for a datagram that never comes.
ServerEnds == term ~> spc \in ServerEnded

\* mini_iperf.c:116 "Experiment duration in seconds": a client that nothing
\* disturbs completes it, long or not.  The measurements that are never freed
\* move up the heap until the datagram read from there crosses its end.
ClientCompletes == cpc # "failed"

\* mini_iperf_server.c:452 prints "One way delay is": no more than what a
\* datagram took from being sent to being received.  What the server smooths and
\* halves is the time since its own start.
PrintedIsDelay == printed <= longest

\* mini_iperf.c:69 "If -d is set measure the one way delay": the server does.
\* It receives through a pointer that is never set.
ServerMeasures == spc \notin {"failed", "undefined"}
=============================================================================
