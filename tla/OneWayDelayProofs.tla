--------------------------- MODULE OneWayDelayProofs ---------------------------
(***************************************************************************)
(* Proofs about OneWayDelay, for every tick, duration, interval, heap,     *)
(* payload and buffer, any outcome of the unset pointer, and a network     *)
(* that loses what it likes.                                               *)
(***************************************************************************)
EXTENDS OneWayDelay, TLAPS

(***************************************************************************)
(* The clock                                                               *)
(***************************************************************************)

\* The larger of two numbers.
LEMMA MaxOfTwo ==
  ASSUME NEW a \in Nat, NEW b \in Nat
  PROVE  Max({a, b}) \in Nat
<1>1. \E x \in {a, b} : \A y \in {a, b} : x >= y
  <2>1. CASE a >= b
    BY <2>1
  <2>2. CASE b >= a
    BY <2>2
  <2> QED BY <2>1, <2>2
<1>2. Max({a, b}) \in {a, b}
  BY <1>1, Zenon DEF Max
<1> QED BY <1>2

\* Second boundaries are counted up.
LEMMA SecondsGrow ==
  ASSUME NEW a \in Nat, NEW b \in Nat, a <= b
  PROVE  a \div Second \in Nat /\ a \div Second <= b \div Second
<1>1. Second \in Nat \ {0}
  BY TimeAssumption
<1> QED BY <1>1, SMT

\* A bound by the time since a start stays one.
LEMMA BoundGrows ==
  ASSUME NEW a \in Nat, NEW b \in Nat, a <= b, NEW start \in Nat, NEW x \in Nat, x <= a - start
  PROVE  x <= b - start
OBVIOUS

(***************************************************************************)
(* The inductive invariant                                                 *)
(***************************************************************************)

\* Nothing is sent yet.
Unsent == cstart = NotYet /\ cpc # "start"

\* The clock may start again as long as nobody has looked at it: before the
\* first datagram nothing is queued and the server has not started.  From then
\* on every time stamp is in the past.
ClockInv ==
  /\ Unsent => udp = <<>> /\ spc \in {"bind", "first"}
  /\ cpc = "start" => cstart = NotYet
  /\ spc \in {"bind", "first"} => sstart = 0
  /\ cstart <= now
  /\ sstart <= now
  /\ \A i \in 1 .. Len(udp) : udp[i] <= now

\* The client has seen its duration pass before it asks for the end, and only it
\* asks.
EndInv ==
  /\ cpc \in {"term", "done"} => lastsend
  /\ lastsend => cstart # NotYet /\ Elapsed(cstart) >= Duration
  /\ term \/ spc = "done" => cpc = "done"

\* The estimate is made of samples no greater than the time since the start.
EstimateInv ==
  /\ spc \in {"bind", "first"} => estimate = 0 /\ printed = 0
  /\ estimate <= now - sstart
  /\ 2 * printed <= now - sstart

Inv == TypeOK /\ ClockInv /\ EndInv /\ EstimateInv

LEMMA InitInv == Init => Inv
<1> SUFFICES ASSUME Init PROVE Inv
  OBVIOUS
<1>1. now \in Nat
  BY TimeAssumption DEF Init
<1>2. MaxQueue \in Nat /\ Len(udp) = 0 /\ udp \in Seq(Nat)
  BY SizeAssumption DEF Init
<1>b. lastsend \in BOOLEAN /\ term \in BOOLEAN
  BY Zenon DEF Init
<1>i. /\ cpc = "ask" /\ chunk = 0 /\ cstart = -1 /\ ntp = "none"
      /\ spc = "bind" /\ sstart = 0 /\ estimate = 0 /\ prevtime = 0
      /\ printed = 0 /\ longest = 0
  BY DEF Init, NotYet
<1>3. TypeOK
  BY <1>b, <1>i, <1>1, <1>2 DEF TypeOK, ServerEnded, ClientEnded, NotYet
<1>4. ClockInv
  BY <1>1, <1>2 DEF Init, ClockInv, Unsent, NotYet
<1>5. EndInv /\ EstimateInv
  BY <1>1 DEF Init, EndInv, EstimateInv
<1> QED BY <1>3, <1>4, <1>5 DEF Inv

\* What is queued when a datagram was sent now, or none was.
LEMMA SentFacts ==
  ASSUME Inv, DatagramSent
  PROVE  /\ udp' \in Seq(Nat) /\ Len(udp') <= MaxQueue
         /\ \A i \in 1 .. Len(udp') : udp'[i] <= now
         /\ spc = "bind" => udp' = udp
<1>1. now \in Nat /\ udp \in Seq(Nat) /\ Len(udp) <= MaxQueue /\ MaxQueue \in Nat
      /\ \A i \in 1 .. Len(udp) : udp[i] <= now
  BY SizeAssumption DEF Inv, TypeOK, ClockInv
<1>2. CASE Len(udp) < MaxQueue /\ udp' = Append(udp, now) /\ ServerTakesUdp
  <2>1. udp' \in Seq(Nat) /\ Len(udp') = Len(udp) + 1
    BY <1>1, <1>2
  <2>2. \A i \in 1 .. (Len(udp) + 1) : udp'[i] <= now
    BY <1>1, <1>2
  <2> QED BY <1>1, <1>2, <2>1, <2>2 DEF ServerTakesUdp
<1>3. CASE UNCHANGED udp
  BY <1>1, <1>3
<1> QED BY <1>2, <1>3 DEF DatagramSent

\* What is queued when a datagram was received.
LEMMA TailFacts ==
  ASSUME Inv, udp # <<>>, udp' = Tail(udp)
  PROVE  /\ udp' \in Seq(Nat) /\ Len(udp') <= MaxQueue
         /\ \A i \in 1 .. Len(udp') : udp'[i] <= now
         /\ Head(udp) \in Nat /\ Head(udp) <= now
<1>1. now \in Nat /\ udp \in Seq(Nat) /\ Len(udp) <= MaxQueue /\ MaxQueue \in Nat
      /\ \A i \in 1 .. Len(udp) : udp[i] <= now
  BY SizeAssumption DEF Inv, TypeOK, ClockInv
<1>2. /\ udp' \in Seq(Nat) /\ Len(udp') = Len(udp) - 1 /\ Len(udp) >= 1
      /\ Head(udp) = udp[1] /\ Head(udp) \in Nat
      /\ \A i \in 1 .. (Len(udp) - 1) : udp'[i] = udp[i + 1]
  BY <1>1
<1> QED BY <1>1, <1>2

(***************************************************************************)
(* The steps                                                               *)
(***************************************************************************)

LEMMA ClientKeepsInv == Inv /\ (ClientStep \/ NtpAnswer) => Inv'
<1> SUFFICES ASSUME Inv, ClientStep \/ NtpAnswer PROVE Inv'
  OBVIOUS
<1> USE DEF clientVars, serverVars, ClientEnded, NotYet
<1>t. /\ now \in Nat /\ chunk \in Nat /\ cstart \in {-1} \cup Nat
      /\ Heap \in Nat \ {0} /\ MaxQueue \in Nat
  BY SizeAssumption DEF Inv, TypeOK
<1>1. CASE ClientAsk
  <2>1. chunk' \in Nat
    <3>1. \A h \in Nat \ {0} : \A x \in Nat : (x % h) + 1 \in Nat
      BY SMT
    <3> QED BY <1>t, <1>1, <3>1 DEF ClientAsk
  <2>2. ntp' \in {"asked", "lost", "none"} /\ cpc' \in {"wait", "failed"} /\ cpc = "ask"
    BY <1>1 DEF ClientAsk
  <2> QED BY <1>1, <2>1, <2>2
          DEF ClientAsk, Inv, TypeOK, ClockInv, Unsent, EndInv, EstimateInv, Elapsed
<1>2. CASE ClientRead
  <2>1. cpc' \in {"send", "failed"} /\ cpc = "wait" /\ ntp' = "none"
    BY <1>2 DEF ClientRead
  <2> QED BY <1>2, <2>1
          DEF ClientRead, Inv, TypeOK, ClockInv, Unsent, EndInv, EstimateInv, Elapsed
<1>3. CASE ClientSendFirst
  <2>1. udp = <<>> /\ spc \in {"bind", "first"} /\ ~lastsend
    BY <1>3 DEF ClientSendFirst, Inv, ClockInv, Unsent, EndInv
  <2>2. /\ udp' \in Seq(Nat) /\ Len(udp') <= MaxQueue
        /\ \A i \in 1 .. Len(udp') : udp'[i] <= now
    <3>1. CASE DatagramSent
      BY <3>1, SentFacts
    <3>2. CASE UNCHANGED udp
      BY <3>2 DEF Inv, TypeOK, ClockInv
    <3> QED BY <1>3, <3>1, <3>2 DEF ClientSendFirst
  <2>3. ~term /\ spc # "done"
    BY <1>3 DEF ClientSendFirst, Inv, EndInv
  <2> QED BY <1>t, <1>3, <2>1, <2>2, <2>3
          DEF ClientSendFirst, Inv, TypeOK, ClockInv, Unsent, EndInv, EstimateInv, Elapsed
<1>7. CASE ClientStartClock
  <2>1. cstart = -1 /\ cpc' = "ask" /\ cstart' = now /\ cpc = "start"
    BY <1>7 DEF ClientStartClock, Inv, ClockInv
  <2>2. ~lastsend /\ ~term /\ spc # "done"
    BY <2>1 DEF Inv, EndInv
  <2> QED BY <1>t, <1>7, <2>1, <2>2
          DEF ClientStartClock, Inv, TypeOK, ClockInv, Unsent, EndInv, EstimateInv
<1>4. CASE ClientSend
  <2>1. /\ udp' \in Seq(Nat) /\ Len(udp') <= MaxQueue
        /\ \A i \in 1 .. Len(udp') : udp'[i] <= now
    <3>1. CASE DatagramSent
      BY <3>1, SentFacts
    <3>2. CASE UNCHANGED udp
      BY <3>2 DEF Inv, TypeOK, ClockInv
    <3> QED BY <1>4, <3>1, <3>2 DEF ClientSend
  <2>2. /\ cpc' \in {"failed", "term", "ask"}
        /\ cpc' = "term" => lastsend
        /\ lastsend => lastsend'
        /\ lastsend' \in BOOLEAN
        /\ lastsend' => lastsend \/ Elapsed(cstart) >= Duration
    BY <1>4 DEF ClientSend, Inv, TypeOK
  <2>3. ~term /\ spc # "done"
    BY <1>4 DEF ClientSend, Inv, EndInv
  <2>4. UNCHANGED <<now, chunk, cstart, ntp, term, serverVars>> /\ cstart # -1
    BY <1>4 DEF ClientSend
  <2>5. Elapsed(cstart)' = Elapsed(cstart)
    BY <2>4 DEF Elapsed
  <2>6. TypeOK'
    BY <2>1, <2>2, <2>4 DEF Inv, TypeOK
  <2>7. ClockInv'
    <3>1. cpc' # "start"
      BY <2>2
    <3> QED BY <2>1, <2>4, <3>1 DEF Inv, ClockInv, Unsent
  <2>8. EndInv'
    BY <2>2, <2>3, <2>4, <2>5 DEF Inv, EndInv
  <2> QED BY <2>4, <2>6, <2>7, <2>8 DEF Inv, EstimateInv
<1>5. CASE ClientTerm
  <2>1. term' \in BOOLEAN /\ cpc' = "done" /\ lastsend
    BY <1>5 DEF ClientTerm, Inv, EndInv
  <2> QED BY <1>5, <2>1
          DEF ClientTerm, Inv, TypeOK, ClockInv, Unsent, EndInv, EstimateInv, Elapsed
<1>6. CASE NtpAnswer
  <2>1. ntp' \in {"answered", "refused", "lost"}
    BY <1>6 DEF NtpAnswer
  <2> QED BY <1>6, <2>1
          DEF NtpAnswer, Inv, TypeOK, ClockInv, Unsent, EndInv, EstimateInv, Elapsed
<1> QED BY <1>1, <1>2, <1>3, <1>4, <1>5, <1>6, <1>7 DEF ClientStep

LEMMA ServerKeepsInv == Inv /\ ServerStep => Inv'
<1> SUFFICES ASSUME Inv, ServerStep PROVE Inv'
  OBVIOUS
<1> USE DEF clientVars, serverVars, ServerEnded, NotYet
<1>t. /\ now \in Nat /\ sstart \in Nat /\ estimate \in Nat /\ printed \in Nat
      /\ prevtime \in Nat /\ longest \in Nat /\ sstart <= now
      /\ estimate <= now - sstart /\ 2 * printed <= now - sstart
  BY DEF Inv, TypeOK, ClockInv, EstimateInv
<1>1. CASE ServerBind
  BY <1>1 DEF ServerBind, Inv, TypeOK, ClockInv, Unsent, EndInv, EstimateInv, Elapsed
<1>2. CASE ServerDiscardFirst
  <2>1. /\ udp # <<>> /\ udp' = Tail(udp) /\ sstart' = now /\ spc = "first"
        /\ spc' \in {"check", "failed", "undefined"}
        /\ UNCHANGED <<now, clientVars, term, estimate, prevtime, printed, longest>>
    BY <1>2, SwitchAssumption DEF ServerDiscardFirst
  <2>2. estimate = 0 /\ printed = 0 /\ ~Unsent
    BY <2>1 DEF Inv, ClockInv, EstimateInv
  <2>3. TypeOK'
    BY <1>t, <2>1, TailFacts DEF Inv, TypeOK
  <2>4. ClockInv'
    BY <1>t, <2>1, <2>2, TailFacts DEF Inv, ClockInv, Unsent
  <2>5. EndInv'
    BY <2>1 DEF Inv, EndInv, Elapsed
  <2>6. EstimateInv'
    BY <1>t, <2>1, <2>2 DEF EstimateInv
  <2> QED BY <2>3, <2>4, <2>5, <2>6 DEF Inv
<1>3. CASE ServerCheckTerm
  <2>1. /\ spc = "check" /\ spc' \in {"done", "receive"}
        /\ spc' = "done" => term
        /\ term' \in BOOLEAN
        /\ term' => term
        /\ UNCHANGED <<now, clientVars, udp, sstart, estimate, prevtime, printed, longest>>
    BY <1>3 DEF ServerCheckTerm, Inv, TypeOK
  <2>2. TypeOK'
    <3>1. /\ spc' \in {"done", "receive"} /\ term' \in BOOLEAN
          /\ UNCHANGED <<now, clientVars, udp, sstart, estimate, prevtime, printed, longest>>
      BY <2>1
    <3> QED BY <3>1 DEF Inv, TypeOK
  <2>3. ClockInv' /\ EstimateInv'
    BY <2>1 DEF Inv, ClockInv, Unsent, EstimateInv
  <2>4. EndInv'
    BY <2>1 DEF Inv, EndInv, Elapsed
  <2> QED BY <2>2, <2>3, <2>4 DEF Inv
<1>4. CASE ServerReceive
  <2>1. /\ spc = "receive" /\ udp # <<>> /\ spc' = "check" /\ udp' = Tail(udp)
        /\ longest' = Max({longest, now - Head(udp)})
        /\ estimate' = (7 * estimate + (now - sstart)) \div 8
        /\ \/ printed' = estimate' \div 2 /\ prevtime' = Elapsed(sstart)
           \/ UNCHANGED <<printed, prevtime>>
        /\ UNCHANGED <<now, clientVars, term, sstart>>
    BY <1>4 DEF ServerReceive, Smoothed
  <2>2. ~Unsent
    BY <2>1 DEF Inv, ClockInv
  <2>3. estimate' \in Nat /\ estimate' <= now - sstart
    BY <1>t, <2>1
  <2>4. printed' \in Nat /\ 2 * printed' <= now - sstart
    BY <1>t, <2>1, <2>3
  <2>5. longest' \in Nat
    <3>1. Head(udp) \in Nat /\ Head(udp) <= now
      BY <2>1, TailFacts
    <3>2. now - Head(udp) \in Nat
      BY <1>t, <3>1
    <3> QED BY <1>t, <2>1, <3>2, MaxOfTwo
  <2>6. prevtime' \in Nat
    <3>1. Elapsed(sstart) \in Nat
      BY <1>t, SecondsGrow DEF Elapsed
    <3> QED BY <1>t, <2>1, <3>1
  <2>7. TypeOK'
    BY <2>1, <2>3, <2>4, <2>5, <2>6, TailFacts DEF Inv, TypeOK
  <2>8. ClockInv'
    BY <2>1, <2>2, TailFacts DEF Inv, ClockInv, Unsent
  <2>9. EndInv'
    BY <2>1 DEF Inv, EndInv, Elapsed
  <2>10. EstimateInv'
    BY <2>1, <2>3, <2>4 DEF EstimateInv
  <2> QED BY <2>7, <2>8, <2>9, <2>10 DEF Inv
<1> QED BY <1>1, <1>2, <1>3, <1>4 DEF ServerStep

LEMMA TickKeepsInv == Inv /\ Tick => Inv'
<1> SUFFICES ASSUME Inv, Tick PROVE Inv'
  OBVIOUS
<1>t. /\ now \in Nat /\ Step \in Nat /\ Second \in Nat \ {0} /\ cstart \in {-1} \cup Nat
      /\ sstart \in Nat /\ udp \in Seq(Nat)
      /\ (cpc = "start" => cstart = -1)
  BY TimeAssumption DEF Inv, TypeOK, ClockInv, NotYet
<1>u. UNCHANGED <<cpc, chunk, cstart, lastsend, ntp, term, udp,
                  spc, sstart, estimate, prevtime, printed, longest>>
  BY DEF Tick, clientVars, serverVars
<1>1. CASE Unsent
  <2>1. now' \in Nat
    <3>1. \A w \in Nat \ {0} : \A x \in Nat : x % w \in Nat
      BY SMT
    <3> QED BY <1>t, <1>1, <3>1 DEF Tick, Unsent, NotYet
  <2>2. udp = <<>> /\ spc \in {"bind", "first"} /\ ~lastsend
    BY <1>1 DEF Inv, ClockInv, EndInv, Unsent, NotYet
  <2>3. sstart = 0
    BY <2>2 DEF Inv, ClockInv
  <2>4. estimate = 0 /\ printed = 0
    BY <2>2 DEF Inv, EstimateInv
  <2>5. TypeOK'
    BY <1>u, <2>1 DEF Inv, TypeOK
  <2>6. ClockInv'
    BY <1>u, <1>t, <1>1, <2>1, <2>2, <2>3 DEF ClockInv, Unsent, NotYet
  <2>7. EndInv'
    BY <1>u, <2>2 DEF Inv, EndInv
  <2>8. EstimateInv'
    <3>1. spc' = spc /\ sstart' = sstart /\ estimate' = estimate /\ printed' = printed
      BY <1>u
    <3>2. estimate' = 0 /\ printed' = 0 /\ sstart' = 0
      BY <2>3, <2>4, <3>1
    <3>3. 0 <= now' - 0 /\ 2 * 0 = 0
      <4>1. 0 <= now' /\ 0 \in Nat /\ 0 <= 0 - 0 /\ 2 * 0 = 0
        BY <2>1
      <4> QED BY <2>1, <4>1, BoundGrows, Zenon
    <3> QED BY <3>2, <3>3, Zenon DEF EstimateInv
  <2> QED BY <2>5, <2>6, <2>7, <2>8 DEF Inv
<1>2. CASE ~Unsent
  <2>1. now' \in Nat /\ now <= now'
    BY <1>t, <1>2 DEF Tick, Unsent, NotYet
  <2>2. cstart <= now
    BY DEF Inv, ClockInv
  <2>3. ASSUME lastsend
        PROVE  Elapsed(cstart) \in Int /\ Elapsed(cstart)' \in Int
               /\ Elapsed(cstart) <= Elapsed(cstart)'
    <3>0. cstart \in Nat
      BY <1>t, <2>3 DEF Inv, EndInv, NotYet
    <3>1. cstart' = cstart
      BY <1>u
    <3>2. cstart \div Second \in Nat
      BY <3>0, SecondsGrow
    <3>3. /\ now \div Second \in Nat /\ now' \div Second \in Nat
          /\ now \div Second <= now' \div Second
      <4>1. now \in Nat /\ now' \in Nat /\ now <= now' /\ now' <= now'
        BY <1>t, <2>1
      <4> QED BY <4>1, SecondsGrow, Zenon
    <3> QED BY <3>1, <3>2, <3>3 DEF Elapsed
  <2>4. TypeOK'
    BY <1>u, <2>1 DEF Inv, TypeOK
  <2>5. ClockInv'
    BY <1>t, <1>u, <1>2, <2>1, <2>2 DEF Inv, ClockInv, Unsent, NotYet
  <2>6. EndInv'
    <3>1. Duration \in Int
      BY TimeAssumption
    <3>2. lastsend /\ Elapsed(cstart) >= Duration => Elapsed(cstart)' >= Duration
      <4> HIDE DEF Elapsed
      <4> QED BY <2>3, <3>1
    <3> QED BY <1>u, <3>2 DEF Inv, EndInv
  <2>7. EstimateInv'
    <3>1. estimate \in Nat /\ printed \in Nat /\ EstimateInv
      BY DEF Inv, TypeOK
    <3>2. spc' = spc /\ sstart' = sstart /\ estimate' = estimate /\ printed' = printed
      BY <1>u
    <3>3. estimate <= now - sstart /\ 2 * printed <= now - sstart
      BY <3>1 DEF EstimateInv
    <3>4. estimate <= now' - sstart /\ 2 * printed <= now' - sstart
      <4>1. 2 * printed \in Nat
        BY <3>1
      <4> QED BY <1>t, <2>1, <3>1, <3>3, <4>1, BoundGrows, Zenon
    <3> QED BY <3>1, <3>2, <3>4 DEF EstimateInv
  <2> QED BY <2>4, <2>5, <2>6, <2>7 DEF Inv
<1> QED BY <1>1, <1>2

LEMMA NextInv == Inv /\ [Next]_vars => Inv'
<1>1. Inv /\ UNCHANGED vars => Inv'
  BY DEF vars, Inv, TypeOK, ClockInv, Unsent, EndInv, EstimateInv, Elapsed
<1> QED BY <1>1, ClientKeepsInv, ServerKeepsInv, TickKeepsInv DEF Next

(***************************************************************************)
(* Results                                                                 *)
(***************************************************************************)

THEOREM Invariance == Spec => []Inv
<1> QED BY InitInv, NextInv, PTL DEF Spec

\* Every variable keeps its type; the server's counters are natural numbers
\* though they are differences of time stamps of two processes.
THEOREM TypeCorrect == Spec => []TypeOK
<1>1. Inv => TypeOK
  BY DEF Inv
<1> QED BY <1>1, Invariance, PTL

\* The server ends normally only for a client that measured for its duration.
THEOREM NormalEnd == Spec => []NormalEndIsComplete
<1>1. Inv => NormalEndIsComplete
  BY DEF Inv, EndInv, NormalEndIsComplete
<1> QED BY <1>1, Invariance, PTL

\* However often it is smoothed and whatever is lost, the estimate stays an
\* average of times within the experiment.
THEOREM EstimateBounded == Spec => []EstimateWithinExperiment
<1>1. Inv => EstimateWithinExperiment
  BY DEF Inv, EstimateInv, EstimateWithinExperiment
<1> QED BY <1>1, Invariance, PTL
=============================================================================
