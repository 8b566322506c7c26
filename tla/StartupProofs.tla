----------------------------- MODULE StartupProofs -----------------------------
(***************************************************************************)
(* Proofs about Startup, for bytes of any number of values, any options a  *)
(* user may give in any order, and anything malloc may leave behind.       *)
(***************************************************************************)
EXTENDS Startup, TLAPS

(***************************************************************************)
(* Digits                                                                  *)
(***************************************************************************)

\* Two digits in a base are a number below its square, and can be read back.
LEMMA Digits ==
  ASSUME NEW b \in Nat \ {0}, NEW h \in 0 .. (b - 1), NEW l \in 0 .. (b - 1)
  PROVE  /\ h * b + l \in 0 .. (b * b - 1)
         /\ (h * b + l) % b = l /\ (h * b + l) \div b = h
<1>1. h * b \in Nat /\ h * b = b * h /\ (b - 1) * b = b * b - b
  BY SMT
<1>2. \A m, n, k \in Nat : m <= n => m * k <= n * k
  BY SMT
<1>3. h * b <= (b - 1) * b
  BY <1>2
<1>4. (h * b + l) % b = l /\ (h * b + l) \div b = h
  BY SMT
<1>5. h * b + l >= 0 /\ h * b + l <= b * b - 1
  BY <1>1, <1>3
<1>6. b * b \in Nat /\ h * b + l \in Nat
  BY <1>1, SMT
<1> QED BY <1>4, <1>5, <1>6

\* A number below the square of a base is its two digits.
LEMMA TwoDigits ==
  ASSUME NEW b \in Nat \ {0}, NEW x \in 0 .. (b * b - 1)
  PROVE  /\ x % b \in 0 .. (b - 1) /\ x \div b \in 0 .. (b - 1)
         /\ x = (x \div b) * b + (x % b)
<1>1. b * b \in Nat
  BY SMT
<1>2. x \in Nat /\ x < b * b
  BY <1>1
<1>3. x % b \in 0 .. (b - 1) /\ x \div b \in Nat /\ x = b * (x \div b) + (x % b)
  BY <1>2, SMT
<1>4. (x \div b) * b = b * (x \div b)
  BY <1>3, SMT
<1>5. CASE x \div b >= b
  <2>1. \A m, n, k \in Nat : m <= n => k * m <= k * n
    BY SMT
  <2>2. b * b <= b * (x \div b)
    BY <1>3, <1>5, <2>1
  <2>3. b * (x \div b) <= x
    BY <1>3, SMT
  <2> QED BY <1>1, <1>2, <1>3, <2>2, <2>3, SMT
<1>6. CASE x \div b < b
  BY <1>3, <1>4, <1>6
<1> QED BY <1>3, <1>5, <1>6

LEMMA Bases == Byte \in Nat \ {0} /\ Word16 \in Nat \ {0} /\ Word32 \in Nat \ {0}
<1>1. \A b \in Nat \ {0} : b * b \in Nat \ {0}
  BY SMT
<1> QED BY <1>1, WordAssumption DEF Word16, Word32

\* htons exchanges the bytes, and exchanges them back.
LEMMA Shorts ==
  ASSUME NEW x \in UInt16
  PROVE  htons(x) \in UInt16 /\ htons(htons(x)) = x
<1> DEFINE h == x \div Byte
           l == x % Byte
<1>1. l \in 0 .. (Byte - 1) /\ h \in 0 .. (Byte - 1) /\ x = h * Byte + l
  BY Bases, TwoDigits DEF UInt16, Word16
<1>2. htons(x) = l * Byte + h
  BY DEF htons
<1> HIDE DEF h, l
<1>3. /\ l * Byte + h \in 0 .. (Byte * Byte - 1)
      /\ (l * Byte + h) % Byte = h /\ (l * Byte + h) \div Byte = l
  BY <1>1, Bases, Digits
<1>4. htons(l * Byte + h) = h * Byte + l
  BY <1>3 DEF htons
<1> QED BY <1>1, <1>2, <1>3, <1>4 DEF UInt16, Word16

\* The same for the four bytes of a long.
LEMMA Longs ==
  ASSUME NEW x \in UInt32
  PROVE  htonl(x) \in UInt32 /\ htonl(htonl(x)) = x
<1> DEFINE h == x \div Word16
           l == x % Word16
<1>1. l \in UInt16 /\ h \in UInt16 /\ x = h * Word16 + l
  BY Bases, TwoDigits DEF UInt32, Word32, UInt16
<1>2. htonl(x) = htons(l) * Word16 + htons(h)
  BY DEF htonl
<1> HIDE DEF h, l
<1>3. /\ htons(l) \in UInt16 /\ htons(h) \in UInt16
      /\ htons(htons(l)) = l /\ htons(htons(h)) = h
  BY <1>1, Shorts
<1>4. \A p, q \in UInt16 :
        /\ p * Word16 + q \in UInt32
        /\ (p * Word16 + q) % Word16 = q /\ (p * Word16 + q) \div Word16 = p
  BY Bases, Digits DEF UInt32, Word32, UInt16
<1>5. htonl(htons(l) * Word16 + htons(h)) = htons(htons(h)) * Word16 + htons(htons(l))
  BY <1>3, <1>4 DEF htonl
<1> QED BY <1>1, <1>2, <1>3, <1>4, <1>5

\* Every truncation gives a word.
LEMMA Truncations ==
  /\ \A y \in Int : y % Word16 \in UInt16 /\ y % Word32 \in UInt32
  /\ \A x \in UInt16 : x % Word16 = x
  /\ 0 \in UInt16 /\ 1 \in UInt16 /\ 0 \in UInt32 /\ 1 \in UInt32
  /\ \A x \in UInt16 : x \in UInt32
  /\ \A x \in UInt32 : x \in Nat /\ x \in Int
<1>1. \A w \in Nat \ {0} : \A y \in Int : y % w \in 0 .. (w - 1)
  BY SMT
<1>2. \A w \in Nat \ {0} : \A y \in 0 .. (w - 1) : y % w = y
  BY SMT
<1>3. 1 < Word16 /\ 1 < Word32 /\ Word16 <= Word32
  <2>1. \A b \in Nat : b > 1 => b * b \in Nat /\ 1 < b * b /\ b <= b * b
    BY SMT
  <2> QED BY <2>1, WordAssumption DEF Word16, Word32
<1> QED BY <1>1, <1>2, <1>3, Bases DEF UInt16, UInt32

(***************************************************************************)
(* Types                                                                   *)
(***************************************************************************)

LEMMA ParseType ==
  ASSUME NEW e \in Options, NEW o, o.num \in Int, o.metric \in Metrics
  PROVE  Parse(e, o) \in Options
<1> DEFINE n16 == o.num % Word16
           n32 == o.num % Word32
           bps == convertToBps(o.num, o.metric)
<1>1. n16 \in UInt16 /\ n32 \in UInt32
  BY Truncations
<1>2. bps \in UInt32
  <2>1. Kilo \in Nat /\ Kilo * Kilo \in Nat /\ Kilo * Kilo * Kilo \in Nat
    BY WordAssumption, SMT
  <2>2. Factor(o.metric) \in Nat
    BY <2>1 DEF Factor, Metrics
  <2>3. o.num % Word32 \in Nat
    BY Truncations
  <2>4. (o.num % Word32) * Factor(o.metric) \in Int
    BY <2>2, <2>3, SMT
  <2> QED BY <2>4, Truncations DEF convertToBps
<1>3. 1 \in UInt32
  BY Truncations
<1> HIDE DEF n16, n32, bps
<1> QED BY <1>1, <1>2, <1>3 DEF Parse, Options, n16, n32, bps

LEMMA SetUpType ==
  ASSUME NEW e \in Options
  PROVE  /\ setUp_required_options(e) \in Options
         /\ setUp_required_options(e).interval_duration # 0
         /\ setUp_required_options(e).experiment_duration # 0
         /\ setUp_required_options(e).packet_length # 0
<1>1. DefaultLength \in UInt32 \ {0} /\ DefaultDuration \in UInt16 \ {0}
  BY DefaultAssumption
<1>2. 0 \in UInt16 /\ 1 \in UInt16 /\ 1 # 0
  BY Truncations
<1> QED BY <1>1, <1>2 DEF setUp_required_options, Options

\* What the server receives is what the client has, of one_way_delay the low half.
LEMMA RoundTrip ==
  ASSUME NEW e \in Options, NEW s \in Options, e.offset = 0
  PROVE  LET r == Received(Header(e), s)
         IN /\ r \in Options
            /\ r.interval_duration = s.interval_duration
            /\ \A field \in DOMAIN e \ {"sock_type", "interval_duration", "one_way_delay"} :
                 r[field] = e[field]
            /\ r.one_way_delay = e.one_way_delay % Word16
<1> DEFINE r == Received(Header(e), s)
           low == e.one_way_delay % Word16
<1>1. /\ e.port \in UInt16 /\ e.experiment_duration \in UInt16
      /\ e.parallel_streams \in UInt16 /\ e.wait_duration \in UInt16
      /\ e.packet_length \in UInt32 /\ e.bandwidth \in UInt32
      /\ e.one_way_delay \in UInt32 /\ e.offset \in UInt16
      /\ s.interval_duration \in UInt16
  BY DEF Options
<1>2. low \in UInt16
  <2>1. e.one_way_delay \in Int
    BY <1>1, Truncations, Zenon
  <2> QED BY <2>1, Truncations
<1>3. /\ htons(htons(e.port)) = e.port
      /\ htons(htons(e.experiment_duration)) = e.experiment_duration
      /\ htons(htons(e.parallel_streams)) = e.parallel_streams
      /\ htons(htons(e.wait_duration)) = e.wait_duration
      /\ htons(htons(e.offset)) = e.offset
      /\ htons(htons(low)) = low
      /\ htonl(htonl(e.packet_length)) = e.packet_length
      /\ htonl(htonl(e.bandwidth)) = e.bandwidth
  BY <1>1, <1>2, Shorts, Longs
<1>4. (htons(e.port) + e.offset) % Word16 = htons(e.port)
  <2>0. htons(e.port) \in UInt16
    BY <1>1, Shorts
  <2>1. htons(e.port) \in UInt16 /\ htons(e.port) \in Int
    BY <2>0, Truncations, Zenon
  <2>2. htons(e.port) + e.offset = htons(e.port)
    BY <2>1
  <2> QED BY <2>1, <2>2, Truncations
<1> HIDE DEF low
<1>5. r = [sock_type |-> "SERVER", interval_duration |-> s.interval_duration,
           one_way_delay |-> low, port |-> e.port,
           packet_length |-> e.packet_length, bandwidth |-> e.bandwidth,
           experiment_duration |-> e.experiment_duration,
           wait_duration |-> e.wait_duration,
           parallel_streams |-> e.parallel_streams, offset |-> e.offset]
  BY <1>3, <1>4 DEF Received, Header, low
<1>6. r \in Options
  BY <1>1, <1>2, <1>5, Truncations DEF Options
<1>7. DOMAIN e = {"sock_type", "interval_duration", "one_way_delay", "port",
                  "packet_length", "bandwidth", "experiment_duration",
                  "wait_duration", "parallel_streams", "offset"}
  BY DEF Options
<1> HIDE DEF r
<1>8. r.interval_duration = s.interval_duration
  BY <1>5
<1>9. /\ r.port = e.port /\ r.packet_length = e.packet_length
      /\ r.bandwidth = e.bandwidth /\ r.experiment_duration = e.experiment_duration
      /\ r.wait_duration = e.wait_duration /\ r.parallel_streams = e.parallel_streams
      /\ r.offset = e.offset /\ r.one_way_delay = low
  BY <1>5
<1>10. \A field \in DOMAIN e \ {"sock_type", "interval_duration", "one_way_delay"} :
         r[field] = e[field]
  BY <1>7, <1>9
<1> QED BY <1>6, <1>8, <1>9, <1>10 DEF r, low

\* The low half of 0 is 0.
LEMMA LowHalf ==
  ASSUME NEW c \in UInt32, NEW d, d = c % Word16
  PROVE  d # 0 <=> c # 0 /\ c % Word16 # 0
<1>1. 0 % Word16 = 0
  BY Truncations
<1> QED BY <1>1

(***************************************************************************)
(* The invariant                                                           *)
(***************************************************************************)

\* A process past setUp_required_options has no field of these at 0.
Ready(e) ==
  e.offset = 0 /\ e.interval_duration # 0 /\ e.experiment_duration # 0 /\ e.packet_length # 0

Inv ==
  /\ TypeOK
  /\ cpc \in {"running", "connected"} => Ready(client)
  /\ spc \in {"running", "connected"} => Ready(server)
  /\ spc = "connected" <=> cpc = "connected"
  /\ SameExperiment /\ NothingIsZero

LEMMA InitType ==
  ASSUME NEW left \in Unset
  PROVE  InitialOptions(left) \in Options
BY Truncations, DefaultAssumption DEF InitialOptions, Options, Unset

LEMMA InvInit == Init => Inv
<1> SUFFICES ASSUME Init PROVE Inv
  OBVIOUS
<1>1. client \in Options /\ server \in Options /\ received \in Options
  <2>1. \A left \in Leftover : InitialOptions(left) \in Options
    BY InitType, InputAssumption
  <2> QED BY <2>1 DEF Init
<1> QED BY <1>1 DEF Init, Inv, TypeOK, SameExperiment, NothingIsZero

LEMMA InvStep == Inv /\ [Next]_vars => Inv'
<1> SUFFICES ASSUME Inv, [Next]_vars PROVE Inv'
  OBVIOUS
<1>t. /\ client \in Options /\ server \in Options /\ received \in Options
      /\ cpc \in {"options", "running", "exit", "connected"}
      /\ spc \in {"options", "running", "exit", "connected"}
  BY DEF Inv, TypeOK
<1>c. spc = "connected" <=> cpc = "connected"
  BY DEF Inv
<1>r. /\ cpc \in {"running", "connected"} => Ready(client)
      /\ spc \in {"running", "connected"} => Ready(server)
  BY DEF Inv
<1>1. ASSUME NEW o \in ClientOptions, ClientOption(o)
      PROVE  Inv'
  <2>1. client' \in Options
    BY <1>1, <1>t, ParseType, InputAssumption DEF ClientOption
  <2>2. cpc' = "options" /\ spc' # "connected"
    BY <1>1, <1>c DEF ClientOption
  <2>3. server' = server /\ received' = received /\ spc' = spc
    BY <1>1 DEF ClientOption
  <2> QED BY <1>t, <1>r, <2>1, <2>2, <2>3 DEF Inv, TypeOK, SameExperiment, NothingIsZero, Ready
<1>2. ASSUME NEW o \in ServerOptions, ServerOption(o)
      PROVE  Inv'
  <2>1. server' \in Options
    BY <1>2, <1>t, ParseType, InputAssumption DEF ServerOption
  <2>2. spc' = "options" /\ cpc' # "connected"
    BY <1>2, <1>c DEF ServerOption
  <2>3. client' = client /\ received' = received /\ cpc' = cpc
    BY <1>2 DEF ServerOption
  <2> QED BY <1>t, <1>r, <2>1, <2>2, <2>3 DEF Inv, TypeOK, SameExperiment, NothingIsZero, Ready
<1>3. CASE ClientSetUp
  <2>1. spc # "connected" /\ cpc' # "connected" /\ spc' = spc
        /\ server' = server /\ received' = received
    BY <1>3, <1>c DEF ClientSetUp
  <2>2. client' \in Options /\ cpc' \in {"running", "exit"}
        /\ (cpc' = "running" => Ready(client'))
    <3>1. CASE client.sock_type = "UNDEFINED"
      BY <1>3, <1>t, <3>1 DEF ClientSetUp
    <3>2. CASE client.sock_type # "UNDEFINED"
      <4>1. client' = setUp_required_options(client) /\ cpc' = "running"
        BY <1>3, <3>2 DEF ClientSetUp
      <4>2. setUp_required_options(client).offset = 0
        BY <1>t DEF setUp_required_options, Options
      <4> QED BY <1>t, <4>1, <4>2, SetUpType DEF Ready
    <3> QED BY <3>1, <3>2
  <2> QED BY <1>t, <1>r, <2>1, <2>2 DEF Inv, TypeOK, SameExperiment, NothingIsZero, Ready
<1>4. CASE ServerSetUp
  <2>1. cpc # "connected" /\ spc' # "connected" /\ cpc' = cpc
        /\ client' = client /\ received' = received
    BY <1>4, <1>c DEF ServerSetUp
  <2>2. server' \in Options /\ spc' \in {"running", "exit"}
        /\ (spc' = "running" => Ready(server'))
    <3>1. CASE server.sock_type = "UNDEFINED"
      BY <1>4, <1>t, <3>1 DEF ServerSetUp
    <3>2. CASE server.sock_type # "UNDEFINED"
      <4>1. server' = setUp_required_options(server) /\ spc' = "running"
        BY <1>4, <3>2 DEF ServerSetUp
      <4>2. setUp_required_options(server).offset = 0
        BY <1>t DEF setUp_required_options, Options
      <4> QED BY <1>t, <4>1, <4>2, SetUpType DEF Ready
    <3> QED BY <3>1, <3>2
  <2> QED BY <1>t, <1>r, <2>1, <2>2 DEF Inv, TypeOK, SameExperiment, NothingIsZero, Ready
<1>5. CASE Connect
  <2>1. /\ client' = client /\ server' = server
        /\ cpc' = "connected" /\ spc' = "connected"
        /\ received' = Received(Header(client), server)
        /\ cpc = "running" /\ spc = "running"
    BY <1>5 DEF Connect
  <2>2. Ready(client) /\ Ready(server)
    BY <1>r, <2>1
  <2>3. /\ received' \in Options
        /\ received'.interval_duration = server.interval_duration
        /\ \A field \in DOMAIN client \ {"sock_type", "interval_duration", "one_way_delay"} :
             received'[field] = client[field]
        /\ received'.one_way_delay = client.one_way_delay % Word16
    BY <1>t, <2>1, <2>2, RoundTrip DEF Ready
  <2>4. TypeOK'
    BY <1>t, <2>1, <2>3 DEF TypeOK
  <2>5. SameExperiment'
    <3>1. client.one_way_delay \in UInt32
      BY <1>t DEF Options
    <3>2. received'.one_way_delay # 0 <=>
            client.one_way_delay # 0 /\ client.one_way_delay % Word16 # 0
      BY <2>3, <3>1, LowHalf
    <3> QED BY <2>1, <2>3, <3>2 DEF SameExperiment, MeasuresDelay
  <2>6. NothingIsZero'
    BY <2>1, <2>2, <2>3 DEF NothingIsZero, Ready
  <2> QED BY <2>1, <2>2, <2>4, <2>5, <2>6 DEF Inv, Ready
<1>6. CASE ClientUsage \/ ServerUsage
  <2>1. cpc' # "connected" /\ spc' # "connected"
    BY <1>6, <1>c DEF ClientUsage, ServerUsage
  <2>2. /\ client' = client /\ server' = server /\ received' = received
        /\ cpc' \in {cpc, "exit"} /\ spc' \in {spc, "exit"}
    BY <1>6 DEF ClientUsage, ServerUsage
  <2> QED BY <1>t, <1>r, <2>1, <2>2 DEF Inv, TypeOK, SameExperiment, NothingIsZero, Ready
<1>7. CASE UNCHANGED vars
  BY <1>7 DEF vars, Inv, TypeOK, SameExperiment, MeasuresDelay, NothingIsZero, Ready
<1> QED BY <1>1, <1>2, <1>3, <1>4, <1>5, <1>6, <1>7 DEF Next

THEOREM Invariance == Spec => []Inv
BY InvInit, InvStep, PTL DEF Spec

\* Every option stays within its field, whatever is given.
THEOREM TypeCorrect == Spec => []TypeOK
<1>1. Inv => TypeOK
  BY DEF Inv
<1> QED BY <1>1, Invariance, PTL

\* For bytes of any size and any leftover the header says to the server what the
\* client has, save which measurement is taken when only the high half of the
\* client's one_way_delay is not 0.
THEOREM HeaderFaithful == Spec => []SameExperiment
<1>1. Inv => SameExperiment
  BY DEF Inv
<1> QED BY <1>1, Invariance, PTL

\* Whatever is given, the interval, the duration and the payload are positive.
THEOREM NoZeroes == Spec => []NothingIsZero
<1>1. Inv => NothingIsZero
  BY DEF Inv
<1> QED BY <1>1, Invariance, PTL
=============================================================================
