--------------------------- MODULE LossyStreamProofs ---------------------------
(***************************************************************************)
(* With one client the stream is what StreamStats assumes of an ordered    *)
(* network until the path exchanges two datagrams, and what it assumes of  *)
(* any network from then on; on a path that keeps the order the server     *)
(* never counts more misses than datagrams were lost, and on one that      *)
(* exchanges neighbours never more than three for each exchange besides.   *)
(* Proved for every number of ids, datagrams, exchanges and seconds, and   *)
(* every length of the path.                                               *)
(***************************************************************************)
EXTENDS LossyStream, StreamStatsProofs, FiniteSetTheorems

(***************************************************************************)
(* The inductive invariant: the ids on the path rise, they lie between the *)
(* last id counted and the last id sent with room for those still between  *)
(* them, and every datagram sent is lost, on the path, thrown away,        *)
(* counted, or the one that killed the server.                             *)
(***************************************************************************)

\* The id below which nothing is left on the path.
Floor == IF discarded THEN curr_id ELSE Unsent

\* 1 for a condition that holds.
One(b) == IF b THEN 1 ELSE 0

PathType ==
  /\ TypeOK
  /\ sent \in [Clients -> Unsent .. MaxId]
  /\ path \in Seq(0 .. MaxId)
  /\ lost \in Nat
  /\ exchanged = 0
  /\ discarded \in BOOLEAN

Rising ==
  \A i, j \in 1 .. Len(path) : i <= j => path[i] + (j - i) <= path[j]

Between(c) ==
  \A i \in 1 .. Len(path) :
    /\ Floor + i <= path[i]
    /\ path[i] + (Len(path) - i) <= sent[c]

Room(c) == Floor + Len(path) + One(status = "sigfpe") <= sent[c]

Conserved(c) ==
  sent[c] + 1 = lost + Len(path) + total_packets
                + One(discarded) + One(status = "sigfpe")

PathInv(c) ==
  /\ PathType
  /\ Rising
  /\ Between(c)
  /\ Room(c)
  /\ Conserved(c)
  /\ ~discarded => curr_id = 0 /\ status = "running"

(***************************************************************************)
(* The sequence operators the path is changed by                           *)
(***************************************************************************)

LEMMA ElementsOf ==
  ASSUME NEW S, NEW s \in Seq(S)
  PROVE  Len(s) \in Nat /\ \A i \in 1 .. Len(s) : s[i] \in S
OBVIOUS

LEMMA ConcatElements ==
  ASSUME NEW S, NEW a \in Seq(S), NEW b \in Seq(S)
  PROVE  /\ a \o b \in Seq(S)
         /\ Len(a \o b) = Len(a) + Len(b)
         /\ \A j \in 1 .. Len(a) : (a \o b)[j] = a[j]
         /\ \A j \in 1 .. Len(b) : (a \o b)[Len(a) + j] = b[j]
OBVIOUS

LEMMA RemoveAtElements ==
  ASSUME NEW S, NEW s \in Seq(S), NEW i \in 1 .. Len(s)
  PROVE  /\ RemoveAt(s, i) \in Seq(S)
         /\ Len(RemoveAt(s, i)) = Len(s) - 1
         /\ \A j \in 1 .. (Len(s) - 1) :
              RemoveAt(s, i)[j] = IF j < i THEN s[j] ELSE s[j + 1]
<1>1. /\ SubSeq(s, 1, i - 1) \in Seq(S)
      /\ Len(SubSeq(s, 1, i - 1)) = i - 1
      /\ \A j \in 1 .. (i - 1) : SubSeq(s, 1, i - 1)[j] = s[j]
  OBVIOUS
<1>2. /\ SubSeq(s, i + 1, Len(s)) \in Seq(S)
      /\ Len(SubSeq(s, i + 1, Len(s))) = Len(s) - i
      /\ \A j \in 1 .. (Len(s) - i) : SubSeq(s, i + 1, Len(s))[j] = s[i + j]
  OBVIOUS
<1> DEFINE a == SubSeq(s, 1, i - 1)
           b == SubSeq(s, i + 1, Len(s))
<1>3. a \in Seq(S) /\ b \in Seq(S) /\ Len(a) = i - 1 /\ Len(b) = Len(s) - i
  BY <1>1, <1>2
<1>4. \A j \in 1 .. (i - 1) : a[j] = s[j]
  BY <1>1
<1>5. \A j \in 1 .. (Len(s) - i) : b[j] = s[i + j]
  BY <1>2
<1> HIDE DEF a, b
<1>6. /\ a \o b \in Seq(S)
      /\ Len(a \o b) = Len(s) - 1
      /\ \A j \in 1 .. (i - 1) : (a \o b)[j] = s[j]
  <2>1. i \in Int /\ Len(s) \in Nat
    OBVIOUS
  <2>2. a \o b \in Seq(S) /\ Len(a \o b) = Len(a) + Len(b)
    BY <1>3, ConcatElements, Zenon
  <2>3. \A j \in 1 .. Len(a) : (a \o b)[j] = a[j]
    BY <1>3, ConcatElements, Zenon
  <2>4. (i - 1) + (Len(s) - i) = Len(s) - 1
    BY <2>1
  <2> QED BY <1>3, <1>4, <2>2, <2>3, <2>4, Zenon
<1>8. \A j \in 1 .. (Len(s) - i) : (a \o b)[(i - 1) + j] = s[i + j]
  BY <1>3, <1>5, ConcatElements, SMT
<1>7. ASSUME NEW j \in 1 .. (Len(s) - 1), j >= i
      PROVE  (a \o b)[j] = s[j + 1]
  <2>1. /\ j - i + 1 \in 1 .. (Len(s) - i)
        /\ (i - 1) + (j - i + 1) = j /\ i + (j - i + 1) = j + 1
    BY <1>7
  <2> QED BY <1>8, <2>1
<1>9. RemoveAt(s, i) = a \o b
  BY DEF RemoveAt, a, b
<1>10. ASSUME NEW j \in 1 .. (Len(s) - 1)
       PROVE  (a \o b)[j] = IF j < i THEN s[j] ELSE s[j + 1]
  <2>1. CASE j < i
    <3>1. j \in 1 .. (i - 1)
      BY <2>1
    <3> QED BY <1>6, <2>1, <3>1, Zenon
  <2>2. CASE ~(j < i)
    <3>1. j >= i
      BY <2>2
    <3> QED BY <1>7, <2>2, <3>1, Zenon
  <2> QED BY <2>1, <2>2
<1> QED BY <1>6, <1>9, <1>10

\* A sequence with one element replaced; and with two neighbours exchanged.
LEMMA ReplaceElement ==
  ASSUME NEW S, NEW s \in Seq(S), NEW i \in 1 .. Len(s), NEW x \in S
  PROVE  [s EXCEPT ![i] = x] \in Seq(S) /\ Len([s EXCEPT ![i] = x]) = Len(s)
OBVIOUS

LEMMA ExchangeElements ==
  ASSUME NEW S, NEW s \in Seq(S), NEW i \in 1 .. (Len(s) - 1)
  PROVE  [s EXCEPT ![i] = s[i + 1], ![i + 1] = s[i]] \in Seq(S)
<1>1. i \in 1 .. Len(s) /\ i + 1 \in 1 .. Len(s)
  OBVIOUS
<1>2. s[i] \in S /\ s[i + 1] \in S
  BY <1>1, ElementsOf
<1> DEFINE r == [s EXCEPT ![i] = s[i + 1]]
<1>3. r \in Seq(S) /\ Len(r) = Len(s)
  BY <1>1, <1>2, ReplaceElement
<1>4. [r EXCEPT ![i + 1] = s[i]] \in Seq(S)
  BY <1>1, <1>2, <1>3, ReplaceElement
<1> QED BY <1>4

LEMMA TailElements ==
  ASSUME NEW S, NEW s \in Seq(S), s # <<>>
  PROVE  /\ Tail(s) \in Seq(S)
         /\ Len(Tail(s)) = Len(s) - 1
         /\ Len(s) >= 1 /\ Head(s) = s[1] /\ Head(s) \in S
         /\ \A j \in 1 .. (Len(s) - 1) : Tail(s)[j] = s[j + 1]
OBVIOUS

(***************************************************************************)
(* The steps                                                               *)
(***************************************************************************)

LEMMA PathInvInit ==
  ASSUME NEW c, Clients = {c}, PathInit
  PROVE  PathInv(c)
<1>1. TypeOK
  BY InvInit DEF PathInit, Inv
<1>2. /\ sent = [d \in {c} |-> -1] /\ path = <<>> /\ lost = 0
      /\ exchanged = 0 /\ discarded = FALSE
      /\ curr_id = 0 /\ total_packets = 0 /\ status = "running"
  BY DEF PathInit, Init, Unsent
<1>3. MaxId \in Nat /\ sent[c] = -1 /\ Len(path) = 0 /\ path \in Seq(0 .. MaxId)
  BY <1>2, BoundAssumption
<1>4. sent \in [Clients -> Unsent .. MaxId]
  BY <1>2, <1>3 DEF Unsent
<1>5. One(discarded) = 0 /\ One(status = "sigfpe") = 0 /\ Floor = -1
  BY <1>2 DEF One, Floor, Unsent
<1>6. PathType
  BY <1>1, <1>2, <1>3, <1>4 DEF PathType
<1>7. Rising /\ Between(c)
  BY <1>3 DEF Rising, Between
<1>8. Room(c)
  BY <1>3, <1>5 DEF Room
<1>9. Conserved(c)
  BY <1>2, <1>3, <1>5 DEF Conserved
<1> QED BY <1>2, <1>6, <1>7, <1>8, <1>9 DEF PathInv

\* The facts of the invariant in a form the solver can use.
LEMMA PathFacts ==
  ASSUME NEW c, Clients = {c}, PathInv(c)
  PROVE  /\ sent[c] \in Int /\ -1 <= sent[c] /\ sent[c] <= MaxId /\ MaxId \in Nat
         /\ path \in Seq(0 .. MaxId) /\ Len(path) \in Nat
         /\ \A i \in 1 .. Len(path) : path[i] \in Int /\ path[i] >= 0 /\ path[i] <= MaxId
         /\ lost \in Nat /\ curr_id \in Nat /\ total_packets \in Nat
         /\ Floor \in Int /\ One(discarded) \in Int /\ One(status = "sigfpe") \in Int
         /\ One(status = "sigfpe") >= 0
<1>1. MaxId \in Nat
  BY BoundAssumption
<1>2. sent[c] \in Unsent .. MaxId /\ Unsent = -1
  BY DEF PathInv, PathType, Unsent
<1>3. path \in Seq(0 .. MaxId) /\ Len(path) \in Nat
  BY DEF PathInv, PathType
<1>4. \A i \in 1 .. Len(path) : path[i] \in 0 .. MaxId
  BY <1>3, ElementsOf, Zenon
<1>5. lost \in Nat /\ curr_id \in Nat /\ total_packets \in Nat
  BY BoundAssumption DEF PathInv, PathType, TypeOK
<1>6. Floor \in Int
  BY <1>5 DEF Floor, Unsent
<1>7. One(discarded) \in Int /\ One(status = "sigfpe") \in Int /\ One(status = "sigfpe") >= 0
  BY DEF One
<1> QED BY <1>1, <1>2, <1>3, <1>4, <1>5, <1>6, <1>7

LEMMA SendStep ==
  ASSUME NEW c, Clients = {c}, PathInv(c), Send(c)
  PROVE  PathInv(c)'
<1>1. /\ sent' = [sent EXCEPT ![c] = @ + 1] /\ sent[c] < MaxId
      /\ path' = Append(path, sent'[c])
      /\ lost' = lost /\ exchanged' = exchanged /\ discarded' = discarded /\ vars' = vars
  BY DEF Send
<1>2. /\ TypeOK' /\ curr_id' = curr_id /\ status' = status
      /\ total_packets' = total_packets
  BY <1>1 DEF PathInv, PathType, TypeOK, vars
<1>3. sent'[c] = sent[c] + 1
  BY <1>1 DEF PathInv, PathType
<1>4. sent' \in [Clients -> Unsent .. MaxId]
  BY <1>1, <1>3, PathFacts DEF PathInv, PathType, Unsent
<1>5. /\ path' \in Seq(0 .. MaxId)
      /\ Len(path') = Len(path) + 1
      /\ path'[Len(path) + 1] = sent[c] + 1
      /\ \A i \in 1 .. Len(path) : path'[i] = path[i]
  BY <1>1, <1>3, PathFacts
<1>6. Floor' = Floor /\ One(discarded)' = One(discarded)
      /\ One(status = "sigfpe")' = One(status = "sigfpe")
  BY <1>1, <1>2 DEF Floor, One
<1>7. PathType'
  BY <1>1, <1>2, <1>4, <1>5 DEF PathInv, PathType
<1>8. Rising'
  <2> SUFFICES ASSUME NEW i \in 1 .. (Len(path) + 1), NEW j \in 1 .. (Len(path) + 1), i <= j
               PROVE  path'[i] + (j - i) <= path'[j]
    BY <1>5 DEF Rising
  <2>0. Len(path) \in Nat
    BY PathFacts
  <2>1. CASE j <= Len(path)
    <3>1. i \in 1 .. Len(path) /\ j \in 1 .. Len(path)
      BY <2>0, <2>1
    <3>2. path[i] + (j - i) <= path[j]
      BY <3>1 DEF PathInv, Rising
    <3> QED BY <1>5, <3>1, <3>2
  <2>2. CASE j = Len(path) + 1 /\ i <= Len(path)
    <3>1. i \in 1 .. Len(path)
      BY <2>0, <2>2
    <3>2. path[i] + (Len(path) - i) <= sent[c]
      BY <3>1 DEF PathInv, Between
    <3>3. path'[i] = path[i] /\ path[i] \in Int /\ sent[c] \in Int
      BY <1>5, <3>1, PathFacts
    <3>4. path'[j] = sent[c] + 1
      BY <1>5, <2>2
    <3> HIDE DEF PathInv
    <3> QED BY <2>0, <2>2, <3>2, <3>3, <3>4, SMT
  <2>3. CASE j = Len(path) + 1 /\ i = Len(path) + 1
    <3>1. path'[j] = sent[c] + 1 /\ sent[c] \in Int /\ i = j
      BY <1>5, <2>3, PathFacts
    <3>2. j - i = 0
      BY <2>0, <2>3
    <3> QED BY <3>1, <3>2
  <2> QED BY <2>0, <2>1, <2>2, <2>3
<1>9. Between(c)'
  <2> SUFFICES ASSUME NEW i \in 1 .. (Len(path) + 1)
               PROVE  /\ Floor + i <= path'[i]
                      /\ path'[i] + (Len(path) + 1 - i) <= sent[c] + 1
    BY <1>3, <1>5, <1>6 DEF Between
  <2>0. Len(path) \in Nat /\ sent[c] \in Int /\ Floor \in Int
    BY PathFacts
  <2>1. CASE i <= Len(path)
    <3>1. i \in 1 .. Len(path)
      BY <2>0, <2>1
    <3>2. Floor + i <= path[i] /\ path[i] + (Len(path) - i) <= sent[c]
      BY <3>1 DEF PathInv, Between
    <3>3. path'[i] = path[i] /\ path[i] \in Int
      BY <1>5, <3>1, PathFacts
    <3> QED BY <2>0, <3>1, <3>2, <3>3
  <2>2. CASE i = Len(path) + 1
    <3>1. One(status = "sigfpe") \in Int /\ One(status = "sigfpe") >= 0
      BY PathFacts
    <3>2. Floor + Len(path) <= sent[c]
      BY <2>0, <3>1 DEF PathInv, Room
    <3>3. path'[i] = sent[c] + 1
      BY <1>5, <2>2
    <3> QED BY <2>0, <2>2, <3>2, <3>3
  <2> QED BY <2>0, <2>1, <2>2
<1>10. Room(c)'
  <2>1. /\ sent[c] \in Int /\ Len(path) \in Int /\ Floor \in Int
        /\ One(status = "sigfpe") \in Int
    BY PathFacts
  <2>2. Floor + (Len(path) + 1) + One(status = "sigfpe") <= sent[c] + 1
    BY <2>1 DEF PathInv, Room
  <2> QED BY <1>3, <1>5, <1>6, <2>2 DEF Room
<1>11. Conserved(c)'
  <2>1. sent[c] + 1 = lost + Len(path) + total_packets
                      + One(discarded) + One(status = "sigfpe")
    BY DEF PathInv, Conserved
  <2>2. /\ sent[c] \in Int /\ Len(path) \in Int /\ lost \in Int /\ total_packets \in Int
        /\ One(discarded) \in Int /\ One(status = "sigfpe") \in Int
    BY PathFacts
  <2>3. sent[c] + 1 + 1 = lost + (Len(path) + 1) + total_packets
                          + One(discarded) + One(status = "sigfpe")
    BY <2>1, <2>2
  <2> QED BY <1>1, <1>2, <1>3, <1>5, <1>6, <2>3 DEF Conserved
<1> QED BY <1>1, <1>2, <1>7, <1>8, <1>9, <1>10, <1>11 DEF PathInv

LEMMA LoseStep ==
  ASSUME NEW c, Clients = {c}, PathInv(c), Lose
  PROVE  PathInv(c)'
<1>1. PICK k \in 1 .. Len(path) : path' = RemoveAt(path, k)
  BY DEF Lose
<1>2. /\ lost' = lost + 1 /\ sent' = sent
      /\ exchanged' = exchanged /\ discarded' = discarded /\ vars' = vars
  BY DEF Lose
<1>3. /\ TypeOK' /\ curr_id' = curr_id /\ status' = status
      /\ total_packets' = total_packets
  BY <1>2 DEF PathInv, PathType, TypeOK, vars
<1>4. /\ path' \in Seq(0 .. MaxId)
      /\ Len(path') = Len(path) - 1
      /\ \A j \in 1 .. (Len(path) - 1) : path'[j] = IF j < k THEN path[j] ELSE path[j + 1]
  BY <1>1, PathFacts, RemoveAtElements
<1>5. Floor' = Floor /\ One(discarded)' = One(discarded)
      /\ One(status = "sigfpe")' = One(status = "sigfpe")
  BY <1>2, <1>3 DEF Floor, One
<1>6. PathType'
  BY <1>2, <1>3, <1>4, PathFacts DEF PathInv, PathType
<1>7. Rising'
  <2> SUFFICES ASSUME NEW i \in 1 .. (Len(path) - 1), NEW j \in 1 .. (Len(path) - 1), i <= j
               PROVE  path'[i] + (j - i) <= path'[j]
    BY <1>4 DEF Rising
  <2>1. \A m, n \in 1 .. Len(path) : m <= n => path[m] + (n - m) <= path[n]
    BY DEF PathInv, Rising
  <2>2. Len(path) \in Nat /\ i \in Int /\ j \in Int /\ k \in Int
    BY PathFacts
  <2>3. /\ i \in 1 .. Len(path) /\ j \in 1 .. Len(path)
        /\ i + 1 \in 1 .. Len(path) /\ j + 1 \in 1 .. Len(path)
    BY <2>2
  <2>4. /\ path[i] \in Int /\ path[j] \in Int
        /\ path[i + 1] \in Int /\ path[j + 1] \in Int
    BY <2>3, PathFacts
  <2>5. /\ path'[i] = IF i < k THEN path[i] ELSE path[i + 1]
        /\ path'[j] = IF j < k THEN path[j] ELSE path[j + 1]
    BY <1>4
  <2>6. /\ path[i] + (j - i) <= path[j]
        /\ path[i] + (j + 1 - i) <= path[j + 1]
        /\ path[i + 1] + (j + 1 - (i + 1)) <= path[j + 1]
    BY <2>1, <2>2, <2>3
  <2> QED BY <2>2, <2>4, <2>5, <2>6
<1>8. Between(c)'
  <2> SUFFICES ASSUME NEW i \in 1 .. (Len(path) - 1)
               PROVE  /\ Floor + i <= path'[i]
                      /\ path'[i] + (Len(path) - 1 - i) <= sent[c]
    BY <1>2, <1>4, <1>5 DEF Between
  <2>1. i \in 1 .. Len(path) /\ i + 1 \in 1 .. Len(path)
    BY PathFacts
  <2>2. /\ Floor + i <= path[i] /\ path[i] + (Len(path) - i) <= sent[c]
        /\ Floor + (i + 1) <= path[i + 1]
        /\ path[i + 1] + (Len(path) - (i + 1)) <= sent[c]
    BY <2>1 DEF PathInv, Between
  <2>3. sent[c] \in Int /\ Floor \in Int /\ Len(path) \in Int /\ i \in Int
    BY PathFacts
  <2>4. path[i] \in Int /\ path[i + 1] \in Int
    BY <2>1, PathFacts
  <2>5. path'[i] = path[i] \/ path'[i] = path[i + 1]
    BY <1>4
  <2> QED BY <2>2, <2>3, <2>4, <2>5
<1>9. Room(c)'
  <2>1. /\ Floor \in Int /\ Len(path) \in Int /\ sent[c] \in Int
        /\ One(status = "sigfpe") \in Int
    BY PathFacts
  <2>2. Floor + (Len(path) - 1) + One(status = "sigfpe") <= sent[c]
    BY <2>1 DEF PathInv, Room
  <2> QED BY <1>2, <1>4, <1>5, <2>2 DEF Room
<1>10. Conserved(c)'
  <2>1. sent[c] + 1 = lost + Len(path) + total_packets
                      + One(discarded) + One(status = "sigfpe")
    BY DEF PathInv, Conserved
  <2>2. /\ sent[c] \in Int /\ Len(path) \in Int /\ lost \in Int /\ total_packets \in Int
        /\ One(discarded) \in Int /\ One(status = "sigfpe") \in Int
    BY PathFacts
  <2>3. sent[c] + 1 = lost + 1 + (Len(path) - 1) + total_packets
                      + One(discarded) + One(status = "sigfpe")
    BY <2>1, <2>2
  <2> QED BY <1>2, <1>3, <1>4, <1>5, <2>3 DEF Conserved
<1> QED BY <1>2, <1>3, <1>6, <1>7, <1>8, <1>9, <1>10 DEF PathInv

\* When the first datagram leaves the path, the rest keeps its order, and every
\* id on it is greater.
LEMMA TailStep ==
  ASSUME NEW c, Clients = {c}, PathInv(c), path # <<>>, path' = Tail(path), sent' = sent,
         Floor' \in Int, Floor' <= path[1]
  PROVE  /\ path' \in Seq(0 .. MaxId) /\ Len(path') = Len(path) - 1
         /\ Rising' /\ Between(c)'
         /\ Head(path) = path[1] /\ path[1] \in 0 .. MaxId /\ Len(path) >= 1
         /\ Floor + 1 <= path[1] /\ path[1] + (Len(path) - 1) <= sent[c]
<1>1. /\ path' \in Seq(0 .. MaxId) /\ Len(path') = Len(path) - 1
      /\ Head(path) = path[1] /\ path[1] \in 0 .. MaxId /\ Len(path) >= 1
      /\ \A j \in 1 .. (Len(path) - 1) : path'[j] = path[j + 1]
  BY PathFacts, TailElements
<1>2. \A m, n \in 1 .. Len(path) : m <= n => path[m] + (n - m) <= path[n]
  BY DEF PathInv, Rising
<1>3. \A m \in 1 .. Len(path) : Floor + m <= path[m] /\ path[m] + (Len(path) - m) <= sent[c]
  BY DEF PathInv, Between
<1>4. Rising'
  <2> SUFFICES ASSUME NEW i \in 1 .. (Len(path) - 1), NEW j \in 1 .. (Len(path) - 1), i <= j
               PROVE  path'[i] + (j - i) <= path'[j]
    BY <1>1 DEF Rising
  <2>1. i + 1 \in 1 .. Len(path) /\ j + 1 \in 1 .. Len(path)
    BY PathFacts
  <2>2. path[i + 1] + (j + 1 - (i + 1)) <= path[j + 1]
    BY <1>2, <2>1
  <2>3. path[i + 1] \in Int /\ path[j + 1] \in Int
    BY <2>1, PathFacts
  <2>4. path'[i] = path[i + 1] /\ path'[j] = path[j + 1]
    BY <1>1
  <2> QED BY <2>2, <2>3, <2>4
<1>5. Between(c)'
  <2> SUFFICES ASSUME NEW i \in 1 .. (Len(path) - 1)
               PROVE  /\ Floor' + i <= path'[i]
                      /\ path'[i] + (Len(path) - 1 - i) <= sent[c]
    BY <1>1 DEF Between
  <2>1. i + 1 \in 1 .. Len(path) /\ 1 \in 1 .. Len(path)
    BY PathFacts
  <2>2. path[1] + (i + 1 - 1) <= path[i + 1]
    BY <1>2, <2>1
  <2>3. path[i + 1] + (Len(path) - (i + 1)) <= sent[c]
    BY <1>3, <2>1
  <2>4. path'[i] = path[i + 1]
    BY <1>1
  <2>5. sent[c] \in Int /\ Len(path) \in Int /\ i \in Int
    BY PathFacts
  <2>6. path[1] \in Int /\ path[i + 1] \in Int
    BY <2>1, PathFacts
  <2> QED BY <2>2, <2>3, <2>4, <2>5, <2>6
<1>6. 1 \in 1 .. Len(path)
  BY <1>1, PathFacts
<1> QED BY <1>1, <1>3, <1>4, <1>5, <1>6

LEMMA DiscardStep ==
  ASSUME NEW c, Clients = {c}, PathInv(c), Discard
  PROVE  PathInv(c)'
<1>1. /\ path # <<>> /\ path' = Tail(path) /\ ~discarded /\ discarded' = TRUE
      /\ sent' = sent /\ lost' = lost /\ exchanged' = exchanged /\ vars' = vars
  BY DEF Discard
<1>2. /\ TypeOK' /\ curr_id' = curr_id /\ status' = status
      /\ total_packets' = total_packets
  BY <1>1 DEF PathInv, PathType, TypeOK, vars
<1>3. curr_id = 0 /\ status = "running"
  BY <1>1 DEF PathInv
<1>4. Floor = -1 /\ Floor' = 0
  BY <1>1, <1>2, <1>3 DEF Floor, Unsent
<1>5. 1 \in 1 .. Len(path) => path[1] >= 0
  BY PathFacts
<1>6. Len(path) >= 1
  BY <1>1, PathFacts, TailElements
<1>7. 0 <= path[1]
  BY <1>5, <1>6, PathFacts
<1>8. /\ path' \in Seq(0 .. MaxId) /\ Len(path') = Len(path) - 1
      /\ Rising' /\ Between(c)'
  BY <1>1, <1>4, <1>7, TailStep
<1>9. PathType'
  BY <1>1, <1>2, <1>8 DEF PathInv, PathType
<1>10. /\ One(discarded) = 0 /\ One(discarded)' = 1
       /\ One(status = "sigfpe") = 0 /\ One(status = "sigfpe")' = 0
  BY <1>1, <1>2, <1>3 DEF One
<1>11. sent[c] \in Int /\ Len(path) \in Int /\ lost \in Int /\ total_packets \in Int
  BY PathFacts
<1>12. Room(c)'
  <2>1. -1 + Len(path) + 0 <= sent[c]
    BY <1>4, <1>10 DEF PathInv, Room
  <2> QED BY <1>1, <1>4, <1>8, <1>10, <1>11, <2>1 DEF Room
<1>13. Conserved(c)'
  <2>1. sent[c] + 1 = lost + Len(path) + total_packets + 0 + 0
    BY <1>10 DEF PathInv, Conserved
  <2> QED BY <1>1, <1>2, <1>8, <1>10, <1>11, <2>1 DEF Conserved
<1> QED BY <1>1, <1>8, <1>9, <1>12, <1>13 DEF PathInv

\* A datagram that is received has an id above the last one counted: the step
\* is one of NextFifo.
LEMMA ReceiveIsFifo ==
  ASSUME NEW c, Clients = {c}, PathInv(c), Receive
  PROVE  \/ DivideByZero
         \/ path[1] \in 1 .. MaxId /\ path[1] > curr_id /\ Packet(path[1], Len1)
<1>1. path # <<>> /\ discarded
  BY DEF Receive
<1>2. Head(path) = path[1] /\ path[1] \in 0 .. MaxId /\ Len(path) >= 1
  BY <1>1, PathFacts, TailElements
<1>3. 1 \in 1 .. Len(path)
  BY <1>2, PathFacts
<1>4. Floor + 1 <= path[1] /\ Floor = curr_id
  BY <1>1, <1>3 DEF PathInv, Between, Floor
<1>5. path[1] \in 1 .. MaxId /\ path[1] > curr_id
  BY <1>2, <1>4, PathFacts
<1>6. Head(path) # Opening
  BY <1>2, <1>5 DEF Opening
<1> QED BY <1>2, <1>5, <1>6 DEF Receive

LEMMA ReceiveStep ==
  ASSUME NEW c, Clients = {c}, PathInv(c), Receive
  PROVE  PathInv(c)'
<1>1. /\ path # <<>> /\ path' = Tail(path) /\ discarded /\ discarded' = discarded
      /\ sent' = sent /\ lost' = lost /\ exchanged' = exchanged
  BY DEF Receive
<1>2. Head(path) = path[1] /\ path[1] \in 0 .. MaxId /\ Len(path) >= 1
  BY <1>1, PathFacts, TailElements
<1>3. /\ sent[c] \in Int /\ Len(path) \in Int /\ lost \in Int /\ total_packets \in Int
      /\ curr_id \in Nat /\ path[1] \in Int /\ path[1] >= 0
  BY <1>2, PathFacts
<1>4. /\ Floor = curr_id /\ Floor' = curr_id' /\ One(discarded) = 1 /\ One(discarded)' = 1
  BY <1>1 DEF Floor, One
<1>5. 1 \in 1 .. Len(path)
  BY <1>2, <1>3
<1>6. Floor + 1 <= path[1] /\ path[1] + (Len(path) - 1) <= sent[c]
  BY <1>5 DEF PathInv, Between
<1>7. CASE DivideByZero
  <2>1. /\ status = "running" /\ status' = "sigfpe" /\ curr_id' = curr_id
        /\ total_packets' = total_packets
    BY <1>7 DEF DivideByZero, Receiving
  <2>2. TypeOK'
    <3>1. Next
      BY <1>7 DEF Next
    <3> QED BY <3>1, TypeStep DEF PathInv, PathType
  <2>3. Floor' \in Int /\ Floor' <= path[1]
    BY <1>3, <1>4, <1>6, <2>1
  <2>4. /\ path' \in Seq(0 .. MaxId) /\ Len(path') = Len(path) - 1
        /\ Rising' /\ Between(c)'
    BY <1>1, <2>3, TailStep
  <2>5. PathType'
    BY <1>1, <2>2, <2>4 DEF PathInv, PathType
  <2>6. One(status = "sigfpe") = 0 /\ One(status = "sigfpe")' = 1
    BY <2>1 DEF One
  <2>7. Room(c)'
    <3>1. curr_id + Len(path) + 0 <= sent[c]
      BY <1>4, <2>6 DEF PathInv, Room
    <3> QED BY <1>1, <1>3, <1>4, <2>1, <2>4, <2>6, <3>1 DEF Room
  <2>8. Conserved(c)'
    <3>1. sent[c] + 1 = lost + Len(path) + total_packets + 1 + 0
      BY <1>4, <2>6 DEF PathInv, Conserved
    <3>2. sent[c] + 1 = lost + (Len(path) - 1) + total_packets + 1 + 1
      BY <1>3, <3>1
    <3> QED BY <1>1, <1>4, <2>1, <2>4, <2>6, <3>2 DEF Conserved
  <2> QED BY <1>1, <2>4, <2>5, <2>7, <2>8 DEF PathInv
<1>8. CASE path[1] \in 1 .. MaxId /\ path[1] > curr_id /\ Packet(path[1], Len1)
  <2>1. /\ status = "running" /\ status' = status /\ curr_id' = path[1]
        /\ total_packets' = total_packets + 1
    BY <1>8 DEF Packet, CountPacket, ReportInterval, AccountPacket, Receiving
  <2>2. TypeOK'
    <3>1. Next
      BY <1>8, PathAssumption DEF Next
    <3> QED BY <3>1, TypeStep DEF PathInv, PathType
  <2>3. Floor' \in Int /\ Floor' <= path[1]
    BY <1>3, <1>4, <2>1
  <2>4. /\ path' \in Seq(0 .. MaxId) /\ Len(path') = Len(path) - 1
        /\ Rising' /\ Between(c)'
    BY <1>1, <2>3, TailStep
  <2>5. PathType'
    BY <1>1, <2>2, <2>4 DEF PathInv, PathType
  <2>6. One(status = "sigfpe") = 0 /\ One(status = "sigfpe")' = 0
    BY <2>1 DEF One
  <2>7. Room(c)'
    BY <1>1, <1>3, <1>4, <1>6, <2>1, <2>4, <2>6 DEF Room
  <2>8. Conserved(c)'
    <3>1. sent[c] + 1 = lost + Len(path) + total_packets + 1 + 0
      BY <1>4, <2>6 DEF PathInv, Conserved
    <3>2. sent[c] + 1 = lost + (Len(path) - 1) + (total_packets + 1) + 1 + 0
      BY <1>3, <3>1
    <3> QED BY <1>1, <1>4, <2>1, <2>4, <2>6, <3>2 DEF Conserved
  <2> QED BY <1>1, <2>4, <2>5, <2>7, <2>8 DEF PathInv
<1> QED BY <1>7, <1>8, ReceiveIsFifo

\* Nothing the invariant speaks of changes when the clock advances.
LEMMA SamePath ==
  ASSUME NEW c, Clients = {c}, PathInv(c), TypeOK', UNCHANGED pathVars,
         UNCHANGED <<curr_id, status, total_packets>>
  PROVE  PathInv(c)'
BY DEF PathInv, PathType, Rising, Between, Room, Conserved, Floor, One, pathVars

LEMMA PathInvStep ==
  ASSUME NEW c, Clients = {c}, PathInv(c), [PathNext]_allVars
  PROVE  (exchanged' = 0 => PathInv(c)') /\ [NextFifo]_vars
<1>1. CASE Send(c)
  BY <1>1, SendStep DEF Send
<1>2. CASE Lose
  BY <1>2, LoseStep DEF Lose
<1>3. CASE Exchange
  BY <1>3 DEF Exchange, PathInv, PathType
<1>4. CASE Discard
  BY <1>4, DiscardStep DEF Discard
<1>5. CASE Receive
  <2>1. NextFifo
    BY <1>5, ReceiveIsFifo, PathAssumption DEF NextFifo
  <2> QED BY <1>5, <2>1, ReceiveStep
<1>6. CASE Pass
  <2>1. Tick /\ UNCHANGED pathVars
    BY <1>6 DEF Pass
  <2>2. TypeOK'
    BY <2>1, TypeStep DEF Next, PathInv, PathType
  <2> QED BY <2>1, <2>2, SamePath DEF Tick, NextFifo
<1>7. CASE UNCHANGED allVars
  <2>1. UNCHANGED vars /\ UNCHANGED pathVars /\ UNCHANGED <<curr_id, status, total_packets>>
    BY <1>7 DEF allVars, vars, pathVars
  <2>2. TypeOK'
    BY <2>1, TypeStep DEF PathInv, PathType
  <2> QED BY <2>1, <2>2, SamePath
<1> QED BY <1>1, <1>2, <1>3, <1>4, <1>5, <1>6, <1>7 DEF PathNext

(***************************************************************************)
(* A path that has exchanged datagrams: only the types are left.           *)
(***************************************************************************)

IdsInRange ==
  /\ sent \in [Clients -> Unsent .. MaxId]
  /\ path \in Seq(0 .. MaxId)
  /\ exchanged \in Nat

LEMMA IdsStep ==
  ASSUME IdsInRange, [PathNext]_allVars
  PROVE  IdsInRange'
<1>0. MaxId \in Nat
  BY BoundAssumption
<1>1. ASSUME NEW c \in Clients, Send(c) PROVE IdsInRange'
  <2>1. sent[c] \in Unsent .. MaxId /\ Unsent = -1
    BY DEF IdsInRange, Unsent
  <2>2. sent[c] + 1 \in 0 .. MaxId /\ sent[c] + 1 \in Unsent .. MaxId
    BY <1>0, <1>1, <2>1 DEF Send
  <2>3. sent' = [sent EXCEPT ![c] = sent[c] + 1] /\ sent'[c] = sent[c] + 1
    BY <1>1 DEF Send, IdsInRange
  <2>4. path' = Append(path, sent[c] + 1) /\ exchanged' = exchanged
    BY <1>1, <2>3 DEF Send
  <2> QED BY <2>2, <2>3, <2>4 DEF IdsInRange
<1>2. CASE Lose
  <2>1. PICK i \in 1 .. Len(path) : path' = RemoveAt(path, i)
    BY <1>2 DEF Lose
  <2>2. path' \in Seq(0 .. MaxId)
    BY <2>1, RemoveAtElements DEF IdsInRange
  <2> QED BY <1>2, <2>2 DEF Lose, IdsInRange
<1>3. CASE Exchange
  <2>1. PICK i \in 1 .. (Len(path) - 1) :
          path' = [path EXCEPT ![i] = path[i + 1], ![i + 1] = path[i]]
    BY <1>3 DEF Exchange
  <2>2. path' \in Seq(0 .. MaxId)
    BY <2>1, ExchangeElements DEF IdsInRange
  <2> QED BY <1>3, <2>2 DEF Exchange, IdsInRange
<1>4. CASE Discard \/ Receive
  <2>1. path # <<>> /\ path' = Tail(path) /\ sent' = sent /\ exchanged' = exchanged
    BY <1>4 DEF Discard, Receive
  <2> QED BY <2>1, TailElements DEF IdsInRange
<1>5. CASE Pass \/ UNCHANGED allVars
  BY <1>5 DEF Pass, pathVars, allVars, IdsInRange
<1> QED BY <1>1, <1>2, <1>3, <1>4, <1>5 DEF PathNext

LEMMA AnyPathStep ==
  ASSUME IdsInRange, [PathNext]_allVars
  PROVE  [Next]_vars
<1>1. CASE Receive
  <2>1. Head(path) \in 0 .. MaxId
    BY <1>1, TailElements DEF Receive, IdsInRange
  <2> QED BY <1>1, <2>1, PathAssumption DEF Receive, Next
<1>2. CASE Pass
  BY <1>2 DEF Pass, Next
<1>3. CASE Lose \/ Exchange \/ Discard \/ \E c \in Clients : Send(c)
  BY <1>3 DEF Lose, Exchange, Discard, Send
<1>4. CASE UNCHANGED allVars
  BY <1>4 DEF allVars, vars
<1> QED BY <1>1, <1>2, <1>3, <1>4 DEF PathNext

\* An exchange is not forgotten.
LEMMA ExchangedStays ==
  ASSUME IdsInRange, exchanged # 0, [PathNext]_allVars
  PROVE  exchanged' # 0
BY DEF IdsInRange, PathNext, Send, Lose, Exchange, Discard, Receive, Pass, pathVars, allVars

(***************************************************************************)
(* A path that exchanges: the misses already counted and the ones the path *)
(* holds.  The comparison with the previous id fails for a datagram on the *)
(* path unless its predecessor comes right before it; a datagram lost or   *)
(* two exchanged break it for one and for three datagrams.  They are named *)
(* by their ids, so that none is renumbered when one leaves the path.      *)
(* These definitions take the path p, the id b the first datagram will be  *)
(* compared with, the last id s sent and whether the server has discarded  *)
(* its first datagram.                                                     *)
(***************************************************************************)

\* The id at a place on the path; behind the last one the next to be sent.
At(p, s, i) == IF i <= Len(p) THEN p[i] ELSE s + 1

\* The id before it.
Prev(p, b, i) == IF i = 1 THEN b ELSE p[i - 1]

\* The id is not the next one, or the one before it is the opening one, which
\* may be counted with any id unless it is discarded.
BrokenAt(p, b, s, d, i) ==
  \/ Prev(p, b, i) + 1 # At(p, s, i)
  \/ i > 1 /\ p[i - 1] = Opening /\ (d \/ i > 2)

Broken(p, b, s, d) ==
  {At(p, s, i) : i \in {j \in 1 .. (Len(p) + 1) : BrokenAt(p, b, s, d, j)}}

LEMMA BrokenWhere ==
  ASSUME NEW p, NEW b, NEW s, NEW d, NEW i \in 1 .. (Len(p) + 1), BrokenAt(p, b, s, d, i)
  PROVE  At(p, s, i) \in Broken(p, b, s, d)
BY Zenon DEF Broken

LEMMA BrokenPlace ==
  ASSUME NEW p, NEW b, NEW s, NEW d, NEW x \in Broken(p, b, s, d)
  PROVE  \E i \in 1 .. (Len(p) + 1) : BrokenAt(p, b, s, d, i) /\ x = At(p, s, i)
BY Zenon DEF Broken

LEMMA BrokenFinite ==
  ASSUME NEW p \in Seq(0 .. MaxId), NEW b, NEW s \in -1 .. MaxId, NEW d
  PROVE  IsFiniteSet(Broken(p, b, s, d))
<1>1. Broken(p, b, s, d) \subseteq 0 .. (MaxId + 1)
  <2> SUFFICES ASSUME NEW x \in Broken(p, b, s, d) PROVE x \in 0 .. (MaxId + 1)
    OBVIOUS
  <2>1. PICK i \in 1 .. (Len(p) + 1) : x = At(p, s, i)
    BY BrokenPlace
  <2> QED BY <2>1, BoundAssumption, ElementsOf DEF At
<1>2. IsFiniteSet(0 .. (MaxId + 1))
  BY BoundAssumption, FS_Interval
<1> QED BY <1>1, <1>2, FS_Subset, Zenon

\* A datagram with the next id is sent.
LEMMA BrokenBySend ==
  ASSUME NEW p \in Seq(Nat), NEW b \in Int, NEW s \in Int, s >= -1, NEW d \in BOOLEAN,
         s = -1 => p = <<>> /\ ~d
  PROVE  Broken(Append(p, s + 1), b, s + 1, d) \subseteq Broken(p, b, s, d)
<1> DEFINE q == Append(p, s + 1)
<1>1. /\ Len(q) = Len(p) + 1 /\ Len(p) \in Nat /\ q[Len(p) + 1] = s + 1
      /\ \A j \in 1 .. Len(p) : q[j] = p[j]
  OBVIOUS
<1> HIDE DEF q
<1> SUFFICES ASSUME NEW x \in Broken(q, b, s + 1, d) PROVE x \in Broken(p, b, s, d)
  BY DEF q
<1>2. PICK i \in 1 .. (Len(q) + 1) : BrokenAt(q, b, s + 1, d, i) /\ x = At(q, s + 1, i)
  BY BrokenPlace
<1>3. CASE i \in 1 .. (Len(p) + 1)
  <2>1. At(q, s + 1, i) = At(p, s, i)
    BY <1>1, <1>3 DEF At
  <2>2. i > 1 => q[i - 1] = p[i - 1]
    BY <1>1, <1>3
  <2>3. BrokenAt(p, b, s, d, i)
    BY <1>2, <1>3, <2>1, <2>2 DEF BrokenAt, Prev
  <2> QED BY <1>2, <1>3, <2>1, <2>3, BrokenWhere
<1>4. CASE i = Len(p) + 2
  <2>1. At(q, s + 1, i) = s + 2 /\ Prev(q, b, i) = s + 1
    BY <1>1, <1>4 DEF At, Prev
  <2>2. i > 1 /\ q[i - 1] = Opening /\ (d \/ i > 2)
    BY <1>2, <2>1 DEF BrokenAt
  <2>3. s = -1
    BY <1>1, <1>4, <2>2 DEF Opening
  <2> QED BY <1>4, <2>2, <2>3
<1> QED BY <1>1, <1>3, <1>4

\* A datagram is lost: the one behind it may be out of place now.
LEMMA BrokenByLoss ==
  ASSUME NEW p \in Seq(Nat), NEW b \in Int, NEW s \in Int, NEW d \in BOOLEAN,
         NEW k \in 1 .. Len(p)
  PROVE  Broken(RemoveAt(p, k), b, s, d) \subseteq Broken(p, b, s, d) \cup {At(p, s, k + 1)}
<1> DEFINE q == RemoveAt(p, k)
<1>1. /\ Len(q) = Len(p) - 1 /\ Len(p) \in Nat /\ k \in Int
      /\ \A j \in 1 .. (Len(p) - 1) : q[j] = IF j < k THEN p[j] ELSE p[j + 1]
  BY RemoveAtElements
<1> HIDE DEF q
<1> SUFFICES ASSUME NEW x \in Broken(q, b, s, d), x # At(p, s, k + 1)
             PROVE  x \in Broken(p, b, s, d)
  BY DEF q
<1>2. PICK i \in 1 .. (Len(q) + 1) : BrokenAt(q, b, s, d, i) /\ x = At(q, s, i)
  BY BrokenPlace
<1>3. CASE i < k
  <2>1. At(q, s, i) = At(p, s, i) /\ i \in 1 .. (Len(p) + 1)
    BY <1>1, <1>3 DEF At
  <2>2. i > 1 => q[i - 1] = p[i - 1]
    BY <1>1, <1>3
  <2>3. BrokenAt(p, b, s, d, i)
    BY <1>2, <2>1, <2>2 DEF BrokenAt, Prev
  <2> QED BY <1>2, <2>1, <2>3, BrokenWhere
<1>4. CASE i = k
  <2>1. At(q, s, i) = At(p, s, k + 1)
    BY <1>1, <1>4 DEF At
  <2> QED BY <1>2, <2>1
<1>5. CASE i > k
  <2>1. At(q, s, i) = At(p, s, i + 1) /\ i + 1 \in 1 .. (Len(p) + 1)
    BY <1>1, <1>5 DEF At
  <2>2. q[i - 1] = p[(i + 1) - 1]
    BY <1>1, <1>5
  <2>3. BrokenAt(p, b, s, d, i + 1)
    BY <1>2, <1>5, <2>1, <2>2 DEF BrokenAt, Prev
  <2> QED BY <1>2, <2>1, <2>3, BrokenWhere
<1> QED BY <1>1, <1>3, <1>4, <1>5

\* Two neighbours are exchanged: they and the one behind them may be out of
\* place now.
LEMMA BrokenByExchange ==
  ASSUME NEW p \in Seq(Nat), NEW b \in Int, NEW s \in Int, NEW d \in BOOLEAN,
         NEW k \in 1 .. (Len(p) - 1)
  PROVE  Broken([p EXCEPT ![k] = p[k + 1], ![k + 1] = p[k]], b, s, d)
           \subseteq Broken(p, b, s, d) \cup {p[k], p[k + 1], At(p, s, k + 2)}
<1> DEFINE q == [p EXCEPT ![k] = p[k + 1], ![k + 1] = p[k]]
<1>1. /\ Len(q) = Len(p) /\ Len(p) \in Nat /\ k \in Int
      /\ q[k] = p[k + 1] /\ q[k + 1] = p[k]
      /\ \A j \in 1 .. Len(p) : j # k /\ j # k + 1 => q[j] = p[j]
  OBVIOUS
<1> HIDE DEF q
<1> SUFFICES ASSUME NEW x \in Broken(q, b, s, d),
                    x # p[k], x # p[k + 1], x # At(p, s, k + 2)
             PROVE  x \in Broken(p, b, s, d)
  BY DEF q
<1>2. PICK i \in 1 .. (Len(q) + 1) : BrokenAt(q, b, s, d, i) /\ x = At(q, s, i)
  BY BrokenPlace
<1>3. CASE i = k \/ i = k + 1
  <2>1. At(q, s, i) \in {p[k], p[k + 1]}
    BY <1>1, <1>3 DEF At
  <2> QED BY <1>2, <2>1
<1>4. CASE i = k + 2
  <2>1. At(q, s, i) = At(p, s, k + 2)
    BY <1>1, <1>4 DEF At
  <2> QED BY <1>2, <2>1
<1>5. CASE i # k /\ i # k + 1 /\ i # k + 2
  <2>1. At(q, s, i) = At(p, s, i) /\ i \in 1 .. (Len(p) + 1)
    BY <1>1, <1>5 DEF At
  <2>2. i > 1 => q[i - 1] = p[i - 1]
    <3>1. i > 1 => i - 1 \in 1 .. Len(p) /\ i - 1 # k /\ i - 1 # k + 1
      <4>1. Len(q) = Len(p) /\ Len(p) \in Nat /\ k \in Int
        BY <1>1
      <4> QED BY <1>5, <4>1
    <3> QED BY <1>1, <3>1, Zenon
  <2>3. BrokenAt(p, b, s, d, i)
    BY <1>2, <2>1, <2>2 DEF BrokenAt, Prev
  <2> QED BY <1>2, <2>1, <2>3, BrokenWhere
<1> QED BY <1>3, <1>4, <1>5

\* The first datagram is thrown away.  An opening one there is no miss, and its
\* follower is compared with the 0 the server starts from; any other was a miss
\* to come, which its follower may be now.
LEMMA BrokenByDiscard ==
  ASSUME NEW p \in Seq(Nat), NEW s \in Int, p # <<>>,
         NEW d \in BOOLEAN, ~d, NEW e \in BOOLEAN, e,
         \A j \in 1 .. Len(p) : p[j] <= s,
         \A j \in 2 .. Len(p) : p[j] # p[1]
  PROVE  /\ p[1] = 0 => Broken(Tail(p), 0, s, e) \subseteq Broken(p, -1, s, d)
         /\ p[1] # 0 => /\ p[1] \in Broken(p, -1, s, d)
                        /\ Broken(Tail(p), 0, s, e) \subseteq
                             (Broken(p, -1, s, d) \ {p[1]}) \cup {At(p, s, 2)}
<1> DEFINE q == Tail(p)
<1>1. /\ Len(q) = Len(p) - 1 /\ Len(p) \in Nat /\ Len(p) >= 1 /\ p[1] \in Nat
      /\ \A j \in 1 .. (Len(p) - 1) : q[j] = p[j + 1]
  BY TailElements, ElementsOf
<1> HIDE DEF q
<1>2. ASSUME NEW x \in Broken(q, 0, s, e), p[1] = 0 \/ x # At(p, s, 2)
      PROVE  x \in Broken(p, -1, s, d) /\ x # p[1]
  <2>1. PICK i \in 1 .. (Len(q) + 1) : BrokenAt(q, 0, s, e, i) /\ x = At(q, s, i)
    BY <1>2, Zenon DEF Broken
  <2>2. At(q, s, i) = At(p, s, i + 1) /\ i + 1 \in 1 .. (Len(p) + 1)
    BY <1>1 DEF At
  <2>3. BrokenAt(p, -1, s, d, i + 1)
    <3>1. CASE i = 1
      BY <1>1, <1>2, <2>1, <2>2, <3>1 DEF BrokenAt, Prev
    <3>2. CASE i > 1
      <4>1. q[i - 1] = p[(i + 1) - 1]
        BY <1>1, <3>2
      <4> QED BY <1>1, <2>1, <2>2, <3>2, <4>1 DEF BrokenAt, Prev
    <3> QED BY <3>1, <3>2
  <2>4. At(p, s, i + 1) # p[1]
    BY <1>1, <2>2 DEF At
  <2> QED BY <2>1, <2>2, <2>3, <2>4, BrokenWhere
<1>3. p[1] # 0 => p[1] \in Broken(p, -1, s, d)
  <2>1. At(p, s, 1) = p[1] /\ Prev(p, -1, 1) = -1 /\ 1 \in 1 .. (Len(p) + 1)
    BY <1>1 DEF At, Prev
  <2>2. p[1] # 0 => BrokenAt(p, -1, s, d, 1)
    BY <1>1, <2>1 DEF BrokenAt
  <2> QED BY <2>1, <2>2, BrokenWhere
<1> QED BY <1>2, <1>3, Zenon DEF q

\* The first datagram is counted with the id x: one out of place is a miss, an
\* opening one is always out of place, and so is its follower.
LEMMA BrokenByReceive ==
  ASSUME NEW p \in Seq(Nat), NEW b \in Nat, NEW s \in Int, NEW x \in Nat, p # <<>>,
         NEW d \in BOOLEAN, d,
         p[1] # 0 => x = p[1],
         \A j \in 1 .. Len(p) : p[j] <= s,
         \A j \in 2 .. Len(p) : p[j] # p[1]
  PROVE  /\ Broken(Tail(p), x, s, d) \subseteq Broken(p, b, s, d) \ {p[1]}
         /\ p[1] = 0 \/ b + 1 # x => p[1] \in Broken(p, b, s, d)
<1> DEFINE q == Tail(p)
<1>1. /\ Len(q) = Len(p) - 1 /\ Len(p) \in Nat /\ Len(p) >= 1 /\ p[1] \in Nat
      /\ \A j \in 1 .. (Len(p) - 1) : q[j] = p[j + 1]
  BY TailElements, ElementsOf
<1> HIDE DEF q
<1>2. ASSUME NEW y \in Broken(q, x, s, d)
      PROVE  y \in Broken(p, b, s, d) /\ y # p[1]
  <2>1. PICK i \in 1 .. (Len(q) + 1) : BrokenAt(q, x, s, d, i) /\ y = At(q, s, i)
    BY <1>2, Zenon DEF Broken
  <2>2. At(q, s, i) = At(p, s, i + 1) /\ i + 1 \in 1 .. (Len(p) + 1)
    BY <1>1 DEF At
  <2>3. BrokenAt(p, b, s, d, i + 1)
    <3>1. CASE i = 1 /\ p[1] = 0
      BY <3>1 DEF BrokenAt, Opening
    <3>2. CASE i = 1 /\ p[1] # 0
      BY <1>1, <2>1, <2>2, <3>2 DEF BrokenAt, Prev
    <3>3. CASE i > 1
      <4>1. q[i - 1] = p[(i + 1) - 1]
        BY <1>1, <2>1, <3>3
      <4>2. Prev(q, x, i) = Prev(p, b, i + 1)
        BY <3>3, <4>1 DEF Prev
      <4>3. i + 1 > 1 /\ i + 1 > 2
        BY <2>1, <3>3
      <4> QED BY <2>1, <2>2, <4>1, <4>2, <4>3, Zenon DEF BrokenAt
    <3>4. i = 1 \/ i > 1
      BY <1>1
    <3> QED BY <3>1, <3>2, <3>3, <3>4, Zenon
  <2>4. At(p, s, i + 1) # p[1]
    BY <1>1, <2>2 DEF At
  <2> QED BY <2>1, <2>2, <2>3, <2>4, BrokenWhere
<1>3. p[1] = 0 \/ b + 1 # x => p[1] \in Broken(p, b, s, d)
  <2>1. At(p, s, 1) = p[1] /\ Prev(p, b, 1) = b /\ 1 \in 1 .. (Len(p) + 1)
    BY <1>1 DEF At, Prev
  <2>2. p[1] = 0 \/ b + 1 # x => BrokenAt(p, b, s, d, 1)
    BY <1>1, <2>1 DEF BrokenAt
  <2> QED BY <2>1, <2>2, BrokenWhere
<1> QED BY <1>2, <1>3, Zenon DEF q

\* How the number of elements follows.
LEMMA Fewer ==
  ASSUME NEW S, IsFiniteSet(S), NEW T, T \subseteq S
  PROVE  Cardinality(S) \in Nat /\ Cardinality(T) \in Nat /\ Cardinality(T) <= Cardinality(S)
BY FS_Subset, FS_CardinalityType

LEMMA OneMore ==
  ASSUME NEW S, IsFiniteSet(S), NEW x, NEW T, T \subseteq S \cup {x}
  PROVE  Cardinality(S) \in Nat /\ Cardinality(T) \in Nat /\ Cardinality(T) <= Cardinality(S) + 1
<1>1. /\ Cardinality(S) \in Nat /\ IsFiniteSet(S \cup {x})
      /\ Cardinality(S \cup {x}) <= Cardinality(S) + 1
  <2>1. Cardinality(S) \in Nat
    BY FS_CardinalityType
  <2>2. /\ IsFiniteSet(S \cup {x})
        /\ Cardinality(S \cup {x}) = Cardinality(S) \/ Cardinality(S \cup {x}) = Cardinality(S) + 1
    BY FS_AddElement
  <2> QED BY <2>1, <2>2
<1>2. /\ Cardinality(T) <= Cardinality(S \cup {x})
      /\ Cardinality(T) \in Nat /\ Cardinality(S \cup {x}) \in Nat
  BY <1>1, Fewer, Zenon
<1> QED BY <1>1, <1>2

LEMMA ThreeMore ==
  ASSUME NEW S, IsFiniteSet(S), NEW x, NEW y, NEW z, NEW T, T \subseteq S \cup {x, y, z}
  PROVE  Cardinality(S) \in Nat /\ Cardinality(T) \in Nat /\ Cardinality(T) <= Cardinality(S) + 3
<1> DEFINE A == S \cup {x}
           B == A \cup {y}
<1>1. /\ IsFiniteSet(A) /\ Cardinality(S) \in Nat /\ Cardinality(A) \in Nat
      /\ Cardinality(A) <= Cardinality(S) + 1
  BY OneMore, FS_AddElement
<1>2. IsFiniteSet(B) /\ Cardinality(B) \in Nat /\ Cardinality(B) <= Cardinality(A) + 1
  BY <1>1, OneMore, FS_AddElement
<1>3. T \subseteq B \cup {z}
  OBVIOUS
<1> HIDE DEF A, B
<1>4. Cardinality(T) \in Nat /\ Cardinality(T) <= Cardinality(B) + 1
  BY <1>2, <1>3, OneMore
<1> QED BY <1>1, <1>2, <1>4

LEMMA OneLess ==
  ASSUME NEW S, IsFiniteSet(S), NEW x \in S, NEW T, T \subseteq S \ {x}
  PROVE  Cardinality(S) \in Nat /\ Cardinality(T) \in Nat /\ Cardinality(T) + 1 <= Cardinality(S)
<1>1. /\ Cardinality(S) \in Nat /\ IsFiniteSet(S \ {x})
      /\ Cardinality(S \ {x}) = Cardinality(S) - 1
  BY FS_CardinalityType, FS_RemoveElement
<1>2. Cardinality(T) \in Nat /\ Cardinality(T) <= Cardinality(S \ {x})
  BY <1>1, Fewer, Zenon
<1> QED BY <1>1, <1>2

LEMMA OneForAnother ==
  ASSUME NEW S, IsFiniteSet(S), NEW x \in S, NEW y, NEW T, T \subseteq (S \ {x}) \cup {y}
  PROVE  Cardinality(S) \in Nat /\ Cardinality(T) \in Nat /\ Cardinality(T) <= Cardinality(S)
<1>1. /\ Cardinality(S) \in Nat /\ IsFiniteSet(S \ {x})
      /\ Cardinality(S \ {x}) = Cardinality(S) - 1
  BY FS_CardinalityType, FS_RemoveElement
<1>2. Cardinality(T) \in Nat /\ Cardinality(T) <= Cardinality(S \ {x}) + 1
  BY <1>1, OneMore, Zenon
<1> QED BY <1>1, <1>2

(***************************************************************************)
(* The inductive invariant of a path that exchanges.  Every loss and every *)
(* exchange pays for the misses it may cause when it happens: the misses   *)
(* counted and the ones the path holds together never exceed what the      *)
(* history has paid for.                                                   *)
(***************************************************************************)

ExchangeType ==
  /\ TypeOK
  /\ IdsInRange
  /\ lost \in Nat
  /\ discarded \in BOOLEAN

\* Every id is on the path once, and none was sent that the client has not
\* reached.
Numbered(c) ==
  /\ \A i, j \in 1 .. Len(path) : path[i] = path[j] => i = j
  /\ \A i \in 1 .. Len(path) : path[i] <= sent[c]
  /\ sent[c] = Unsent => ~discarded

OnPath(c) == Broken(path, Floor, sent[c], discarded)

Paid == lost + 3 * exchanged

Explained(c) ==
  /\ missing_packets <= Paid
  /\ status = "running" => missing_packets + Cardinality(OnPath(c)) <= Paid

ExchangeInv(c) ==
  /\ ExchangeType
  /\ Numbered(c)
  /\ ~discarded => curr_id = 0 /\ status = "running"
  /\ Explained(c)

LEMMA ExchangeFacts ==
  ASSUME NEW c, Clients = {c}, ExchangeInv(c)
  PROVE  /\ sent[c] \in -1 .. MaxId /\ sent[c] \in Int /\ sent[c] >= -1 /\ MaxId \in Nat
         /\ path \in Seq(0 .. MaxId) /\ path \in Seq(Nat) /\ Len(path) \in Nat
         /\ curr_id \in Nat /\ Floor \in Int
         /\ lost \in Nat /\ exchanged \in Nat /\ missing_packets \in Nat
         /\ Paid \in Nat
         /\ IsFiniteSet(OnPath(c)) /\ Cardinality(OnPath(c)) \in Nat
<1>1. MaxId \in Nat
  BY BoundAssumption
<1>2. sent[c] \in -1 .. MaxId
  BY DEF ExchangeInv, ExchangeType, IdsInRange, Unsent
<1>3. path \in Seq(0 .. MaxId) /\ Len(path) \in Nat
  BY DEF ExchangeInv, ExchangeType, IdsInRange
<1>4. path \in Seq(Nat)
  <2>1. \A i \in 1 .. Len(path) : path[i] \in Nat
    BY <1>1, <1>3, ElementsOf
  <2> QED BY <1>3, <2>1
<1>5. /\ curr_id \in Nat /\ missing_packets \in Nat /\ lost \in Nat /\ exchanged \in Nat
  BY <1>1 DEF ExchangeInv, ExchangeType, IdsInRange, TypeOK
<1>6. Floor \in Int
  BY <1>5 DEF Floor, Unsent
<1>7. Paid \in Nat
  BY <1>5 DEF Paid
<1>8. IsFiniteSet(OnPath(c))
  BY <1>2, <1>3, BrokenFinite DEF OnPath
<1>9. Cardinality(OnPath(c)) \in Nat
  BY <1>8, FS_CardinalityType
<1> QED BY <1>1, <1>2, <1>3, <1>4, <1>5, <1>6, <1>7, <1>8, <1>9

LEMMA ExchangeInit ==
  ASSUME NEW c, Clients = {c}, PathInit
  PROVE  ExchangeInv(c)
<1>1. TypeOK
  BY InvInit DEF PathInit, Inv
<1>2. /\ sent = [d \in {c} |-> -1] /\ path = <<>> /\ lost = 0
      /\ exchanged = 0 /\ discarded = FALSE
      /\ curr_id = 0 /\ missing_packets = 0 /\ status = "running"
  BY DEF PathInit, Init, Unsent
<1>3. MaxId \in Nat /\ sent[c] = -1 /\ Len(path) = 0 /\ path \in Seq(0 .. MaxId)
  BY <1>2, BoundAssumption
<1>4. ExchangeType
  <2>1. discarded \in BOOLEAN
    BY <1>2, Zenon
  <2>2. IdsInRange /\ lost \in Nat
    BY <1>2, <1>3 DEF IdsInRange, Unsent
  <2> QED BY <1>1, <2>1, <2>2, Zenon DEF ExchangeType
<1>5. Numbered(c)
  BY <1>2, <1>3 DEF Numbered
<1>6. OnPath(c) = {}
  <2>1. ASSUME NEW i \in 1 .. (Len(path) + 1)
        PROVE  ~BrokenAt(path, Floor, sent[c], discarded, i)
    <3>1. i = 1
      BY <1>3
    <3>2. Floor = -1
      BY <1>2 DEF Floor, Unsent
    <3>3. Prev(path, Floor, i) = -1 /\ At(path, sent[c], i) = 0
      BY <1>3, <3>1, <3>2 DEF Prev, At
    <3> QED BY <3>1, <3>3 DEF BrokenAt
  <2> QED BY <2>1, Zenon DEF OnPath, Broken
<1>7. Paid = 0 /\ Cardinality(OnPath(c)) = 0
  BY <1>2, <1>6, FS_EmptySet DEF Paid
<1>8. Explained(c)
  BY <1>2, <1>7 DEF Explained
<1> QED BY <1>2, <1>4, <1>5, <1>8 DEF ExchangeInv

\* The steps of the path, which count nothing: what is left to show.
LEMMA CountedStays ==
  ASSUME NEW c, Clients = {c}, ExchangeInv(c), UNCHANGED vars
  PROVE  /\ curr_id' = curr_id /\ status' = status /\ missing_packets' = missing_packets
         /\ discarded' = discarded => Floor' = Floor
BY DEF vars, Floor

\* What is paid for n more of them is enough for n more of them.
LEMMA BudgetGrows ==
  ASSUME NEW c, Clients = {c}, ExchangeInv(c), UNCHANGED vars, NEW n \in Nat,
         Paid' = Paid + n, Cardinality(OnPath(c)') \in Nat,
         Cardinality(OnPath(c)') <= Cardinality(OnPath(c)) + n
  PROVE  Explained(c)'
<1>1. /\ missing_packets <= Paid
      /\ status = "running" => missing_packets + Cardinality(OnPath(c)) <= Paid
  BY DEF ExchangeInv, Explained
<1>2. missing_packets \in Nat /\ Paid \in Nat /\ Cardinality(OnPath(c)) \in Nat
  BY ExchangeFacts
<1>3. missing_packets' = missing_packets /\ status' = status
  BY CountedStays
<1>4. missing_packets <= Paid + n
  BY <1>1, <1>2
<1>5. status = "running" => missing_packets + Cardinality(OnPath(c)') <= Paid + n
  BY <1>1, <1>2
<1> QED BY <1>3, <1>4, <1>5 DEF Explained

LEMMA ExchangeSend ==
  ASSUME NEW c, Clients = {c}, ExchangeInv(c), Send(c)
  PROVE  Numbered(c)' /\ Explained(c)'
<1>1. /\ sent' = [sent EXCEPT ![c] = @ + 1] /\ path' = Append(path, sent'[c])
      /\ lost' = lost /\ exchanged' = exchanged /\ discarded' = discarded /\ UNCHANGED vars
  BY DEF Send
<1>2. sent'[c] = sent[c] + 1
  BY <1>1 DEF ExchangeInv, ExchangeType, IdsInRange
<1>3. /\ Len(path') = Len(path) + 1 /\ path'[Len(path) + 1] = sent[c] + 1
      /\ \A i \in 1 .. Len(path) : path'[i] = path[i] /\ path[i] \in Nat
  <2>1. path \in Seq(Nat) /\ sent[c] \in Int
    BY ExchangeFacts
  <2>2. path' = Append(path, sent[c] + 1)
    BY <1>1, <1>2
  <2> QED BY <2>1, <2>2
<1>4. /\ \A i, j \in 1 .. Len(path) : path[i] = path[j] => i = j
      /\ \A i \in 1 .. Len(path) : path[i] <= sent[c]
      /\ sent[c] = -1 => ~discarded
  BY DEF ExchangeInv, Numbered, Unsent
<1>5. Len(path) \in Nat /\ sent[c] \in Int /\ sent[c] >= -1
  BY ExchangeFacts
<1>6. Numbered(c)'
  <2>1. ASSUME NEW i \in 1 .. (Len(path) + 1), NEW j \in 1 .. (Len(path) + 1),
               path'[i] = path'[j]
        PROVE  i = j
    BY <1>3, <1>4, <1>5, <2>1
  <2>2. ASSUME NEW i \in 1 .. (Len(path) + 1)
        PROVE  path'[i] <= sent'[c]
    BY <1>2, <1>3, <1>4, <1>5
  <2>3. sent'[c] # Unsent
    BY <1>2, <1>5 DEF Unsent
  <2> QED BY <1>3, <2>1, <2>2, <2>3 DEF Numbered
<1>7. sent[c] = -1 => path = <<>> /\ ~discarded
  <2>1. sent[c] = -1 => Len(path) = 0
    BY <1>3, <1>4, <1>5
  <2> QED BY <1>4, <2>1, ExchangeFacts
<1>8. OnPath(c)' \subseteq OnPath(c)
  <2>1. Broken(Append(path, sent[c] + 1), Floor, sent[c] + 1, discarded)
          \subseteq Broken(path, Floor, sent[c], discarded)
    BY <1>5, <1>7, ExchangeFacts, BrokenBySend DEF ExchangeInv, ExchangeType
  <2> QED BY <1>1, <1>2, <2>1, CountedStays DEF OnPath
<1>9. Cardinality(OnPath(c)') \in Nat /\ Cardinality(OnPath(c)') <= Cardinality(OnPath(c)) + 0
  <2>1. /\ Cardinality(OnPath(c)) \in Nat /\ Cardinality(OnPath(c)') \in Nat
        /\ Cardinality(OnPath(c)') <= Cardinality(OnPath(c))
    BY <1>8, ExchangeFacts, Fewer
  <2> QED BY <2>1
<1>10. Paid' = Paid + 0
  BY <1>1, ExchangeFacts DEF Paid
<1>11. Explained(c)'
  <2>1. 0 \in Nat
    OBVIOUS
  <2> QED BY <1>1, <1>9, <1>10, <2>1, BudgetGrows, Zenon
<1> QED BY <1>6, <1>11

LEMMA ExchangeLose ==
  ASSUME NEW c, Clients = {c}, ExchangeInv(c), Lose
  PROVE  Numbered(c)' /\ Explained(c)'
<1>1. PICK k \in 1 .. Len(path) : path' = RemoveAt(path, k)
  BY DEF Lose
<1>2. /\ lost' = lost + 1 /\ sent' = sent
      /\ exchanged' = exchanged /\ discarded' = discarded /\ UNCHANGED vars
  BY DEF Lose
<1>3. /\ Len(path') = Len(path) - 1 /\ Len(path) \in Nat /\ k \in Int
      /\ \A j \in 1 .. (Len(path) - 1) : path'[j] = IF j < k THEN path[j] ELSE path[j + 1]
  <2>1. path \in Seq(Nat) /\ Len(path) \in Nat
    BY ExchangeFacts
  <2>2. /\ Len(RemoveAt(path, k)) = Len(path) - 1
        /\ \A j \in 1 .. (Len(path) - 1) :
             RemoveAt(path, k)[j] = IF j < k THEN path[j] ELSE path[j + 1]
    BY <2>1, RemoveAtElements
  <2> QED BY <1>1, <2>1, <2>2
<1>4. Numbered(c)'
  <2>1. /\ \A i, j \in 1 .. Len(path) : path[i] = path[j] => i = j
        /\ \A i \in 1 .. Len(path) : path[i] <= sent[c]
        /\ sent[c] = Unsent => ~discarded
    BY DEF ExchangeInv, Numbered
  <2>2. ASSUME NEW i \in 1 .. (Len(path) - 1), NEW j \in 1 .. (Len(path) - 1),
               path'[i] = path'[j]
        PROVE  i = j
    BY <1>3, <2>1, <2>2
  <2>3. ASSUME NEW i \in 1 .. (Len(path) - 1)
        PROVE  path'[i] <= sent[c]
    BY <1>3, <2>1
  <2> QED BY <1>2, <1>3, <2>1, <2>2, <2>3 DEF Numbered
<1>5. OnPath(c)' \subseteq OnPath(c) \cup {At(path, sent[c], k + 1)}
  <2>1. Broken(RemoveAt(path, k), Floor, sent[c], discarded)
          \subseteq Broken(path, Floor, sent[c], discarded) \cup {At(path, sent[c], k + 1)}
    BY ExchangeFacts, BrokenByLoss DEF ExchangeInv, ExchangeType
  <2> QED BY <1>1, <1>2, <2>1, CountedStays DEF OnPath
<1>6. /\ Cardinality(OnPath(c)') \in Nat
      /\ Cardinality(OnPath(c)') <= Cardinality(OnPath(c)) + 1
  BY <1>5, ExchangeFacts, OneMore
<1>7. Paid' = Paid + 1
  <2>1. lost \in Nat /\ exchanged \in Nat
    BY ExchangeFacts
  <2> QED BY <1>2, <2>1 DEF Paid
<1> QED BY <1>2, <1>4, <1>6, <1>7, BudgetGrows

LEMMA ExchangeExchange ==
  ASSUME NEW c, Clients = {c}, ExchangeInv(c), Exchange
  PROVE  Numbered(c)' /\ Explained(c)'
<1>1. PICK k \in 1 .. (Len(path) - 1) :
        path' = [path EXCEPT ![k] = path[k + 1], ![k + 1] = path[k]]
  BY DEF Exchange
<1>2. /\ exchanged' = exchanged + 1 /\ sent' = sent
      /\ lost' = lost /\ discarded' = discarded /\ UNCHANGED vars
  BY DEF Exchange
<1>3. /\ Len(path') = Len(path) /\ Len(path) \in Nat /\ k \in Int
      /\ path'[k] = path[k + 1] /\ path'[k + 1] = path[k]
      /\ \A j \in 1 .. Len(path) : j # k /\ j # k + 1 => path'[j] = path[j]
  <2>1. path \in Seq(Nat) /\ Len(path) \in Nat
    BY ExchangeFacts
  <2> QED BY <1>1, <2>1
<1>4. Numbered(c)'
  <2>1. /\ \A i, j \in 1 .. Len(path) : path[i] = path[j] => i = j
        /\ \A i \in 1 .. Len(path) : path[i] <= sent[c]
        /\ sent[c] = Unsent => ~discarded
    BY DEF ExchangeInv, Numbered
  <2>2. ASSUME NEW i \in 1 .. Len(path), NEW j \in 1 .. Len(path), path'[i] = path'[j]
        PROVE  i = j
    BY <1>3, <2>1, <2>2
  <2>3. ASSUME NEW i \in 1 .. Len(path)
        PROVE  path'[i] <= sent[c]
    BY <1>3, <2>1
  <2> QED BY <1>2, <1>3, <2>1, <2>2, <2>3 DEF Numbered
<1>5. OnPath(c)' \subseteq OnPath(c) \cup {path[k], path[k + 1], At(path, sent[c], k + 2)}
  <2>1. Broken([path EXCEPT ![k] = path[k + 1], ![k + 1] = path[k]],
               Floor, sent[c], discarded)
          \subseteq Broken(path, Floor, sent[c], discarded)
                      \cup {path[k], path[k + 1], At(path, sent[c], k + 2)}
    BY ExchangeFacts, BrokenByExchange DEF ExchangeInv, ExchangeType
  <2> QED BY <1>1, <1>2, <2>1, CountedStays DEF OnPath
<1>6. /\ Cardinality(OnPath(c)') \in Nat
      /\ Cardinality(OnPath(c)') <= Cardinality(OnPath(c)) + 3
  BY <1>5, ExchangeFacts, ThreeMore
<1>7. Paid' = Paid + 3
  <2>1. lost \in Nat /\ exchanged \in Nat
    BY ExchangeFacts
  <2> QED BY <1>2, <2>1 DEF Paid
<1> QED BY <1>2, <1>4, <1>6, <1>7, BudgetGrows

\* The first datagram leaves the path: its id was there once, and the others stay
\* numbered.
LEMMA FirstLeaves ==
  ASSUME NEW c, Clients = {c}, ExchangeInv(c), path # <<>>, path' = Tail(path), sent' = sent
  PROVE  /\ Head(path) = path[1] /\ path[1] \in 0 .. MaxId /\ path[1] \in Nat
         /\ \A j \in 2 .. Len(path) : path[j] # path[1]
         /\ \A j \in 1 .. Len(path) : path[j] <= sent[c]
         /\ Numbered(c)'
<1>1. /\ Len(path') = Len(path) - 1 /\ Len(path) \in Nat /\ Len(path) >= 1
      /\ Head(path) = path[1] /\ path[1] \in 0 .. MaxId
      /\ \A j \in 1 .. (Len(path) - 1) : path'[j] = path[j + 1]
  <2>1. path \in Seq(0 .. MaxId) /\ Len(path) \in Nat
    BY ExchangeFacts
  <2>2. /\ Len(Tail(path)) = Len(path) - 1 /\ Len(path) >= 1
        /\ Head(path) = path[1] /\ Head(path) \in 0 .. MaxId
        /\ \A j \in 1 .. (Len(path) - 1) : Tail(path)[j] = path[j + 1]
    BY <2>1, TailElements, Zenon
  <2> QED BY <2>1, <2>2
<1>2. /\ \A i, j \in 1 .. Len(path) : path[i] = path[j] => i = j
      /\ \A i \in 1 .. Len(path) : path[i] <= sent[c]
      /\ sent[c] = Unsent => ~discarded
  BY DEF ExchangeInv, Numbered
<1>3. \A j \in 2 .. Len(path) : path[j] # path[1]
  BY <1>1, <1>2
<1>4. path[1] \in Nat
  BY <1>1, BoundAssumption
<1>5. sent[c] # Unsent
  <2>1. sent[c] \in Int /\ 1 \in 1 .. Len(path)
    BY <1>1, ExchangeFacts
  <2> QED BY <1>2, <1>4, <2>1 DEF Unsent
<1>6. Numbered(c)'
  <2>1. ASSUME NEW i \in 1 .. (Len(path) - 1), NEW j \in 1 .. (Len(path) - 1),
               path'[i] = path'[j]
        PROVE  i = j
    BY <1>1, <1>2, <2>1
  <2>2. ASSUME NEW i \in 1 .. (Len(path) - 1)
        PROVE  path'[i] <= sent[c]
    BY <1>1, <1>2
  <2> QED BY <1>1, <1>5, <2>1, <2>2 DEF Numbered
<1> QED BY <1>1, <1>2, <1>3, <1>4, <1>6

LEMMA ExchangeDiscard ==
  ASSUME NEW c, Clients = {c}, ExchangeInv(c), Discard
  PROVE  Numbered(c)' /\ Explained(c)'
<1>1. /\ ~discarded /\ discarded' = TRUE /\ path # <<>> /\ path' = Tail(path)
      /\ sent' = sent /\ lost' = lost /\ exchanged' = exchanged /\ UNCHANGED vars
  BY DEF Discard
<1>2. /\ curr_id = 0 /\ curr_id' = 0 /\ Floor = -1 /\ Floor' = 0
  BY <1>1, CountedStays DEF ExchangeInv, Floor, Unsent
<1>3. discarded \in BOOLEAN /\ discarded' \in BOOLEAN /\ discarded'
  BY <1>1, Zenon DEF ExchangeInv, ExchangeType
<1> DEFINE old == Broken(path, -1, sent[c], discarded)
           new == Broken(Tail(path), 0, sent[c], discarded')
<1>4. /\ path[1] = 0 => new \subseteq old
      /\ path[1] # 0 => /\ path[1] \in old
                        /\ new \subseteq (old \ {path[1]}) \cup {At(path, sent[c], 2)}
  <2>1. /\ path \in Seq(Nat) /\ sent[c] \in Int
        /\ \A j \in 1 .. Len(path) : path[j] <= sent[c]
        /\ \A j \in 2 .. Len(path) : path[j] # path[1]
    BY <1>1, ExchangeFacts, FirstLeaves
  <2> QED BY <1>1, <1>3, <2>1, BrokenByDiscard
<1>5. old = OnPath(c) /\ new = OnPath(c)'
  BY <1>1, <1>2 DEF OnPath
<1> HIDE DEF old, new
<1>6. Cardinality(new) \in Nat /\ Cardinality(old) \in Nat /\ Cardinality(new) <= Cardinality(old)
  <2>1. IsFiniteSet(old)
    BY <1>5, ExchangeFacts
  <2>2. CASE path[1] = 0
    BY <1>4, <2>1, <2>2, Fewer
  <2>3. CASE path[1] # 0
    BY <1>4, <2>1, <2>3, OneForAnother
  <2> QED BY <2>2, <2>3
<1>7. /\ Cardinality(OnPath(c)') \in Nat
      /\ Cardinality(OnPath(c)') <= Cardinality(OnPath(c)) + 0
  <2>1. Cardinality(new) <= Cardinality(old) + 0
    BY <1>6
  <2> QED BY <1>5, <1>6, <2>1
<1>8. Paid' = Paid + 0
  BY <1>1, ExchangeFacts DEF Paid
<1>9. Explained(c)'
  <2>1. 0 \in Nat
    OBVIOUS
  <2> QED BY <1>1, <1>7, <1>8, <2>1, BudgetGrows, Zenon
<1> QED BY <1>1, <1>9, FirstLeaves

LEMMA ExchangeReceive ==
  ASSUME NEW c, Clients = {c}, ExchangeInv(c), \A len \in Lens : HeaderLen <= len, Receive
  PROVE  Numbered(c)' /\ Explained(c)'
<1>1. /\ discarded /\ discarded' = discarded /\ path # <<>> /\ path' = Tail(path)
      /\ sent' = sent /\ lost' = lost /\ exchanged' = exchanged
  BY DEF Receive
<1>2. Paid' = Paid /\ Paid \in Nat /\ missing_packets \in Nat
  BY <1>1, ExchangeFacts DEF Paid
<1>3. /\ Numbered(c)' /\ path[1] \in Nat /\ Head(path) = path[1]
      /\ \A j \in 2 .. Len(path) : path[j] # path[1]
      /\ \A j \in 1 .. Len(path) : path[j] <= sent[c]
  BY <1>1, FirstLeaves
<1>4. CASE DivideByZero
  <2>1. status' = "sigfpe" /\ missing_packets' = missing_packets
    BY <1>4 DEF DivideByZero
  <2> QED BY <1>2, <1>3, <2>1 DEF ExchangeInv, Explained
<1>5. CASE \E x \in 0 .. MaxId : (path[1] # 0 => x = path[1]) /\ Packet(x, Len1)
  <2>1. PICK x \in 0 .. MaxId : (path[1] # 0 => x = path[1]) /\ Packet(x, Len1)
    BY <1>5
  <2>2. /\ status = "running" /\ status' = status /\ curr_id' = x
        /\ missing_packets' = missing_packets + (IF IsShort(Len1) THEN 1 ELSE 0)
                                              + (IF IsGap(x) THEN 1 ELSE 0)
    BY <2>1 DEF Packet, CountPacket, ReportInterval, AccountPacket, Receiving
  <2>3. ~IsShort(Len1)
    BY PathAssumption, LengthAssumption DEF IsShort
  <2>4. missing_packets' = missing_packets + (IF curr_id + 1 # x THEN 1 ELSE 0)
    BY <1>2, <2>2, <2>3 DEF IsGap
  <2> DEFINE old == Broken(path, curr_id, sent[c], discarded)
             new == Broken(Tail(path), x, sent[c], discarded)
  <2>5. /\ new \subseteq old \ {path[1]}
        /\ path[1] = 0 \/ curr_id + 1 # x => path[1] \in old
    <3>1. /\ path \in Seq(Nat) /\ sent[c] \in Int /\ curr_id \in Nat
          /\ x \in Nat /\ discarded \in BOOLEAN
      BY BoundAssumption, ExchangeFacts DEF ExchangeInv, ExchangeType
    <3> QED BY <1>1, <1>3, <2>1, <3>1, BrokenByReceive
  <2>6. old = OnPath(c) /\ new = OnPath(c)'
    <3>1. Floor = curr_id /\ Floor' = x
      BY <1>1, <2>2 DEF Floor
    <3> QED BY <1>1, <3>1 DEF OnPath
  <2>7. IsFiniteSet(old) /\ Cardinality(old) \in Nat
    BY <2>6, ExchangeFacts
  <2>8. missing_packets + Cardinality(old) <= Paid
    BY <2>2, <2>6 DEF ExchangeInv, Explained
  <2> HIDE DEF old, new
  <2>9. /\ Cardinality(new) \in Nat
        /\ Cardinality(new) + (IF curr_id + 1 # x THEN 1 ELSE 0) <= Cardinality(old)
    <3>1. CASE curr_id + 1 # x
      <4>1. path[1] \in old
        BY <2>5, <3>1
      <4> QED BY <2>5, <2>7, <3>1, <4>1, OneLess
    <3>2. CASE curr_id + 1 = x
      <4>1. new \subseteq old
        BY <2>5
      <4> QED BY <2>7, <3>2, <4>1, Fewer
    <3> QED BY <3>1, <3>2
  <2>10. missing_packets' + Cardinality(new) <= Paid /\ missing_packets' <= Paid
    BY <1>2, <2>4, <2>7, <2>8, <2>9
  <2> QED BY <1>2, <1>3, <2>6, <2>10 DEF Explained
<1>6. \/ DivideByZero
      \/ \E x \in 0 .. MaxId : (path[1] # 0 => x = path[1]) /\ Packet(x, Len1)
  <2>1. path[1] \in 0 .. MaxId
    BY <1>1, FirstLeaves
  <2> QED BY <1>3, <2>1, Zenon DEF Receive, Opening
<1> QED BY <1>4, <1>5, <1>6

LEMMA ExchangeTypeStep ==
  ASSUME ExchangeType, [PathNext]_allVars
  PROVE  ExchangeType'
<1>1. TypeOK'
  BY AnyPathStep, TypeStep DEF ExchangeType
<1>2. IdsInRange'
  BY IdsStep DEF ExchangeType
<1>3. lost' \in Nat
  BY DEF ExchangeType, PathNext, Send, Lose, Exchange, Discard, Receive, Pass, pathVars, allVars
<1>4. discarded' \in BOOLEAN
  BY Zenon
     DEF ExchangeType, PathNext, Send, Lose, Exchange, Discard, Receive, Pass, pathVars, allVars
<1> QED BY <1>1, <1>2, <1>3, <1>4 DEF ExchangeType

\* Nothing is counted before the first datagram is discarded.
LEMMA BeforeDiscard ==
  ASSUME ~discarded => curr_id = 0 /\ status = "running", [PathNext]_allVars
  PROVE  (~discarded => curr_id = 0 /\ status = "running")'
BY DEF PathNext, Send, Lose, Exchange, Discard, Receive, Pass, Tick, pathVars, allVars, vars

LEMMA ExchangeStep ==
  ASSUME NEW c, Clients = {c}, ExchangeInv(c), \A len \in Lens : HeaderLen <= len,
         [PathNext]_allVars
  PROVE  ExchangeInv(c)'
<1>1. ExchangeType' /\ (~discarded => curr_id = 0 /\ status = "running")'
  BY ExchangeTypeStep, BeforeDiscard DEF ExchangeInv
<1>2. CASE Pass \/ UNCHANGED allVars
  <2>1. UNCHANGED pathVars /\ UNCHANGED <<status, curr_id, missing_packets>>
    BY <1>2 DEF Pass, Tick, allVars, pathVars
  <2>2. Numbered(c)' /\ Explained(c)'
    BY <2>1 DEF ExchangeInv, Numbered, Explained, OnPath, Floor, Paid, pathVars
  <2> QED BY <1>1, <2>2 DEF ExchangeInv
<1>3. CASE Send(c) \/ Lose \/ Exchange \/ Discard \/ Receive
  <2>1. Numbered(c)' /\ Explained(c)'
    BY <1>3, ExchangeSend, ExchangeLose, ExchangeExchange, ExchangeDiscard, ExchangeReceive
  <2> QED BY <1>1, <2>1 DEF ExchangeInv
<1> QED BY <1>2, <1>3 DEF PathNext

(***************************************************************************)
(* Results                                                                 *)
(***************************************************************************)

\* The client's numbering, a path that loses, and the discarded first datagram
\* implement the ordered network of StreamStats until two datagrams are
\* exchanged, and its arbitrary one from then on.
THEOREM Refinement ==
  ASSUME NEW c, Clients = {c}
  PROVE  PathSpec => ImplementsStreamStats
<1> DEFINE IInv == IdsInRange /\ (exchanged = 0 => PathInv(c))
<1>1. PathInit => Init /\ IInv
  BY PathInvInit DEF PathInit, PathInv, PathType, IdsInRange
<1>2. IInv /\ [PathNext]_allVars =>
        IInv' /\ [IF exchanged = 0 THEN NextFifo ELSE Next]_vars
  <2> SUFFICES ASSUME IInv, [PathNext]_allVars
               PROVE  IInv' /\ [IF exchanged = 0 THEN NextFifo ELSE Next]_vars
    OBVIOUS
  <2>1. IdsInRange' /\ [Next]_vars
    BY IdsStep, AnyPathStep
  <2>2. CASE exchanged = 0
    BY <2>1, <2>2, PathInvStep
  <2>3. CASE exchanged # 0
    <3>1. exchanged' # 0
      BY <2>3, ExchangedStays
    <3> QED BY <2>1, <2>3, <3>1
  <2> QED BY <2>2, <2>3
<1> QED BY <1>1, <1>2, PTL DEF PathSpec, ImplementsStreamStats

\* From end to end: the server counts no more misses than datagrams were lost.
THEOREM LossReal ==
  ASSUME NEW c, Clients = {c}, MaxExchanges = 0,
         \A len \in Lens : HeaderLen <= len
  PROVE  PathSpec => []LossIsReal
<1>1. PathInit => PathInv(c)
  BY PathInvInit
<1>2. PathInv(c) /\ [PathNext]_allVars => PathInv(c)' /\ [NextFifo]_vars
  <2>1. PathInv(c) /\ [PathNext]_allVars => exchanged' = 0
    BY DEF PathInv, PathType, PathNext, Send, Lose, Exchange, Discard, Receive, Pass,
       pathVars, allVars
  <2> QED BY <2>1, PathInvStep
<1>3. PathSpec => []LossNotOverstated
  <2>1. PathInit => Init
    BY DEF PathInit
  <2>2. PathSpec => SpecFifo
    BY <1>1, <1>2, <2>1, PTL DEF PathSpec, SpecFifo
  <2> QED BY <2>2, LossIsNotOverstated, PTL
<1>4. PathInv(c) /\ LossNotOverstated => LossIsReal
  <2> SUFFICES ASSUME PathInv(c), LossNotOverstated
               PROVE  LossIsReal
    OBVIOUS
  <2>1. /\ sent[c] \in Int /\ Len(path) \in Nat /\ lost \in Nat /\ total_packets \in Nat
        /\ curr_id \in Nat /\ missing_packets \in Nat
    BY PathFacts DEF PathInv, PathType, TypeOK
  <2>2. missing_packets <= curr_id - total_packets
    BY DEF LossNotOverstated
  <2>3. CASE discarded
    <3> DEFINE e == One(status = "sigfpe")
    <3>1. e \in Int
      BY PathFacts
    <3>2. sent[c] + 1 = lost + Len(path) + total_packets + 1 + e
      BY <2>3 DEF PathInv, Conserved, One
    <3>3. curr_id + Len(path) + e <= sent[c]
      BY <2>3 DEF PathInv, Room, Floor
    <3> HIDE DEF e
    <3> QED BY <2>1, <2>2, <3>1, <3>2, <3>3 DEF LossIsReal
  <2>4. CASE ~discarded
    BY <2>1, <2>2, <2>4 DEF PathInv, LossIsReal
  <2> QED BY <2>3, <2>4
<1> QED BY <1>1, <1>2, <1>3, <1>4, PTL DEF PathSpec

\* On a path that loses and exchanges as often as it likes, the misses the server
\* counts are explained: one for each datagram lost, three for each exchange.
THEOREM Misses ==
  ASSUME NEW c, Clients = {c}, \A len \in Lens : HeaderLen <= len
  PROVE  PathSpec => []MissesAreExplained
<1>1. PathInit => ExchangeInv(c)
  BY ExchangeInit
<1>2. ExchangeInv(c) /\ [PathNext]_allVars => ExchangeInv(c)'
  BY ExchangeStep
<1>3. ExchangeInv(c) => MissesAreExplained
  BY DEF ExchangeInv, Explained, Paid, MissesAreExplained
<1> QED BY <1>1, <1>2, <1>3, PTL DEF PathSpec

\* Whatever the clients and the path do, the accounting only ever sees what
\* StreamStats allows any network to do: what is proved there holds end to end.
THEOREM AnyPath ==
  PathSpec => /\ Spec
              /\ [](LabelsBehindClock /\ CountersAgree /\ DivisionSafeAfterFirstPacket)
<1>1. PathInit => Init /\ IdsInRange
  <2>1. Unsent \in Unsent .. MaxId /\ 0 \in Nat
    BY BoundAssumption DEF Unsent
  <2> QED BY <2>1 DEF PathInit, IdsInRange
<1>2. IdsInRange /\ [PathNext]_allVars => IdsInRange' /\ [Next]_vars
  BY IdsStep, AnyPathStep
<1>3. PathSpec => Spec
  BY <1>1, <1>2, PTL DEF PathSpec, Spec
<1> QED BY <1>3, LabelsStayBehind, CountersStayInStep, DivisionIsSafe, PTL
=============================================================================
