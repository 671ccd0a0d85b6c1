-------------------------- MODULE TCPSenderProofs ---------------------------
(***************************************************************************)
(* TCPSender under any calls, for every capacity, window, payload size and *)
(* sequence-number modulus.                                                *)
(***************************************************************************)
EXTENDS TCPSenderSpec, WrappingIntegersTheorems, SequenceTheorems,
        NaturalsInduction, WellFoundedInduction

------------------------------------------------------------------------------
(* The types of the records.                                               *)

Segments ==
    [seqno : WrappingInt32, syn : BOOLEAN, fin : BOOLEAN, rst : BOOLEAN,
     ack : BOOLEAN, ackno : WrappingInt32, win : Nat, payload : Seq(Int)]

Outstanding == [seqno : Nat, segment : Segments]

Streams ==
    {b \in [buffer : Seq(Int), capacity : Nat, bytes_written : Nat, bytes_read : Nat,
            end_input : BOOLEAN, error : {FALSE}] : Stream!StreamOK(b)}

Senders ==
    [isn : WrappingInt32, segments_out : Seq(Segments),
     initial_retransmission_timeout : 1 .. UInt - 1, stream : Streams,
     next_seqno : Nat, segments_outstanding : Seq(Outstanding),
     remaining_time : 0 .. UInt - 1, retransmission_timeout : 0 .. UInt - 1,
     alarm_run : BOOLEAN, bytes_in_flight : Nat,
     state : {"CLOSED", "SYN_SENT", "SYN_ACKED", "FIN_SENT"},
     window_size : Nat, retransmission_count : Nat]

\* q covers the sequence numbers from a up to b, without a gap or an overlap.
Chain(q, a, b) ==
    /\ q = <<>> => a = b
    /\ \A i \in 1 .. Len(q) :
          /\ length_in_sequence_space(q[i].segment) > 0
          /\ q[i].seqno = IF i = 1 THEN a ELSE end_of(q[i - 1])
          /\ i = Len(q) => end_of(q[i]) = b

\* The inductive invariant of a sender: its type, the chain of outstanding
\* segments, and what _state says of the counters and the timer.
SenderInv(s) ==
    /\ s \in Senders
    /\ s.bytes_in_flight <= s.next_seqno
    /\ Chain(s.segments_outstanding, s.next_seqno - s.bytes_in_flight, s.next_seqno)
    /\ s.state = "CLOSED" => s.next_seqno = 0 /\ s.segments_outstanding = <<>>
    /\ s.state # "CLOSED" => s.next_seqno > 0 /\ s.alarm_run
    /\ s.remaining_time > 0 => s.remaining_time < s.retransmission_timeout

------------------------------------------------------------------------------
(* Chains of outstanding segments.                                         *)

LEMMA SegmentLength ==
    /\ \A g \in Segments : length_in_sequence_space(g) \in Nat
    /\ \A o \in Outstanding : length_in_sequence_space(o.segment) \in Nat
    /\ \A q \in Seq(Outstanding) : \A i \in 1 .. Len(q) :
          /\ q[i] \in Outstanding
          /\ q[i].seqno \in Nat
          /\ length_in_sequence_space(q[i].segment) \in Nat
          /\ end_of(q[i]) \in Nat
<1>1. \A g \in Segments : length_in_sequence_space(g) \in Nat
  <2> SUFFICES ASSUME NEW g \in Segments PROVE length_in_sequence_space(g) \in Nat
    OBVIOUS
  <2>1. g.payload \in Seq(Int)
    BY DEF Segments
  <2>2. Len(g.payload) \in Nat
    BY <2>1
  <2>3. bit(g.syn) \in Nat /\ bit(g.fin) \in Nat
    BY DEF bit
  <2> QED BY <2>2, <2>3 DEF length_in_sequence_space
<1>2. \A o \in Outstanding :
         length_in_sequence_space(o.segment) \in Nat /\ o.seqno \in Nat
  BY <1>1 DEF Outstanding
<1> QED
  BY <1>1, <1>2 DEF end_of

LEMMA EmptySegment ==
    /\ empty_segment \in Segments
    /\ length_in_sequence_space(empty_segment) = 0
BY ModulusAssumption DEF empty_segment, Segments, WrappingInt32,
                         length_in_sequence_space, bit

LEMMA LeastNumber ==
    ASSUME NEW S, S \subseteq Nat, S # {}
    PROVE  \E n \in S : \A m \in S : ~(m < n)
<1> DEFINE R == OpToRel(<, Nat)
<1>1. IsWellFoundedOn(R, Nat)
  BY NatLessThanWellFounded, Zenon
<1>2. \E n \in S : \A m \in S : ~(<<m, n>> \in R)
  <2> HIDE DEF R
  <2> QED BY <1>1, WFMin, Zenon
<1> QED
  BY <1>2, Zenon DEF OpToRel

LEMMA TotalLength ==
    ASSUME NEW q \in Seq(Outstanding), NEW first \in Nat, NEW last, Chain(q, first, last),
           NEW p \in 0 .. Len(q)
    PROVE  total_length(q, p) = IF p = 0 THEN 0 ELSE end_of(q[p]) - first
<1> DEFINE len(i) == length_in_sequence_space(q[i].segment)
           Total(f) == f = [i \in 0 .. p |-> IF i = 0 THEN 0 ELSE f[i - 1] + len(i)]
           sum == [i \in 0 .. p |-> IF i = 0 THEN 0 ELSE end_of(q[i]) - first]
           total == CHOOSE f : Total(f)
           wrong == {i \in 0 .. p : total[i] # sum[i]}
<1>1. \A i \in 1 .. p : sum[i] = sum[i - 1] + len(i)
  <2> SUFFICES ASSUME NEW i \in 1 .. p PROVE sum[i] = sum[i - 1] + len(i)
    OBVIOUS
  <2>1. sum[i] = q[i].seqno + len(i) - first
    <3>1. sum[i] = end_of(q[i]) - first
      OBVIOUS
    <3>2. end_of(q[i]) = q[i].seqno + len(i)
      BY DEF end_of
    <3>3. q[i].seqno \in Nat /\ len(i) \in Nat
      BY SegmentLength
    <3> HIDE DEF sum, len
    <3> QED BY <3>1, <3>2, <3>3
  <2>2. sum[i - 1] = IF i = 1 THEN 0 ELSE end_of(q[i - 1]) - first
    OBVIOUS
  <2>3. q[i].seqno = IF i = 1 THEN first ELSE end_of(q[i - 1])
    BY DEF Chain
  <2>4. q[i].seqno \in Nat /\ len(i) \in Nat
    BY SegmentLength
  <2> HIDE DEF sum, len
  <2> QED
    BY <2>1, <2>2, <2>3, <2>4
<1>2. Total(sum)
  <2>1. \A i \in 0 .. p : sum[i] = IF i = 0 THEN 0 ELSE sum[i - 1] + len(i)
    <3>1. sum[0] = 0
      OBVIOUS
    <3> HIDE DEF sum
    <3> QED BY <1>1, <3>1
  <2>2. sum = [i \in 0 .. p |-> sum[i]]
    OBVIOUS
  <2> HIDE DEF sum
  <2> QED
    BY <2>1, <2>2
<1>3. Total(total)
  <2> HIDE DEF Total, sum
  <2> QED BY <1>2
<1>4. wrong = {}
  <2> SUFFICES ASSUME wrong # {} PROVE FALSE
    OBVIOUS
  <2> HIDE DEF sum, total
  <2>1. PICK n \in wrong : \A m \in wrong : ~(m < n)
    <3>1. wrong \subseteq Nat
      OBVIOUS
    <3> HIDE DEF wrong
    <3> QED BY <3>1, LeastNumber, Zenon
  <2>2. n # 0
    BY <1>3, <2>1 DEF sum
  <2>3. n - 1 \in 0 .. p /\ n - 1 \notin wrong
    BY <2>1, <2>2
  <2>4. total[n] = total[n - 1] + len(n)
    BY <1>3, <2>1, <2>2
  <2> QED
    BY <1>1, <2>1, <2>2, <2>3, <2>4
<1>5. total_length(q, p) = total[p]
  BY DEF total_length
<1>6. sum[p] = IF p = 0 THEN 0 ELSE end_of(q[p]) - first
  OBVIOUS
<1> QED
  <2> HIDE DEF sum, total
  <2> QED BY <1>4, <1>5, <1>6

LEMMA ConcatElements ==
    ASSUME NEW S, NEW q \in Seq(S), NEW r \in Seq(S)
    PROVE  /\ q \o r \in Seq(S)
           /\ Len(q \o r) = Len(q) + Len(r)
           /\ \A i \in 1 .. Len(q) : (q \o r)[i] = q[i]
           /\ \A i \in 1 .. Len(r) : (q \o r)[Len(q) + i] = r[i]
BY ConcatProperties

LEMMA ChainConcat ==
    ASSUME NEW q \in Seq(Outstanding), NEW r \in Seq(Outstanding),
           NEW a \in Nat, NEW b \in Nat, NEW c \in Nat,
           Chain(q, a, b), Chain(r, b, c)
    PROVE  Chain(q \o r, a, c)
<1> DEFINE z == q \o r
<1>1. /\ z \in Seq(Outstanding)
      /\ Len(z) = Len(q) + Len(r)
      /\ \A i \in 1 .. Len(q) : z[i] = q[i]
      /\ \A i \in 1 .. Len(r) : z[Len(q) + i] = r[i]
  BY ConcatElements
<1> HIDE DEF z
<1>2. ASSUME z = <<>> PROVE a = c
  BY <1>1, <1>2 DEF Chain
<1>3. ASSUME NEW i \in 1 .. Len(z)
      PROVE  /\ length_in_sequence_space(z[i].segment) > 0
             /\ z[i].seqno = IF i = 1 THEN a ELSE end_of(z[i - 1])
             /\ i = Len(z) => end_of(z[i]) = c
  <2>1. CASE i <= Len(q)
    <3>1. i \in 1 .. Len(q) /\ z[i] = q[i] /\ (i # 1 => z[i - 1] = q[i - 1])
      <4>1. Len(q) \in Nat
        OBVIOUS
      <4>2. i \in 1 .. Len(q) /\ (i # 1 => i - 1 \in 1 .. Len(q))
        BY <2>1, <4>1
      <4> QED BY <1>1, <4>2, Zenon
    <3>2. i = Len(z) => r = <<>> /\ i = Len(q)
      BY <1>1, <2>1
    <3> QED BY <3>1, <3>2 DEF Chain
  <2>2. CASE i > Len(q)
    <3> DEFINE k == i - Len(q)
    <3>1. k \in 1 .. Len(r) /\ z[i] = r[k]
      BY <1>1, <2>2
    <3>2. k # 1 => k - 1 \in 1 .. Len(r) /\ z[i - 1] = r[k - 1]
      <4> SUFFICES ASSUME k # 1 PROVE k - 1 \in 1 .. Len(r) /\ z[i - 1] = r[k - 1]
        OBVIOUS
      <4>1. k - 1 \in 1 .. Len(r) /\ Len(q) + (k - 1) = i - 1
        BY <3>1
      <4> QED BY <4>1, <1>1
    <3>3. k = 1 => r[k].seqno = IF i = 1 THEN a ELSE end_of(z[i - 1])
      <4>1. CASE q = <<>>
        BY <4>1, <3>1 DEF Chain
      <4>2. CASE q # <<>>
        <5>1. Len(q) \in 1 .. Len(q)
          BY <4>2
        <5> QED BY <5>1, <1>1, <3>1 DEF Chain
      <4> QED BY <4>1, <4>2
    <3>4. i = Len(z) <=> k = Len(r)
      BY <1>1, <2>2
    <3>5. i = 1 => k = 1
      BY <3>1
    <3> HIDE DEF k
    <3> QED BY <3>1, <3>2, <3>3, <3>4, <3>5 DEF Chain
  <2> QED BY <2>1, <2>2, <1>1
<1> QED
  BY <1>2, <1>3 DEF Chain, z

LEMMA ChainSuffix ==
    ASSUME NEW q \in Seq(Outstanding), NEW a \in Nat, NEW b \in Nat, Chain(q, a, b),
           NEW p \in 1 .. Len(q)
    PROVE  /\ SubSeq(q, p + 1, Len(q)) \in Seq(Outstanding)
           /\ Chain(SubSeq(q, p + 1, Len(q)), end_of(q[p]), b)
<1> DEFINE z == SubSeq(q, p + 1, Len(q))
<1>1. /\ z \in Seq(Outstanding)
      /\ Len(z) = Len(q) - p
      /\ \A i \in 1 .. Len(q) - p : z[i] = q[p + i]
  <2>1. p + 1 \in 1 .. Len(q) + 1 /\ Len(q) \in p .. Len(q)
    OBVIOUS
  <2> QED BY <2>1, SubSeqProperties
<1> HIDE DEF z
<1>2. ASSUME z = <<>> PROVE end_of(q[p]) = b
  BY <1>1, <1>2 DEF Chain
<1>3. ASSUME NEW i \in 1 .. Len(z)
      PROVE  /\ length_in_sequence_space(z[i].segment) > 0
             /\ z[i].seqno = IF i = 1 THEN end_of(q[p]) ELSE end_of(z[i - 1])
             /\ i = Len(z) => end_of(z[i]) = b
  <2>1. p + i \in 1 .. Len(q) /\ p + i # 1 /\ z[i] = q[p + i]
    BY <1>1
  <2>2. p + i - 1 = p + (i - 1)
    OBVIOUS
  <2>3. i # 1 => z[i - 1] = q[p + i - 1]
    BY <1>1, <2>2
  <2>4. i = Len(z) => p + i = Len(q)
    BY <1>1
  <2>5. i = 1 => p + i - 1 = p
    OBVIOUS
  <2> HIDE DEF z
  <2>6. /\ length_in_sequence_space(q[p + i].segment) > 0
        /\ q[p + i].seqno = end_of(q[p + i - 1])
        /\ p + i = Len(q) => end_of(q[p + i]) = b
    BY <2>1 DEF Chain
  <2> QED BY <2>1, <2>3, <2>4, <2>5, <2>6
<1> QED
  BY <1>1, <1>2, <1>3 DEF Chain, z

------------------------------------------------------------------------------
(* fill_window                                                             *)

LEMMA CeilDiv ==
    ASSUME NEW n \in Nat \ {0}, NEW m \in Nat \ {0}
    PROVE  LET k == (n + m - 1) \div m
           IN  k \in Nat \ {0} /\ (k - 1) * m < n /\ n <= (k - 1) * m + m
<1> DEFINE a == n + m - 1
           k == a \div m
           r == a % m
<1>1. a \in Nat
  OBVIOUS
<1>2. k \in Int /\ r \in 0 .. m - 1 /\ a = m * k + r
  <2> HIDE DEF a
  <2> QED BY <1>1
<1>3. m * k = (k - 1) * m + m
  BY <1>2
<1>4. (k - 1) * m < n /\ n <= (k - 1) * m + m
  <2>1. (k - 1) * m \in Int
    BY <1>2
  <2> DEFINE x == (k - 1) * m
  <2> HIDE DEF k, r, x
  <2>2. n + m - 1 = x + m + r
    BY <1>2, <1>3 DEF x
  <2> QED BY <2>1, <2>2, <1>2 DEF x
<1>5. k > 0
  <2> SUFFICES ASSUME k <= 0 PROVE FALSE
    BY <1>2
  <2>1. (1 - k) * m >= m
    <3> DEFINE j == 0 - k
    <3>1. j \in Nat
      BY <1>2
    <3> HIDE DEF k
    <3>2. (1 - k) * m = m + j * m
      BY <1>2 DEF j
    <3> HIDE DEF j
    <3> QED BY <3>1, <3>2
  <2>2. (k - 1) * m = 0 - (1 - k) * m
    BY <1>2
  <2> HIDE DEF k
  <2> QED BY <2>1, <2>2, <1>2, <1>4
<1> QED BY <1>2, <1>4, <1>5

\* What fill_window sends in one call: n payload bytes, in k segments.
LEMMA Sendable ==
    ASSUME NEW s \in Senders, room(s) > 0
    PROVE  /\ room(s) \in Int
           /\ sendable(s) \in Nat
           /\ sendable(s) <= Len(s.stream.buffer)
           /\ sendable(s) <= room(s)
           /\ sends_fin(s) \in BOOLEAN
           /\ bit(sends_fin(s)) \in {0, 1}
           /\ sendable(s) + bit(sends_fin(s)) <= room(s)
           /\ segment_count(s) \in Nat
           /\ sendable(s) = 0 => segment_count(s) = bit(sends_fin(s))
           /\ sendable(s) > 0 =>
                 /\ segment_count(s) > 0
                 /\ skipped(segment_count(s)) < sendable(s)
                 /\ sendable(s) <= skipped(segment_count(s)) + MaxPayloadSize
<1> DEFINE n == sendable(s)
           k == segment_count(s)
<1>1. room(s) \in Int
  BY DEF Senders, room
<1>2. Len(s.stream.buffer) \in Nat
  <2>1. s.stream.buffer \in Seq(Int)
    BY DEF Senders, Streams
  <2> QED BY <2>1
<1>3. n \in Nat /\ n <= Len(s.stream.buffer) /\ n <= room(s)
  BY <1>1, <1>2 DEF sendable, Stream!min, Stream!buffer_size
<1>4. sends_fin(s) \in BOOLEAN /\ (sends_fin(s) => room(s) > n)
  <2>1. s.stream.end_input \in BOOLEAN
    BY DEF Senders, Streams
  <2> QED BY <2>1 DEF sends_fin
<1>5. bit(sends_fin(s)) \in {0, 1} /\ (bit(sends_fin(s)) = 1 => sends_fin(s))
  BY DEF bit
<1>6. n + bit(sends_fin(s)) <= room(s)
  <2> HIDE DEF n
  <2> QED BY <1>1, <1>3, <1>4, <1>5
<1>7. n = 0 => k = bit(sends_fin(s))
  BY DEF segment_count
<1>8. n > 0 => k \in Nat \ {0} /\ skipped(k) < n /\ n <= skipped(k) + MaxPayloadSize
  <2> SUFFICES ASSUME n > 0
               PROVE  k \in Nat \ {0} /\ skipped(k) < n /\ n <= skipped(k) + MaxPayloadSize
    OBVIOUS
  <2>1. n \in Nat \ {0} /\ MaxPayloadSize \in Nat \ {0}
    BY <1>3, SenderConstants
  <2>2. k = (n + MaxPayloadSize - 1) \div MaxPayloadSize
    BY <2>1 DEF segment_count
  <2> HIDE DEF n, k
  <2> QED BY <2>1, <2>2, CeilDiv DEF skipped
<1> HIDE DEF n, k
<1>9. k \in Nat
  BY <1>3, <1>5, <1>7, <1>8
<1> QED BY <1>1, <1>3, <1>4, <1>5, <1>6, <1>7, <1>8, <1>9 DEF n, k

\* Every segment but the last is full.
LEMMA Skipped ==
    ASSUME NEW k \in Nat, NEW i \in 1 .. k
    PROVE  /\ skipped(i) \in Nat
           /\ skipped(k) \in Nat
           /\ i = 1 => skipped(i) = 0
           /\ i < k => /\ skipped(i + 1) = skipped(i) + MaxPayloadSize
                       /\ skipped(i) + MaxPayloadSize <= skipped(k)
<1>1. MaxPayloadSize \in Nat
  BY SenderConstants
<1>2. skipped(i) \in Nat /\ skipped(k) \in Nat
  BY <1>1 DEF skipped
<1>3. i = 1 => skipped(i) = 0
  BY <1>1 DEF skipped
<1>4. skipped(i + 1) = skipped(i) + MaxPayloadSize
  BY <1>1 DEF skipped
<1>5. ASSUME i < k PROVE skipped(i) + MaxPayloadSize <= skipped(k)
  <2> DEFINE d == k - i - 1
  <2>1. d \in Nat
    BY <1>5
  <2>2. skipped(k) = skipped(i) + MaxPayloadSize + d * MaxPayloadSize
    BY <1>1 DEF skipped
  <2>3. d * MaxPayloadSize \in Nat
    <3> HIDE DEF d
    <3> QED BY <1>1, <2>1
  <2> HIDE DEF d
  <2> QED BY <1>1, <1>2, <2>2, <2>3
<1> QED BY <1>2, <1>3, <1>4, <1>5

LEMMA Payload ==
    ASSUME NEW s \in Senders, room(s) > 0, NEW i \in 1 .. segment_count(s)
    PROVE  /\ payload(s, i) \in Seq(Int)
           /\ Len(payload(s, i)) = IF i < segment_count(s) THEN MaxPayloadSize
                                   ELSE sendable(s) - skipped(i)
           /\ \A j \in 1 .. Len(payload(s, i)) :
                 /\ skipped(i) + j \in 1 .. Len(s.stream.buffer)
                 /\ payload(s, i)[j] = s.stream.buffer[skipped(i) + j]
<1> DEFINE n == sendable(s)
           k == segment_count(s)
           b == s.stream.buffer
           m == skipped(i) + 1
           e == Stream!min(skipped(i) + MaxPayloadSize, n)
<1>0. i \in 1 .. k
  OBVIOUS
<1>1. /\ n \in Nat /\ n <= Len(b) /\ k \in Nat
      /\ n = 0 => k = bit(sends_fin(s))
      /\ bit(sends_fin(s)) \in {0, 1}
      /\ n > 0 => skipped(k) < n /\ n <= skipped(k) + MaxPayloadSize
  BY Sendable
<1>2. /\ skipped(i) \in Nat
      /\ skipped(k) \in Nat
      /\ i = 1 => skipped(i) = 0
      /\ i < k => skipped(i) + MaxPayloadSize <= skipped(k)
  <2> HIDE DEF k
  <2> QED BY <1>0, <1>1, Skipped
<1>3. MaxPayloadSize \in Nat /\ MaxPayloadSize > 0
  BY SenderConstants
<1>4. /\ e \in Int /\ m \in Int
      /\ e <= n /\ m <= e + 1
      /\ e - m + 1 = IF i < k THEN MaxPayloadSize ELSE n - skipped(i)
  <2> HIDE DEF n, k
  <2>1. CASE n = 0
    <3>1. k = 1 /\ i = 1
      BY <1>0, <1>1, <2>1
    <3> QED BY <1>0, <1>1, <1>2, <1>3, <2>1, <3>1 DEF Stream!min
  <2>2. CASE n > 0 /\ i < k
    BY <1>0, <1>1, <1>2, <1>3, <2>2 DEF Stream!min
  <2>3. CASE n > 0 /\ i = k
    BY <1>0, <1>1, <1>2, <1>3, <2>3 DEF Stream!min
  <2> QED BY <1>0, <1>1, <2>1, <2>2, <2>3
<1>5. b \in Seq(Int)
  BY DEF Senders, Streams
<1>6. payload(s, i) = SubSeq(b, m, e)
  BY DEF payload
<1> HIDE DEF n, k, b, e
<1>7. \A j \in m .. e : j \in 1 .. Len(b) /\ b[j] \in Int
  <2>1. Len(b) \in Nat
    BY <1>5
  <2>2. m >= 1
    BY <1>2
  <2>3. e <= Len(b)
    BY <1>1, <1>4, <2>1
  <2>4. e \in Int /\ m \in Int
    BY <1>4
  <2> HIDE DEF m
  <2>5. \A j \in m .. e : j \in 1 .. Len(b)
    BY <2>1, <2>2, <2>3, <2>4
  <2> QED BY <1>5, <2>5
<1>8. /\ payload(s, i) \in Seq(Int)
      /\ Len(payload(s, i)) = IF m <= e THEN e - m + 1 ELSE 0
      /\ \A j \in 1 .. e - m + 1 : payload(s, i)[j] = b[m + j - 1]
  <2> HIDE DEF m
  <2> QED BY <1>4, <1>6, <1>7, SubSeqProperties
<1>9. Len(payload(s, i)) = e - m + 1
  BY <1>4, <1>8
<1>10. ASSUME NEW j \in 1 .. Len(payload(s, i))
       PROVE  skipped(i) + j \in 1 .. Len(b) /\ payload(s, i)[j] = b[skipped(i) + j]
  <2>1. m + j - 1 = skipped(i) + j /\ m + j - 1 \in m .. e /\ j \in 1 .. e - m + 1
    <3>1. e \in Int /\ skipped(i) \in Nat
      BY <1>2, <1>4
    <3>2. j \in 1 .. e - (skipped(i) + 1) + 1
      BY <1>9
    <3> QED BY <3>1, <3>2
  <2> QED BY <2>1, <1>7, <1>8
<1> QED BY <1>4, <1>8, <1>9, <1>10 DEF n, k, b

LEMMA WrapType ==
    ASSUME NEW n \in Nat, NEW isn \in WrappingInt32
    PROVE  wrap(n, isn) \in WrappingInt32
<1>1. n + isn \in Int
  BY ModulusAssumption DEF WrappingInt32
<1> QED BY <1>1, DivMod DEF wrap, WrappingInt32

\* The segments fill_window makes, as they are kept in _segments_outstanding.
made(s) ==
    [i \in 1 .. segment_count(s) |->
        [seqno |-> s.next_seqno + skipped(i), segment |-> segment(s, i)]]

LEMMA SegmentMade ==
    ASSUME NEW s \in Senders, room(s) > 0, NEW i \in 1 .. segment_count(s)
    PROVE  /\ segment(s, i) \in Segments
           /\ segment(s, i).seqno = wrap(s.next_seqno + skipped(i), s.isn)
           /\ segment(s, i).payload = payload(s, i)
           /\ segment(s, i).fin = (sends_fin(s) /\ i = segment_count(s))
           /\ s.next_seqno + skipped(i) \in Nat
           /\ length_in_sequence_space(segment(s, i)) =
                 IF i < segment_count(s) THEN MaxPayloadSize
                 ELSE sendable(s) - skipped(i) + bit(sends_fin(s))
<1>1. segment_count(s) \in Nat /\ sends_fin(s) \in BOOLEAN /\ sendable(s) \in Nat
  BY Sendable
<1>2. skipped(i) \in Nat
  BY <1>1, Skipped
<1>3. s.next_seqno \in Nat /\ s.isn \in WrappingInt32
  BY DEF Senders
<1>4. s.next_seqno + skipped(i) \in Nat
  BY <1>2, <1>3
<1>5. wrap(s.next_seqno + skipped(i), s.isn) \in WrappingInt32
  BY <1>3, <1>4, WrapType
<1>6. /\ payload(s, i) \in Seq(Int)
      /\ Len(payload(s, i)) = IF i < segment_count(s) THEN MaxPayloadSize
                              ELSE sendable(s) - skipped(i)
  BY Payload
<1>7. (sends_fin(s) /\ i = segment_count(s)) \in BOOLEAN
  BY <1>1
<1>8. /\ segment(s, i) \in Segments
      /\ segment(s, i).seqno = wrap(s.next_seqno + skipped(i), s.isn)
      /\ segment(s, i).payload = payload(s, i)
      /\ segment(s, i).syn = FALSE
      /\ segment(s, i).fin = (sends_fin(s) /\ i = segment_count(s))
  BY <1>5, <1>6, <1>7, EmptySegment, Zenon DEF segment, empty_segment, Segments
<1>9. bit(segment(s, i).syn) = 0
  BY <1>8 DEF bit
<1>10. bit(segment(s, i).fin) = IF i < segment_count(s) THEN 0 ELSE bit(sends_fin(s))
  <2>1. CASE i < segment_count(s)
    <3>1. i # segment_count(s)
      BY <1>1, <2>1
    <3>2. segment(s, i).fin = FALSE
      BY <1>8, <3>1, Zenon
    <3> QED BY <2>1, <3>2 DEF bit
  <2>2. CASE i = segment_count(s)
    <3>1. ~(i < segment_count(s))
      BY <1>1, <2>2
    <3>2. segment(s, i).fin = sends_fin(s)
      BY <1>1, <1>8, <2>2
    <3> QED BY <3>1, <3>2
  <2> QED BY <1>1, <2>1, <2>2
<1>11. bit(sends_fin(s)) \in {0, 1} /\ MaxPayloadSize \in Nat
  BY SenderConstants DEF bit
<1>12. length_in_sequence_space(segment(s, i)) =
          Len(payload(s, i)) + bit(segment(s, i).syn) + bit(segment(s, i).fin)
  BY <1>8 DEF length_in_sequence_space
<1>13. length_in_sequence_space(segment(s, i)) =
          IF i < segment_count(s) THEN MaxPayloadSize
          ELSE sendable(s) - skipped(i) + bit(sends_fin(s))
  BY <1>1, <1>2, <1>6, <1>9, <1>10, <1>11, <1>12
<1> QED BY <1>4, <1>8, <1>13

LEMMA MadeIsChain ==
    ASSUME NEW s \in Senders, room(s) > 0
    PROVE  /\ made(s) \in Seq(Outstanding)
           /\ Len(made(s)) = segment_count(s)
           /\ [i \in 1 .. segment_count(s) |-> segment(s, i)] \in Seq(Segments)
           /\ Chain(made(s), s.next_seqno,
                    s.next_seqno + sendable(s) + bit(sends_fin(s)))
<1> DEFINE k == segment_count(s)
           n == sendable(s)
           f == bit(sends_fin(s))
           z == made(s)
           x == s.next_seqno
<1>1. /\ k \in Nat /\ n \in Nat /\ f \in {0, 1}
      /\ n = 0 => k = f
      /\ n > 0 => k > 0 /\ skipped(k) < n /\ n <= skipped(k) + MaxPayloadSize
  BY Sendable
<1>2. ASSUME NEW i \in 1 .. k
      PROVE  /\ segment(s, i) \in Segments
             /\ z[i] = [seqno |-> x + skipped(i), segment |-> segment(s, i)]
             /\ z[i] \in Outstanding
             /\ z[i].seqno = x + skipped(i)
             /\ length_in_sequence_space(z[i].segment) =
                   IF i < k THEN MaxPayloadSize ELSE n - skipped(i) + f
             /\ end_of(z[i]) = x + skipped(i) +
                   (IF i < k THEN MaxPayloadSize ELSE n - skipped(i) + f)
  BY SegmentMade DEF made, Outstanding, end_of
<1>3. z \in [1 .. k -> Outstanding]
  BY <1>2 DEF made
<1>4. z \in Seq(Outstanding) /\ Len(z) = k
  BY <1>1, <1>3
<1>5. [i \in 1 .. segment_count(s) |-> segment(s, i)] \in Seq(Segments)
  <2>1. [i \in 1 .. k |-> segment(s, i)] \in [1 .. k -> Segments]
    BY <1>2, Zenon
  <2> QED BY <1>1, <2>1
<1>6. x \in Nat
  BY DEF Senders
<1>7. MaxPayloadSize \in Nat /\ MaxPayloadSize > 0
  BY SenderConstants
<1> HIDE DEF k, n, f, z, x
<1>8. ASSUME z = <<>> PROVE x = x + n + f
  BY <1>1, <1>4, <1>6, <1>8
<1>9. ASSUME NEW i \in 1 .. Len(z)
      PROVE  /\ length_in_sequence_space(z[i].segment) > 0
             /\ z[i].seqno = IF i = 1 THEN x ELSE end_of(z[i - 1])
             /\ i = Len(z) => end_of(z[i]) = x + n + f
  <2>1. i \in 1 .. k /\ (i # 1 => i - 1 \in 1 .. k /\ i - 1 < k)
    BY <1>1, <1>4
  <2>2. /\ skipped(i) \in Nat
        /\ i = 1 => skipped(i) = 0
        /\ i # 1 => skipped(i - 1) \in Nat /\ skipped(i) = skipped(i - 1) + MaxPayloadSize
    BY <1>1, <2>1, Skipped
  <2>3. i = k => n - skipped(i) + f > 0
    BY <1>1, <2>1, <2>2
  <2> DEFINE l == IF i < k THEN MaxPayloadSize ELSE n - skipped(i) + f
  <2>4. /\ length_in_sequence_space(z[i].segment) = l
        /\ end_of(z[i]) = x + skipped(i) + l
    BY <1>2, <2>1, Zenon
  <2>5. l > 0 /\ (i = k => l = n - skipped(i) + f)
    BY <1>1, <1>7, <2>1, <2>3
  <2> HIDE DEF l
  <2>6. length_in_sequence_space(z[i].segment) > 0
    BY <2>4, <2>5
  <2>7. z[i].seqno = IF i = 1 THEN x ELSE end_of(z[i - 1])
    <3>1. i # 1 => end_of(z[i - 1]) = x + skipped(i - 1) + MaxPayloadSize
      BY <1>2, <2>1, Zenon
    <3>2. z[i].seqno = x + skipped(i)
      BY <1>2, <2>1, Zenon
    <3> QED BY <1>6, <1>7, <2>2, <3>1, <3>2
  <2>8. i = Len(z) => end_of(z[i]) = x + n + f
    <3>1. i = k => end_of(z[i]) = x + skipped(i) + (n - skipped(i) + f)
      BY <2>4, <2>5
    <3> QED BY <1>1, <1>4, <1>6, <2>2, <3>1
  <2> QED BY <2>6, <2>7, <2>8
<1> QED BY <1>4, <1>5, <1>8, <1>9 DEF Chain, k, n, f, z, x

LEMMA PopOutput ==
    ASSUME NEW b \in Streams, NEW n \in Nat, n <= Len(b.buffer)
    PROVE  LET t == Stream!pop_output(b, n)
           IN  /\ t \in Streams
               /\ t.capacity = b.capacity
               /\ t.bytes_written = b.bytes_written
               /\ t.bytes_read = b.bytes_read + n
               /\ t.end_input = b.end_input
               /\ Len(t.buffer) = Len(b.buffer) - n
               /\ \A j \in 1 .. Len(t.buffer) : t.buffer[j] = b.buffer[n + j]
<1> DEFINE t == Stream!pop_output(b, n)
           z == SubSeq(b.buffer, n + 1, Len(b.buffer))
<1>1. b.buffer \in Seq(Int) /\ Len(b.buffer) \in Nat
  <2>1. b.buffer \in Seq(Int)
    BY DEF Streams
  <2> QED BY <2>1
<1>2. Stream!min(n, Stream!buffer_size(b)) = n
  BY <1>1 DEF Stream!min, Stream!buffer_size
<1>3. t = [b EXCEPT !.buffer = z, !.bytes_read = b.bytes_read + n]
  BY <1>2 DEF Stream!pop_output
<1>4. \A i \in n + 1 .. Len(b.buffer) : b.buffer[i] \in Int
  BY <1>1
<1>5. /\ z \in Seq(Int)
      /\ Len(z) = IF n + 1 <= Len(b.buffer) THEN Len(b.buffer) - (n + 1) + 1 ELSE 0
      /\ \A i \in 1 .. Len(b.buffer) - (n + 1) + 1 : z[i] = b.buffer[n + 1 + i - 1]
  <2>1. n + 1 \in Int /\ Len(b.buffer) \in Int
    BY <1>1
  <2> QED BY <1>4, <2>1, SubSeqProperties
<1>6. Len(z) = Len(b.buffer) - n
  BY <1>1, <1>5
<1>7. \A j \in 1 .. Len(z) : z[j] = b.buffer[n + j]
  <2> SUFFICES ASSUME NEW j \in 1 .. Len(z) PROVE z[j] = b.buffer[n + j]
    OBVIOUS
  <2>1. j \in 1 .. Len(b.buffer) - (n + 1) + 1 /\ n + 1 + j - 1 = n + j
    BY <1>1, <1>6
  <2> QED BY <1>5, <2>1
<1>8. b.bytes_read + n \in Nat
  BY DEF Streams
<1> HIDE DEF z, t
<1>9. /\ t \in [buffer : Seq(Int), capacity : Nat, bytes_written : Nat, bytes_read : Nat,
               end_input : BOOLEAN, error : {FALSE}]
      /\ t.capacity = b.capacity
      /\ t.bytes_written = b.bytes_written /\ t.bytes_read = b.bytes_read + n
      /\ t.end_input = b.end_input /\ t.buffer = z
  BY <1>3, <1>5, <1>8, Zenon DEF Streams
<1>10. Stream!StreamOK(t)
  <2>1. /\ b.bytes_read \in Nat /\ b.capacity \in Nat
        /\ b.bytes_written = b.bytes_read + Len(b.buffer) /\ Len(b.buffer) <= b.capacity
        /\ \A j \in 1 .. Len(b.buffer) : b.buffer[j] = b.bytes_read + j - 1
    BY DEF Streams, Stream!StreamOK
  <2>2. t.bytes_written = t.bytes_read + Len(t.buffer) /\ Len(t.buffer) <= t.capacity
    BY <1>1, <1>6, <1>9, <2>1
  <2>3. ASSUME NEW j \in 1 .. Len(t.buffer) PROVE t.buffer[j] = t.bytes_read + j - 1
    <3>1. j \in 1 .. Len(z)
      BY <1>9
    <3>2. n + j \in 1 .. Len(b.buffer)
      BY <1>1, <1>6, <3>1
    <3>3. t.buffer[j] = b.buffer[n + j]
      BY <1>7, <1>9, <3>1
    <3>4. b.buffer[n + j] = b.bytes_read + (n + j) - 1
      BY <2>1, <3>2
    <3>5. b.bytes_read + (n + j) - 1 = b.bytes_read + n + j - 1
      BY <1>1, <2>1, <3>2
    <3> QED BY <1>9, <3>3, <3>4, <3>5
  <2> QED BY <2>2, <2>3 DEF Stream!StreamOK
<1> QED BY <1>6, <1>7, <1>9, <1>10, Zenon DEF t, Streams

\* The first sequence number not acknowledged.
una(s) == s.next_seqno - s.bytes_in_flight

LEMMA SendSyn ==
    ASSUME NEW s, SenderInv(s), s.state = "CLOSED"
    PROVE  /\ SenderInv(send_syn_segment(s))
           /\ una(send_syn_segment(s)) = una(s)
<1> DEFINE syn == [empty_segment EXCEPT !.seqno = next_seqno(s), !.syn = TRUE]
           o == [seqno |-> 0, segment |-> syn]
           t == send_syn_segment(s)
<1>1. s \in Senders /\ s.next_seqno = 0 /\ s.segments_outstanding = <<>>
  BY DEF SenderInv
<1>2. s.bytes_in_flight = 0
  BY <1>1 DEF SenderInv, Chain, Senders
<1>3. next_seqno(s) \in WrappingInt32
  BY <1>1, WrapType DEF next_seqno, Senders
<1>4. syn \in Segments /\ syn.syn = TRUE /\ syn.fin = FALSE /\ syn.payload = <<>>
  BY <1>3, EmptySegment, Zenon DEF empty_segment, Segments
<1>5. length_in_sequence_space(syn) = 1
  <2> HIDE DEF syn
  <2>1. bit(syn.syn) = 1 /\ bit(syn.fin) = 0 /\ Len(syn.payload) = 0
    BY <1>4 DEF bit
  <2> QED BY <2>1 DEF length_in_sequence_space
<1>6. o \in Outstanding /\ end_of(o) = 1 /\ o.seqno = 0 /\ o.segment = syn
  BY <1>4, <1>5 DEF Outstanding, end_of
<1>7. t = [s EXCEPT !.state = "SYN_SENT", !.next_seqno = 1, !.bytes_in_flight = 1,
                    !.alarm_run = TRUE,
                    !.segments_out = Append(s.segments_out, syn),
                    !.segments_outstanding = Append(s.segments_outstanding, o)]
  BY DEF send_syn_segment
<1> HIDE DEF syn, o, t
<1>8. /\ Append(s.segments_out, syn) \in Seq(Segments)
      /\ Append(s.segments_outstanding, o) \in Seq(Outstanding)
      /\ Len(Append(s.segments_outstanding, o)) = 1
      /\ Append(s.segments_outstanding, o)[1] = o
  BY <1>1, <1>4, <1>6 DEF Senders
<1>9. /\ t \in Senders
      /\ t.state = "SYN_SENT" /\ t.next_seqno = 1 /\ t.bytes_in_flight = 1 /\ t.alarm_run
      /\ t.segments_outstanding = Append(s.segments_outstanding, o)
      /\ t.remaining_time = s.remaining_time
      /\ t.retransmission_timeout = s.retransmission_timeout
  BY <1>1, <1>7, <1>8, Zenon DEF Senders
<1>10. Chain(t.segments_outstanding, 0, 1)
  <2> DEFINE q == t.segments_outstanding
  <2>1. q # <<>> /\ Len(q) = 1 /\ q[1] = o
    BY <1>8, <1>9
  <2> HIDE DEF q
  <2>2. \A i \in 1 .. Len(q) : i = 1
    BY <2>1
  <2>3. length_in_sequence_space(q[1].segment) > 0 /\ q[1].seqno = 0 /\ end_of(q[1]) = 1
    BY <1>5, <1>6, <2>1
  <2> QED BY <2>1, <2>2, <2>3 DEF Chain, q
<1> QED BY <1>1, <1>2, <1>9, <1>10 DEF SenderInv, una, t

LEMMA SendSegments ==
    ASSUME NEW s, SenderInv(s), s.state # "CLOSED", room(s) > 0
    PROVE  /\ SenderInv(send_segments(s))
           /\ una(send_segments(s)) = una(s)
           /\ send_segments(s).bytes_in_flight <= s.bytes_in_flight + room(s)
           /\ send_segments(s).window_size = s.window_size
<1> DEFINE n == sendable(s)
           f == bit(sends_fin(s))
           t == send_segments(s)
           out == [i \in 1 .. segment_count(s) |-> segment(s, i)]
<1>1. s \in Senders
  BY DEF SenderInv
<1>2. /\ n \in Nat /\ f \in {0, 1} /\ n + f <= room(s) /\ room(s) \in Int
      /\ n <= Len(s.stream.buffer)
  BY <1>1, Sendable
<1>3. /\ made(s) \in Seq(Outstanding) /\ out \in Seq(Segments)
      /\ Chain(made(s), s.next_seqno, s.next_seqno + n + f)
  BY <1>1, MadeIsChain
<1>4. /\ s.segments_outstanding \in Seq(Outstanding) /\ s.segments_out \in Seq(Segments)
      /\ s.stream \in Streams
      /\ s.next_seqno \in Nat /\ s.bytes_in_flight \in Nat /\ s.state # "CLOSED"
      /\ s.state \in {"CLOSED", "SYN_SENT", "SYN_ACKED", "FIN_SENT"}
      /\ s.bytes_in_flight <= s.next_seqno /\ s.next_seqno > 0 /\ s.alarm_run
      /\ Chain(s.segments_outstanding, s.next_seqno - s.bytes_in_flight, s.next_seqno)
  BY <1>1 DEF SenderInv, Senders
<1>5. Stream!pop_output(s.stream, n) \in Streams
  <2> HIDE DEF n
  <2> QED BY <1>2, <1>4, PopOutput
<1>6. t = [s EXCEPT !.segments_out = s.segments_out \o out,
                    !.segments_outstanding = s.segments_outstanding \o made(s),
                    !.stream = Stream!pop_output(s.stream, n),
                    !.state = IF sends_fin(s) THEN "FIN_SENT" ELSE s.state,
                    !.bytes_in_flight = s.bytes_in_flight + (n + f),
                    !.next_seqno = s.next_seqno + (n + f)]
  BY DEF send_segments, made
<1> HIDE DEF n, f, out, t
<1>7. /\ s.segments_out \o out \in Seq(Segments)
      /\ s.segments_outstanding \o made(s) \in Seq(Outstanding)
  BY <1>3, <1>4
<1>8. Chain(s.segments_outstanding \o made(s), s.next_seqno - s.bytes_in_flight,
            s.next_seqno + n + f)
  <2>1. s.next_seqno - s.bytes_in_flight \in Nat /\ s.next_seqno + n + f \in Nat
    BY <1>2, <1>4
  <2> QED BY <1>3, <1>4, <2>1, ChainConcat
<1>9. /\ t \in Senders
      /\ t.segments_outstanding = s.segments_outstanding \o made(s)
      /\ t.bytes_in_flight = s.bytes_in_flight + (n + f)
      /\ t.next_seqno = s.next_seqno + (n + f)
      /\ t.state # "CLOSED" /\ t.alarm_run /\ t.window_size = s.window_size
      /\ t.remaining_time = s.remaining_time
      /\ t.retransmission_timeout = s.retransmission_timeout
  <2>1. /\ s.bytes_in_flight + (n + f) \in Nat
        /\ s.next_seqno + (n + f) \in Nat
        /\ (IF sends_fin(s) THEN "FIN_SENT" ELSE s.state)
               \in {"SYN_SENT", "SYN_ACKED", "FIN_SENT"}
    BY <1>2, <1>4
  <2> QED BY <1>1, <1>4, <1>5, <1>6, <1>7, <2>1, Zenon DEF Senders
<1>10. una(t) = una(s) /\ s.next_seqno + n + f = t.next_seqno
  <2>1. s.next_seqno \in Nat /\ s.bytes_in_flight \in Nat /\ n \in Nat /\ f \in Nat
    BY <1>2, <1>4
  <2>2. /\ s.next_seqno + n + f = s.next_seqno + (n + f)
        /\ s.next_seqno + (n + f) - (s.bytes_in_flight + (n + f))
              = s.next_seqno - s.bytes_in_flight
    BY <2>1
  <2>3. /\ t.bytes_in_flight = s.bytes_in_flight + (n + f)
        /\ t.next_seqno = s.next_seqno + (n + f)
    BY <1>9
  <2> QED BY <2>1, <2>2, <2>3 DEF una
<1>11. Chain(t.segments_outstanding, t.next_seqno - t.bytes_in_flight, t.next_seqno)
  BY <1>8, <1>9, <1>10 DEF una
<1>12. SenderInv(t)
  BY <1>2, <1>4, <1>9, <1>11 DEF SenderInv
<1>13. t.bytes_in_flight <= s.bytes_in_flight + room(s)
  BY <1>2, <1>4, <1>9
<1> QED BY <1>9, <1>10, <1>12, <1>13 DEF t

LEMMA FillWindowStep ==
    ASSUME NEW s, SenderInv(s)
    PROVE  /\ SenderInv(fill_window(s))
           /\ una(fill_window(s)) = una(s)
           /\ \/ fill_window(s).next_seqno = s.next_seqno
              \/ s.next_seqno = 0
              \/ fill_window(s).bytes_in_flight <= fill_window(s).window_size
              \/ fill_window(s).window_size = 0 /\ fill_window(s).bytes_in_flight = 1
<1>1. CASE s.state = "CLOSED"
  <2>1. fill_window(s) = send_syn_segment(s) /\ s.next_seqno = 0
    BY <1>1 DEF fill_window, SenderInv
  <2> QED BY <1>1, <2>1, SendSyn
<1>2. CASE s.state = "SYN_ACKED" /\ room(s) > 0
  <2> DEFINE t == send_segments(s)
  <2>1. fill_window(s) = t
    BY <1>2 DEF fill_window
  <2>2. /\ SenderInv(t) /\ una(t) = una(s)
        /\ t.bytes_in_flight <= s.bytes_in_flight + room(s)
        /\ t.window_size = s.window_size
    BY <1>2, SendSegments
  <2> HIDE DEF t
  <2>3. s.window_size \in Nat /\ s.bytes_in_flight \in Nat
    BY DEF SenderInv, Senders
  <2>4. t.bytes_in_flight \in Nat /\ t.next_seqno \in Nat /\ s.next_seqno \in Nat
    BY <2>2 DEF SenderInv, Senders
  <2>5. room(s) \in Int
        /\ s.bytes_in_flight + room(s) = IF s.window_size = 0 THEN 1 ELSE s.window_size
    BY <2>3 DEF room
  <2>6. CASE t.bytes_in_flight = 0
    <3>1. t.bytes_in_flight <= t.window_size
      BY <2>2, <2>3, <2>6
    <3> QED BY <2>1, <2>2, <3>1
  <2>7. CASE t.bytes_in_flight # 0
    <3>1. \/ t.bytes_in_flight <= t.window_size
          \/ t.window_size = 0 /\ t.bytes_in_flight = 1
      BY <2>2, <2>3, <2>4, <2>5, <2>7
    <3> QED BY <2>1, <2>2, <3>1
  <2> QED BY <2>6, <2>7
<1>3. CASE s.state # "CLOSED" /\ ~(s.state = "SYN_ACKED" /\ room(s) > 0)
  <2>1. fill_window(s) = s
    BY <1>3 DEF fill_window
  <2> QED BY <2>1
<1> QED BY <1>1, <1>2, <1>3

------------------------------------------------------------------------------
(* ack_received                                                            *)

LEMMA Acked ==
    ASSUME NEW q \in Seq(Outstanding), NEW ack \in Nat
    PROVE  /\ acked(q, ack) \in 0 .. Len(q)
           /\ \A i \in 1 .. acked(q, ack) : end_of(q[i]) <= ack
<1> DEFINE stop == {p \in 0 .. Len(q) : p < Len(q) => end_of(q[p + 1]) > ack}
<1>1. stop \subseteq Nat /\ Len(q) \in stop
  OBVIOUS
<1>2. PICK n \in stop : \A m \in stop : ~(m < n)
  <2> HIDE DEF stop
  <2> QED BY <1>1, LeastNumber, Zenon
<1>3. n \in 0 .. Len(q) /\ (n < Len(q) => end_of(q[n + 1]) > ack)
  BY <1>2
<1>4. \A i \in 1 .. n : end_of(q[i]) <= ack
  <2> SUFFICES ASSUME NEW i \in 1 .. n PROVE end_of(q[i]) <= ack
    OBVIOUS
  <2>1. i - 1 \in 0 .. Len(q) /\ i - 1 < n /\ i - 1 < Len(q) /\ i \in 1 .. Len(q)
    BY <1>3
  <2>2. i - 1 \notin stop
    BY <1>2, <2>1
  <2>3. ~(end_of(q[(i - 1) + 1]) > ack)
    BY <2>1, <2>2
  <2>4. (i - 1) + 1 = i
    OBVIOUS
  <2> HIDE DEF stop
  <2>5. end_of(q[i]) \in Nat
    BY <2>1, SegmentLength
  <2> QED BY <2>3, <2>4, <2>5
<1> HIDE DEF stop
<1> QED BY <1>3, <1>4, Zenon DEF acked

LEMMA ChainOrder ==
    ASSUME NEW q \in Seq(Outstanding), NEW a \in Nat, NEW b, Chain(q, a, b),
           NEW p \in 1 .. Len(q)
    PROVE  a <= end_of(q[p])
<1> DEFINE low == {i \in 1 .. Len(q) : end_of(q[i]) < a}
<1>1. \A i \in 1 .. Len(q) :
         /\ q[i].seqno \in Nat /\ length_in_sequence_space(q[i].segment) \in Nat
         /\ end_of(q[i]) \in Nat
         /\ end_of(q[i]) = q[i].seqno + length_in_sequence_space(q[i].segment)
  BY SegmentLength DEF end_of
<1>2. ASSUME low # {} PROVE FALSE
  <2>1. low \subseteq Nat
    OBVIOUS
  <2>2. PICK n \in low : \A m \in low : ~(m < n)
    <3> HIDE DEF low
    <3> QED BY <1>2, <2>1, LeastNumber, Zenon
  <2>3. n \in 1 .. Len(q) /\ end_of(q[n]) < a
    BY <2>2
  <2>4. n # 1
    BY <1>1, <2>3 DEF Chain
  <2>5. n - 1 \in 1 .. Len(q) /\ n - 1 < n
    BY <2>3, <2>4
  <2>6. ~(end_of(q[n - 1]) < a)
    BY <2>2, <2>5
  <2>7. q[n].seqno = end_of(q[n - 1])
    BY <2>3, <2>4 DEF Chain
  <2> HIDE DEF low
  <2>8. end_of(q[n - 1]) \in Nat /\ end_of(q[n]) \in Nat
        /\ length_in_sequence_space(q[n].segment) \in Nat
        /\ end_of(q[n]) = end_of(q[n - 1]) + length_in_sequence_space(q[n].segment)
    BY <1>1, <2>3, <2>5, <2>7
  <2> QED BY <2>3, <2>6, <2>8
<1>3. ~(end_of(q[p]) < a)
  BY <1>2
<1>4. end_of(q[p]) \in Nat
  BY <1>1
<1> HIDE DEF low
<1> QED BY <1>3, <1>4

LEMMA PopAcked ==
    ASSUME NEW s, SenderInv(s), NEW ack \in Nat, ack <= s.next_seqno
    PROVE  LET t == pop_acked(s, ack)
           IN  /\ SenderInv(t)
               /\ una(s) <= una(t)
               /\ una(t) = una(s) \/ una(t) <= ack
               /\ t.next_seqno = s.next_seqno
               /\ t.window_size = s.window_size
               /\ t.state = s.state
<1> DEFINE q == s.segments_outstanding
           p == acked(q, ack)
           t == pop_acked(s, ack)
           z == SubSeq(q, p + 1, Len(q))
           l == total_length(q, p)
<1>1. s \in Senders /\ q \in Seq(Outstanding)
  BY DEF SenderInv, Senders
<1>2. p \in 0 .. Len(q) /\ \A i \in 1 .. p : end_of(q[i]) <= ack
  <2> HIDE DEF q
  <2> QED BY <1>1, Acked
<1>3. CASE p = 0
  <2>1. t = s
    BY <1>3 DEF pop_acked
  <2>2. una(s) \in Int
    BY <1>1 DEF Senders, una
  <2> HIDE DEF t
  <2> QED BY <2>1, <2>2 DEF t
<1>4. CASE p # 0
  <2>1. /\ s.next_seqno \in Nat /\ s.bytes_in_flight \in Nat
        /\ s.bytes_in_flight <= s.next_seqno
        /\ Chain(q, una(s), s.next_seqno)
        /\ s.initial_retransmission_timeout \in 1 .. UInt - 1
        /\ s.state = "CLOSED" => q = <<>>
        /\ s.state # "CLOSED" => s.next_seqno > 0 /\ s.alarm_run
    BY DEF SenderInv, Senders, una
  <2>2. una(s) \in Nat
    BY <2>1 DEF una
  <2> HIDE DEF q
  <2>3. l = end_of(q[p]) - una(s)
    <3> HIDE DEF p
    <3> QED BY <1>1, <1>2, <1>4, <2>1, <2>2, TotalLength
  <2>4. z \in Seq(Outstanding) /\ Chain(z, end_of(q[p]), s.next_seqno)
    <3>1. p \in 1 .. Len(q)
      BY <1>2, <1>4
    <3> HIDE DEF p
    <3> QED BY <1>1, <2>1, <2>2, <3>1, ChainSuffix
  <2>5. end_of(q[p]) \in Nat /\ end_of(q[p]) <= ack
    <3>1. p \in 1 .. Len(q) /\ p \in 1 .. p
      BY <1>1, <1>2, <1>4
    <3> HIDE DEF p
    <3> QED BY <1>1, <1>2, <3>1, SegmentLength
  <2>6. una(s) <= end_of(q[p])
    <3>1. p \in 1 .. Len(q)
      BY <1>1, <1>2, <1>4
    <3> HIDE DEF p
    <3> QED BY <1>1, <2>1, <2>2, <3>1, ChainOrder
  <2>7. t = [s EXCEPT !.segments_outstanding = z,
                      !.bytes_in_flight = s.bytes_in_flight - l,
                      !.remaining_time = 0,
                      !.retransmission_timeout = s.initial_retransmission_timeout]
    BY <1>4 DEF pop_acked, q
  <2> HIDE DEF p, t, z, l
  <2> DEFINE e == end_of(q[p])
  <2> HIDE DEF e
  <2>8. /\ s.bytes_in_flight - l \in Nat
        /\ s.bytes_in_flight - l <= s.next_seqno
        /\ s.next_seqno - (s.bytes_in_flight - l) = e
    <3>1. l = e - (s.next_seqno - s.bytes_in_flight)
      BY <2>3 DEF e, una
    <3>2. e \in Nat /\ e <= s.next_seqno /\ s.next_seqno - s.bytes_in_flight <= e
      BY <2>1, <2>5, <2>6 DEF e, una
    <3> QED BY <2>1, <3>1, <3>2
  <2>9. /\ t \in Senders
        /\ t.segments_outstanding = z
        /\ t.bytes_in_flight = s.bytes_in_flight - l
        /\ t.remaining_time = 0
        /\ t.next_seqno = s.next_seqno
        /\ t.window_size = s.window_size
        /\ t.state = s.state
        /\ t.alarm_run = s.alarm_run
    <3>1. 0 \in 0 .. UInt - 1 /\ s.initial_retransmission_timeout \in 0 .. UInt - 1
      BY <2>1, SenderConstants
    <3>2. z \in Seq(Outstanding) /\ s.bytes_in_flight - l \in Nat
      BY <2>4, <2>8
    <3> QED BY <1>1, <2>7, <3>1, <3>2, Zenon DEF Senders
  <2>10. una(t) = e
    BY <2>8, <2>9 DEF una
  <2>11. s.state # "CLOSED"
    BY <1>1, <1>2, <1>4, <2>1
  <2>12. SenderInv(t)
    BY <2>1, <2>4, <2>8, <2>9, <2>10, <2>11 DEF SenderInv, una, e
  <2> QED BY <2>5, <2>6, <2>9, <2>10, <2>12 DEF t, e
<1> QED BY <1>3, <1>4

LEMMA UnwrapType ==
    ASSUME NEW n \in WrappingInt32, NEW isn \in WrappingInt32, NEW c \in Nat
    PROVE  unwrap(n, isn, c) \in Nat
<1> DEFINE o == offset_from(n, isn)
           r == unwrap(n, isn, c)
<1>1. /\ o \in 0 .. Modulus - 1
      /\ c <= o => r = o
      /\ c > o => \E f \in Nat : /\ o + Modulus * f <= c
                                 /\ c < o + Modulus * f + Modulus
                                 /\ r = nearer(o + Modulus * f, c)
  BY UnwrapCases
<1>2. Modulus \in Nat /\ o \in Nat
  BY <1>1, ModulusAssumption
<1> HIDE DEF o, r
<1>3. CASE c > o
  <2>1. PICK f \in Nat : r = nearer(o + Modulus * f, c)
    BY <1>1, <1>3
  <2>2. Modulus * f \in Nat
    BY <1>2
  <2> QED BY <1>2, <2>1, <2>2 DEF nearer, r
<1>4. CASE c <= o
  BY <1>1, <1>2, <1>4 DEF r
<1> QED BY <1>2, <1>3, <1>4

LEMMA ReceivedAckno ==
    ASSUME NEW s \in Senders, NEW ackno \in WrappingInt32
    PROVE  received_ackno(s, ackno) \in Nat
<1>1. s.isn \in WrappingInt32 /\ s.stream.bytes_read \in Nat
  BY DEF Senders, Streams
<1> QED BY <1>1, UnwrapType DEF received_ackno

LEMMA SynAcked ==
    ASSUME NEW s, SenderInv(s)
    PROVE  /\ SenderInv(syn_acked(s))
           /\ una(syn_acked(s)) = una(s)
           /\ syn_acked(s).next_seqno = s.next_seqno
           /\ syn_acked(s).bytes_in_flight = s.bytes_in_flight
           /\ syn_acked(s).window_size = s.window_size
<1> DEFINE t == syn_acked(s)
           x == IF s.state = "SYN_SENT" /\ s.bytes_in_flight < s.next_seqno
                  THEN "SYN_ACKED" ELSE s.state
<1>1. s \in Senders
  BY DEF SenderInv
<1>2. t = [s EXCEPT !.state = x]
  BY DEF syn_acked
<1>3. x \in {"CLOSED", "SYN_SENT", "SYN_ACKED", "FIN_SENT"} /\ (x = "CLOSED" <=> s.state = "CLOSED")
  BY <1>1 DEF Senders
<1> HIDE DEF t, x
<1>4. /\ t \in Senders /\ t.state = x
      /\ t.next_seqno = s.next_seqno /\ t.bytes_in_flight = s.bytes_in_flight
      /\ t.window_size = s.window_size /\ t.alarm_run = s.alarm_run
      /\ t.segments_outstanding = s.segments_outstanding
      /\ t.remaining_time = s.remaining_time
      /\ t.retransmission_timeout = s.retransmission_timeout
  BY <1>1, <1>2, <1>3, Zenon DEF Senders
<1> QED BY <1>3, <1>4 DEF SenderInv, una, t

LEMMA AckReceivedStep ==
    ASSUME NEW s, SenderInv(s), NEW ackno \in WrappingInt32, NEW window \in Nat
    PROVE  LET t == ack_received(s, ackno, window)
               ack == received_ackno(s, ackno)
           IN  /\ SenderInv(t)
               /\ una(s) <= una(t)
               /\ una(t) = una(s) \/ (valid_ack(s, ack) /\ una(t) <= ack)
               /\ \/ t.next_seqno = s.next_seqno
                  \/ s.next_seqno = 0
                  \/ t.bytes_in_flight <= t.window_size
                  \/ t.window_size = 0 /\ t.bytes_in_flight = 1
<1> DEFINE ack == received_ackno(s, ackno)
           s1 == [s EXCEPT !.window_size = window, !.retransmission_count = 0]
           p1 == pop_acked(s1, ack)
           s2 == syn_acked(p1)
           t == ack_received(s, ackno, window)
<1>1. s \in Senders
  BY DEF SenderInv
<1>2. ack \in Nat
  BY <1>1, ReceivedAckno
<1>3. una(s) \in Int
  BY <1>1 DEF Senders, una
<1>4. CASE ~valid_ack(s, ack)
  <2>1. t = s
    BY <1>4 DEF ack_received
  <2> HIDE DEF t, ack
  <2> QED BY <1>3, <2>1 DEF t, ack
<1>5. CASE valid_ack(s, ack)
  <2>1. /\ s1 \in Senders /\ s1.next_seqno = s.next_seqno
        /\ s1.bytes_in_flight = s.bytes_in_flight /\ s1.state = s.state
        /\ s1.alarm_run = s.alarm_run /\ s1.segments_outstanding = s.segments_outstanding
        /\ s1.remaining_time = s.remaining_time
        /\ s1.retransmission_timeout = s.retransmission_timeout
    BY <1>1, Zenon DEF Senders
  <2> HIDE DEF s1
  <2>2. SenderInv(s1) /\ una(s1) = una(s)
    BY <2>1 DEF SenderInv, una
  <2>3. ack <= s1.next_seqno
    BY <1>5, <2>1 DEF valid_ack
  <2> HIDE DEF ack
  <2>4. /\ SenderInv(p1) /\ una(s1) <= una(p1)
        /\ una(p1) = una(s1) \/ una(p1) <= ack
        /\ p1.next_seqno = s.next_seqno
    BY <1>2, <2>1, <2>2, <2>3, PopAcked
  <2> HIDE DEF p1
  <2>5. /\ SenderInv(s2) /\ una(s2) = una(p1)
        /\ s2.next_seqno = s.next_seqno
    BY <2>4, SynAcked
  <2>6. t = IF s2.state = "SYN_ACKED" THEN fill_window(s2) ELSE s2
    BY <1>5 DEF ack_received, ack, s1, p1
  <2> HIDE DEF s2, t
  <2>7. /\ SenderInv(t) /\ una(t) = una(s2)
        /\ \/ t.next_seqno = s2.next_seqno
           \/ s2.next_seqno = 0
           \/ t.bytes_in_flight <= t.window_size
           \/ t.window_size = 0 /\ t.bytes_in_flight = 1
    <3>1. CASE s2.state = "SYN_ACKED"
      BY <2>5, <2>6, <3>1, FillWindowStep
    <3>2. CASE s2.state # "SYN_ACKED"
      BY <2>5, <2>6, <3>2
    <3> QED BY <3>1, <3>2
  <2> QED BY <1>3, <1>5, <2>2, <2>4, <2>5, <2>7 DEF t, ack
<1> QED BY <1>4, <1>5

------------------------------------------------------------------------------
(* The other operations.                                                   *)

\* The application writes the next bytes of its stream; those that do not fit are
\* refused.
LEMMA WriteStream ==
    ASSUME NEW b \in Streams, NEW n \in Nat
    PROVE  LET t == Stream!write(b, Stream!Bytes(b.bytes_written, n))
           IN  /\ t \in Streams
               /\ t.bytes_read = b.bytes_read
               /\ t.end_input = b.end_input
               /\ b.end_input => t = b
<1> DEFINE data == Stream!Bytes(b.bytes_written, n)
           a == Stream!accepted(b, data)
           x == SubSeq(data, 1, a)
           t == Stream!write(b, data)
<1>1. /\ b.buffer \in Seq(Int) /\ b.capacity \in Nat /\ b.bytes_written \in Nat
      /\ b.bytes_read \in Nat /\ b.end_input \in BOOLEAN
      /\ b.bytes_written = b.bytes_read + Len(b.buffer) /\ Len(b.buffer) <= b.capacity
      /\ \A j \in 1 .. Len(b.buffer) : b.buffer[j] = b.bytes_read + j - 1
  BY DEF Streams, Stream!StreamOK
<1>2. /\ data \in Seq(Int) /\ Len(data) = n
      /\ \A j \in 1 .. n : data[j] = b.bytes_written + j - 1
  BY <1>1 DEF Stream!Bytes
<1> HIDE DEF data
<1>3. a \in 0 .. n /\ Len(b.buffer) + a <= b.capacity /\ (b.end_input => a = 0)
  BY <1>1, <1>2 DEF Stream!accepted, Stream!min, Stream!remaining_capacity
<1>4. t = [b EXCEPT !.buffer = b.buffer \o x, !.bytes_written = b.bytes_written + a]
  BY DEF Stream!write
<1> HIDE DEF a
<1>5. x \in Seq(Int) /\ Len(x) = a /\ \A j \in 1 .. a : x[j] = data[j]
  BY <1>2, <1>3
<1> HIDE DEF x, t
<1>6. /\ b.buffer \o x \in Seq(Int) /\ Len(b.buffer \o x) = Len(b.buffer) + a
      /\ \A j \in 1 .. Len(b.buffer) : (b.buffer \o x)[j] = b.buffer[j]
      /\ \A j \in 1 .. a : (b.buffer \o x)[Len(b.buffer) + j] = x[j]
  <2> DEFINE u == b.buffer
  <2>1. u \in Seq(Int) /\ x \in Seq(Int)
    BY <1>1, <1>5
  <2> HIDE DEF u
  <2>2. /\ u \o x \in Seq(Int) /\ Len(u \o x) = Len(u) + Len(x)
        /\ \A j \in 1 .. Len(u) : (u \o x)[j] = u[j]
        /\ \A j \in 1 .. Len(x) : (u \o x)[Len(u) + j] = x[j]
    BY <2>1
  <2> QED BY <1>5, <2>2 DEF u
<1>7. b.bytes_written + a \in Nat
  BY <1>1, <1>3
<1>8. /\ t \in [buffer : Seq(Int), capacity : Nat, bytes_written : Nat, bytes_read : Nat,
                end_input : BOOLEAN, error : {FALSE}]
      /\ t.buffer = b.buffer \o x /\ t.capacity = b.capacity
      /\ t.bytes_written = b.bytes_written + a /\ t.bytes_read = b.bytes_read
      /\ t.end_input = b.end_input
  BY <1>4, <1>6, <1>7, Zenon DEF Streams
<1>9. Stream!StreamOK(t)
  <2>1. t.bytes_written = t.bytes_read + Len(t.buffer) /\ Len(t.buffer) <= t.capacity
    BY <1>1, <1>3, <1>6, <1>8
  <2>2. ASSUME NEW j \in 1 .. Len(t.buffer) PROVE t.buffer[j] = t.bytes_read + j - 1
    <3>1. CASE j <= Len(b.buffer)
      BY <1>1, <1>6, <1>8, <3>1
    <3>2. CASE j > Len(b.buffer)
      <4> DEFINE k == j - Len(b.buffer)
      <4>1. k \in 1 .. a /\ Len(b.buffer) + k = j
        <5>1. Len(b.buffer) \in Nat /\ a \in Nat /\ j \in 1 .. Len(b.buffer) + a
          BY <1>1, <1>3, <1>6, <1>8
        <5> QED BY <3>2, <5>1
      <4>2. t.buffer[j] = x[k] /\ x[k] = b.bytes_written + k - 1
        <5>1. t.buffer[j] = (b.buffer \o x)[Len(b.buffer) + k]
          BY <1>8, <4>1
        <5>2. k \in 1 .. n /\ x[k] = data[k]
          BY <1>3, <1>5, <4>1
        <5> HIDE DEF k
        <5> QED BY <1>2, <1>6, <4>1, <5>1, <5>2, Zenon
      <4>3. b.bytes_written + k - 1 = b.bytes_read + j - 1
        <5>1. Len(b.buffer) \in Nat /\ b.bytes_read \in Nat /\ k \in Int
          BY <1>1, <4>1
        <5>2. b.bytes_written = b.bytes_read + Len(b.buffer) /\ Len(b.buffer) + k = j
          BY <1>1, <4>1
        <5> HIDE DEF k
        <5> QED BY <5>1, <5>2
      <4> HIDE DEF k
      <4> QED BY <1>8, <4>2, <4>3
    <3> QED BY <1>1, <1>6, <1>8, <3>1, <3>2
  <2> QED BY <2>1, <2>2 DEF Stream!StreamOK
<1>10. ASSUME b.end_input PROVE t = b
  <2>1. a = 0 /\ x = <<>>
    BY <1>3, <1>5, <1>10
  <2>2. b.buffer \o x = b.buffer /\ b.bytes_written + a = b.bytes_written
    BY <1>1, <2>1
  <2> QED BY <1>4, <2>2, Zenon DEF Streams
<1> QED BY <1>8, <1>9, <1>10, Zenon DEF Streams, t, data

LEMMA EndInputStream ==
    ASSUME NEW b \in Streams
    PROVE  /\ Stream!end_input(b) \in Streams
           /\ Stream!end_input(b).end_input
           /\ Stream!end_input(b).bytes_read = b.bytes_read
           /\ Stream!end_input(b).bytes_written = b.bytes_written
           /\ Stream!end_input(b).buffer = b.buffer
BY Zenon DEF Stream!end_input, Streams, Stream!StreamOK

\* The fields the invariant reads.
SameInv(s, t) ==
    /\ t \in Senders
    /\ t.next_seqno = s.next_seqno /\ t.bytes_in_flight = s.bytes_in_flight
    /\ t.segments_outstanding = s.segments_outstanding
    /\ t.state = s.state /\ t.alarm_run = s.alarm_run
    /\ t.remaining_time > 0 => t.remaining_time < t.retransmission_timeout

LEMMA SameInvStep ==
    ASSUME NEW s, NEW t, SenderInv(s), SameInv(s, t)
    PROVE  SenderInv(t) /\ una(t) = una(s)
BY DEF SenderInv, SameInv, una

LEMMA StreamOnly ==
    ASSUME NEW s, SenderInv(s), NEW b \in Streams
    PROVE  SameInv(s, [s EXCEPT !.stream = b])
BY Zenon DEF SenderInv, SameInv, Senders

LEMMA OutOnly ==
    ASSUME NEW s, SenderInv(s), NEW z \in Seq(Segments)
    PROVE  SameInv(s, [s EXCEPT !.segments_out = z])
BY Zenon DEF SenderInv, SameInv, Senders

LEMMA SendEmpty ==
    ASSUME NEW s, SenderInv(s)
    PROVE  SameInv(s, send_empty_segment(s))
<1> DEFINE e == [empty_segment EXCEPT !.seqno = next_seqno(s)]
           z == Append(s.segments_out, e)
<1>1. s \in Senders /\ s.segments_out \in Seq(Segments)
  BY DEF SenderInv, Senders
<1>2. next_seqno(s) \in WrappingInt32
  BY <1>1, WrapType DEF next_seqno, Senders
<1>3. e \in Segments
  BY <1>2, EmptySegment, Zenon DEF empty_segment, Segments
<1>4. z \in Seq(Segments)
  <2> HIDE DEF e
  <2> QED BY <1>1, <1>3
<1>5. send_empty_segment(s) = [s EXCEPT !.segments_out = z]
  BY DEF send_empty_segment
<1> HIDE DEF z
<1> QED BY <1>4, <1>5, OutOnly

LEMMA TickStep ==
    ASSUME NEW s, SenderInv(s), NEW ms \in Nat
    PROVE  SameInv(s, tick(s, ms))
<1> DEFINE e == (s.remaining_time + ms) % UInt
           t == tick(s, ms)
<1>1. s \in Senders
  BY DEF SenderInv
<1>2. UInt \in Nat \ {0}
  BY SenderConstants
<1>3. e \in 0 .. UInt - 1
  <2>1. s.remaining_time + ms \in Nat
    BY <1>1, <1>2 DEF Senders
  <2> QED BY <1>2, <2>1
<1>4. SameInv(s, s)
  BY DEF SenderInv, SameInv
<1>5. CASE ~s.alarm_run
  <2>1. t = s
    BY <1>5 DEF tick
  <2> QED BY <1>4, <2>1
<1>6. CASE s.alarm_run /\ s.segments_outstanding = <<>>
  <2>1. t = [s EXCEPT !.remaining_time = 0]
    BY <1>6 DEF tick
  <2>2. 0 \in 0 .. UInt - 1
    BY <1>2
  <2> HIDE DEF t
  <2>3. SameInv(s, t)
    BY <1>1, <2>1, <2>2 DEF SameInv, Senders
  <2> QED BY <2>3 DEF t
<1>7. CASE s.alarm_run /\ s.segments_outstanding # <<>> /\ e >= s.retransmission_timeout
  <2> DEFINE o == Append(s.segments_out, Head(s.segments_outstanding).segment)
             r == IF s.window_size = 0 THEN s.retransmission_timeout
                  ELSE (2 * s.retransmission_timeout) % UInt
  <2>1. t = [s EXCEPT !.retransmission_timeout = r, !.segments_out = o,
                      !.retransmission_count = s.retransmission_count + 1,
                      !.remaining_time = 0]
    BY <1>7 DEF tick, retransmit
  <2>2. 0 \in 0 .. UInt - 1 /\ r \in 0 .. UInt - 1 /\ s.retransmission_count + 1 \in Nat
    <3>1. s.retransmission_timeout \in 0 .. UInt - 1 /\ s.retransmission_count \in Nat
      BY <1>1 DEF Senders
    <3>2. 2 * s.retransmission_timeout \in Nat
      BY <1>2, <3>1
    <3> QED BY <1>2, <3>1, <3>2
  <2>3. o \in Seq(Segments)
    <3>1. s.segments_out \in Seq(Segments) /\ s.segments_outstanding \in Seq(Outstanding)
      BY <1>1 DEF Senders
    <3>2. Head(s.segments_outstanding) \in Outstanding
      BY <1>7, <3>1, HeadTailProperties
    <3>3. Head(s.segments_outstanding).segment \in Segments
      BY <3>2 DEF Outstanding
    <3> QED BY <3>1, <3>3, AppendProperties
  <2> HIDE DEF t, o, r
  <2>4. /\ t \in Senders /\ t.remaining_time = 0
        /\ t.next_seqno = s.next_seqno /\ t.bytes_in_flight = s.bytes_in_flight
        /\ t.segments_outstanding = s.segments_outstanding
        /\ t.state = s.state /\ t.alarm_run = s.alarm_run
    BY <1>1, <2>1, <2>2, <2>3, Zenon DEF Senders
  <2>5. SameInv(s, t)
    BY <2>4 DEF SameInv
  <2> QED BY <2>5 DEF t
<1>8. CASE s.alarm_run /\ s.segments_outstanding # <<>> /\ ~(e >= s.retransmission_timeout)
  <2>1. t = [s EXCEPT !.remaining_time = e]
    BY <1>8 DEF tick
  <2>2. e < s.retransmission_timeout
    BY <1>1, <1>3, <1>8 DEF Senders
  <2> HIDE DEF t, e
  <2>3. /\ t \in Senders /\ t.remaining_time = e
        /\ t.next_seqno = s.next_seqno /\ t.bytes_in_flight = s.bytes_in_flight
        /\ t.segments_outstanding = s.segments_outstanding
        /\ t.state = s.state /\ t.alarm_run = s.alarm_run
        /\ t.retransmission_timeout = s.retransmission_timeout
    BY <1>1, <1>3, <2>1, Zenon DEF Senders
  <2>4. SameInv(s, t)
    BY <2>2, <2>3 DEF SameInv
  <2> QED BY <2>4 DEF t
<1> QED BY <1>5, <1>6, <1>7, <1>8

LEMMA NewSender ==
    /\ SenderInv(new_sender(Capacity, RetxTimeout, Isn))
    /\ una(new_sender(Capacity, RetxTimeout, Isn)) = 0
<1> DEFINE s == new_sender(Capacity, RetxTimeout, Isn)
           b == Stream!new_stream(Capacity)
<1>1. b \in Streams
  BY SenderAssumption DEF Stream!new_stream, Streams, Stream!StreamOK
<1>2. s \in Senders
  <2> HIDE DEF b
  <2>1. /\ Isn \in WrappingInt32 /\ RetxTimeout \in 1 .. UInt - 1
        /\ RetxTimeout \in 0 .. UInt - 1 /\ 0 \in 0 .. UInt - 1
    BY SenderAssumption, SenderConstants
  <2>2. s = [isn |-> Isn, segments_out |-> <<>>, initial_retransmission_timeout |-> RetxTimeout,
             stream |-> b, next_seqno |-> 0,
             segments_outstanding |-> <<>>, remaining_time |-> 0,
             retransmission_timeout |-> RetxTimeout, alarm_run |-> FALSE, bytes_in_flight |-> 0,
             state |-> "CLOSED", window_size |-> 1, retransmission_count |-> 0]
    BY DEF new_sender, b
  <2> HIDE DEF s
  <2> QED BY <1>1, <2>1, <2>2 DEF Senders
<1>3. /\ s.next_seqno = 0 /\ s.bytes_in_flight = 0 /\ s.segments_outstanding = <<>>
      /\ s.state = "CLOSED" /\ s.remaining_time = 0
  BY DEF new_sender
<1> HIDE DEF s
<1>4. Chain(<<>>, 0, 0)
  BY DEF Chain
<1> QED BY <1>2, <1>3, <1>4 DEF SenderInv, una, s

------------------------------------------------------------------------------
(* The specification.                                                      *)

\* The inductive invariant.
Inv ==
    /\ SenderInv(sender)
    /\ high_ack \in Nat
    /\ una(sender) <= high_ack

LEMMA InvInit == Init => Inv
BY NewSender DEF Init, Inv

\* What a step does to the window, next to preserving the invariant.
WithinWindow(s, t) ==
    \/ t.next_seqno = s.next_seqno
    \/ s.next_seqno = 0
    \/ t.bytes_in_flight <= t.window_size
    \/ t.window_size = 0 /\ t.bytes_in_flight = 1

LEMMA SameInvPreserves ==
    ASSUME Inv, SameInv(sender, sender'), UNCHANGED high_ack
    PROVE  Inv' /\ WithinWindow(sender, sender')
<1>1. SenderInv(sender') /\ una(sender') = una(sender)
  BY SameInvStep DEF Inv
<1> QED BY <1>1 DEF Inv, WithinWindow, SameInv

LEMMA InvNext ==
    ASSUME Inv, [Next]_vars
    PROVE  Inv' /\ WithinWindow(sender, sender')
<1>1. SenderInv(sender) /\ sender \in Senders /\ sender.stream \in Streams
      /\ high_ack \in Nat /\ una(sender) <= high_ack /\ una(sender) \in Int
  BY DEF Inv, SenderInv, Senders, una
<1>2. ASSUME NEW n \in 1 .. StreamLength, Write(n) PROVE Inv' /\ WithinWindow(sender, sender')
  <2> DEFINE b == Stream!write(sender.stream, Stream!Bytes(sender.stream.bytes_written, n))
  <2>1. b \in Streams
    <3>1. n \in Nat
      BY SenderAssumption
    <3> QED BY <1>1, <3>1, WriteStream
  <2>2. sender' = [sender EXCEPT !.stream = b] /\ UNCHANGED high_ack
    BY <1>2 DEF Write
  <2> HIDE DEF b
  <2> QED BY <1>1, <2>1, <2>2, StreamOnly, SameInvPreserves
<1>3. CASE EndInput
  <2>1. Stream!end_input(sender.stream) \in Streams
    BY <1>1, EndInputStream
  <2> QED BY <1>1, <1>3, <2>1, StreamOnly, SameInvPreserves DEF EndInput
<1>4. CASE FillWindow
  <2>1. sender' = fill_window(sender) /\ high_ack' = high_ack
    BY <1>4 DEF FillWindow
  <2>2. SenderInv(sender') /\ una(sender') = una(sender) /\ WithinWindow(sender, sender')
    BY <1>1, <2>1, FillWindowStep DEF WithinWindow
  <2> QED BY <1>1, <2>1, <2>2 DEF Inv
<1>5. ASSUME NEW ackno \in WrappingInt32, NEW window \in Windows, AckReceived(ackno, window)
      PROVE  Inv' /\ WithinWindow(sender, sender')
  <2> DEFINE ack == received_ackno(sender, ackno)
  <2>1. /\ sender' = ack_received(sender, ackno, window)
        /\ high_ack' = IF valid_ack(sender, ack) /\ ack > high_ack THEN ack ELSE high_ack
    BY <1>5 DEF AckReceived
  <2>2. window \in Nat
    BY SenderAssumption
  <2>3. ack \in Nat
    BY <1>1, ReceivedAckno
  <2>4. /\ SenderInv(sender')
        /\ una(sender') = una(sender) \/ (valid_ack(sender, ack) /\ una(sender') <= ack)
        /\ WithinWindow(sender, sender')
    BY <1>1, <2>1, <2>2, AckReceivedStep DEF WithinWindow
  <2>5. una(sender') \in Int
    BY <2>4 DEF SenderInv, Senders, una
  <2> HIDE DEF ack
  <2>6. high_ack' \in Nat /\ una(sender') <= high_ack'
    BY <1>1, <2>1, <2>3, <2>4, <2>5
  <2> QED BY <2>4, <2>6 DEF Inv
<1>6. CASE SendEmptySegment
  BY <1>1, <1>6, SendEmpty, SameInvPreserves DEF SendEmptySegment
<1>7. ASSUME NEW ms \in 1 .. RetxTimeout, Tick(ms) PROVE Inv' /\ WithinWindow(sender, sender')
  <2>1. ms \in Nat
    BY SenderAssumption
  <2> QED BY <1>1, <1>7, <2>1, TickStep, SameInvPreserves DEF Tick
<1>8. CASE Drain
  <2>1. <<>> \in Seq(Segments)
    OBVIOUS
  <2> QED BY <1>1, <1>8, <2>1, OutOnly, SameInvPreserves, Zenon DEF Drain
<1>9. CASE UNCHANGED vars
  BY <1>9 DEF vars, Inv, WithinWindow
<1> QED BY <1>2, <1>3, <1>4, <1>5, <1>6, <1>7, <1>8, <1>9 DEF Next

LEMMA InvAlways == Spec => []Inv
<1>1. Inv /\ [Next]_vars => Inv'
  BY InvNext
<1> QED BY InvInit, <1>1, PTL DEF Spec

\* Whatever calls are made, the counters, the timer and the state of the sender
\* stay within their types.
THEOREM TypeCorrect == Spec => []TypeOK
<1>1. Inv => TypeOK
  BY DEF Inv, SenderInv, Senders, TypeOK
<1> QED BY InvAlways, <1>1, PTL

\* _bytes_in_flight, which ack_received and fill_window update segment by
\* segment, is always the extent of the retransmission queue.
THEOREM FlightAccountingAlways == Spec => []FlightAccounting
<1>1. Inv => FlightAccounting
  <2> SUFFICES ASSUME Inv PROVE FlightAccounting
    OBVIOUS
  <2>1. /\ Chain(sender.segments_outstanding, sender.next_seqno - sender.bytes_in_flight,
                 sender.next_seqno)
        /\ sender.next_seqno \in Nat /\ sender.bytes_in_flight \in Nat
    BY DEF Inv, SenderInv, Senders
  <2> QED BY <2>1 DEF Chain, FlightAccounting
<1> QED BY InvAlways, <1>1, PTL

\* Nothing leaves the retransmission queue before it is acknowledged.
THEOREM NothingForgottenAlways == Spec => []NothingForgotten
<1>1. Inv => NothingForgotten
  BY DEF Inv, NothingForgotten, una
<1> QED BY InvAlways, <1>1, PTL

\* Unacknowledged segments are covered by a running timer that has not expired.
THEOREM TimerArmedAlways == Spec => []TimerArmed
<1>1. Inv => TimerArmed
  BY DEF Inv, SenderInv, TimerArmed
<1> QED BY InvAlways, <1>1, PTL

\* fill_window, called directly or by ack_received, never sends past the window.
THEOREM SendsWithinWindowAlways == Spec => SendsWithinWindow
<1>1. Inv /\ [Next]_vars =>
         [sender'.next_seqno > sender.next_seqno /\ sender.next_seqno > 0 =>
             \/ sender'.bytes_in_flight <= sender'.window_size
             \/ sender'.window_size = 0 /\ sender'.bytes_in_flight = 1]_vars
  <2> SUFFICES ASSUME Inv, [Next]_vars,
                      sender'.next_seqno > sender.next_seqno, sender.next_seqno > 0
               PROVE  \/ sender'.bytes_in_flight <= sender'.window_size
                      \/ sender'.window_size = 0 /\ sender'.bytes_in_flight = 1
    OBVIOUS
  <2>1. sender.next_seqno \in Nat
    BY DEF Inv, SenderInv, Senders
  <2>2. WithinWindow(sender, sender')
    BY InvNext
  <2>3. sender'.next_seqno # sender.next_seqno /\ sender.next_seqno # 0
    BY <2>1
  <2> QED BY <2>2, <2>3 DEF WithinWindow
<1> QED BY InvAlways, <1>1, PTL DEF Spec, SendsWithinWindow
=============================================================================
