------------------------ MODULE TCPSenderStateProofs ------------------------
(***************************************************************************)
(* What a TCPSender's _state says of its stream, and what its outstanding  *)
(* segments carry, on top of the invariant of TCPSenderProofs.             *)
(***************************************************************************)
EXTENDS TCPSenderProofs

\* Every segment of a queue carries the bytes that belong to its sequence number.
Placed(q, isn) ==
    \A i \in 1 .. Len(q) :
        /\ q[i].segment.seqno = wrap(q[i].seqno, isn)
        /\ \A j \in 1 .. Len(q[i].segment.payload) :
              q[i].segment.payload[j] = q[i].seqno + j - 2

\* Only the last segment of a queue may carry a FIN, and only after FIN_SENT.
FinAtEnd(q, state) ==
    \A i \in 1 .. Len(q) : q[i].segment.fin => i = Len(q) /\ state = "FIN_SENT"

\* How far _state says the stream has been sent.  This much holds in the middle of
\* ack_received too.
Progress(s) ==
    /\ s.state = "CLOSED" => s.stream.bytes_read = 0
    /\ s.state = "SYN_SENT" => s.next_seqno = 1 /\ s.stream.bytes_read = 0
    /\ s.state = "SYN_ACKED" => s.next_seqno = s.stream.bytes_read + 1
    /\ s.state = "FIN_SENT" =>
          /\ s.stream.end_input /\ s.stream.buffer = <<>>
          /\ s.next_seqno = s.stream.bytes_read + 2
    /\ s.state \in {"SYN_ACKED", "FIN_SENT"} => una(s) > 0
    /\ Placed(s.segments_outstanding, s.isn)
    /\ FinAtEnd(s.segments_outstanding, s.state)

\* Between calls, SYN_SENT also means that the SYN is not acknowledged.
StateInv(s) ==
    /\ SenderInv(s)
    /\ Progress(s)
    /\ s.state = "SYN_SENT" => una(s) = 0

------------------------------------------------------------------------------
(* fill_window                                                             *)

LEMMA MadeInPlace ==
    ASSUME NEW s \in Senders, room(s) > 0, s.next_seqno = s.stream.bytes_read + 1
    PROVE  /\ Placed(made(s), s.isn)
           /\ \A i \in 1 .. Len(made(s)) :
                 made(s)[i].segment.fin => i = Len(made(s)) /\ sends_fin(s)
<1>1. Len(made(s)) = segment_count(s) /\ segment_count(s) \in Nat
  BY MadeIsChain, Sendable, Zenon
<1>2. SUFFICES ASSUME NEW i \in 1 .. segment_count(s)
               PROVE  /\ made(s)[i].segment.seqno = wrap(made(s)[i].seqno, s.isn)
                      /\ \A j \in 1 .. Len(made(s)[i].segment.payload) :
                            made(s)[i].segment.payload[j] = made(s)[i].seqno + j - 2
                      /\ made(s)[i].segment.fin => i = segment_count(s) /\ sends_fin(s)
  BY <1>1 DEF Placed
<1>3. /\ made(s)[i].seqno = s.next_seqno + skipped(i)
      /\ made(s)[i].segment = segment(s, i)
  BY DEF made
<1>4. /\ segment(s, i).seqno = wrap(s.next_seqno + skipped(i), s.isn)
      /\ segment(s, i).payload = payload(s, i)
      /\ segment(s, i).fin = (sends_fin(s) /\ i = segment_count(s))
  BY SegmentMade
<1>5. ASSUME NEW j \in 1 .. Len(payload(s, i))
      PROVE  payload(s, i)[j] = s.next_seqno + skipped(i) + j - 2
  <2>1. /\ payload(s, i)[j] = s.stream.buffer[skipped(i) + j]
        /\ skipped(i) + j \in 1 .. Len(s.stream.buffer)
    BY Payload
  <2>2. /\ s.stream.bytes_read \in Nat
        /\ \A m \in 1 .. Len(s.stream.buffer) :
              s.stream.buffer[m] = s.stream.bytes_read + m - 1
    BY Zenon DEF Senders, Streams, Stream!StreamOK
  <2>3. skipped(i) \in Nat
    BY <1>1, Skipped
  <2>4. payload(s, i) \in Seq(Int)
    BY Payload
  <2>5. j \in Nat
    BY <2>4
  <2>6. payload(s, i)[j] = s.stream.bytes_read + (skipped(i) + j) - 1
    BY <2>1, <2>2
  <2> DEFINE x == s.stream.bytes_read
             k == skipped(i)
  <2>7. x \in Nat /\ k \in Nat /\ s.next_seqno = x + 1 /\ payload(s, i)[j] = x + (k + j) - 1
    BY <2>2, <2>3, <2>6
  <2> HIDE DEF x, k
  <2>8. x + (k + j) - 1 = x + 1 + k + j - 2
    BY <2>5, <2>7
  <2> QED BY <2>7, <2>8 DEF k
<1> QED BY <1>3, <1>4, <1>5, Zenon

LEMMA ConcatInPlace ==
    ASSUME NEW q \in Seq(Outstanding), NEW r \in Seq(Outstanding), NEW isn,
           Placed(q, isn), Placed(r, isn)
    PROVE  Placed(q \o r, isn)
<1> DEFINE z == q \o r
<1>1. /\ Len(z) = Len(q) + Len(r) /\ Len(q) \in Nat /\ Len(r) \in Nat
      /\ \A i \in 1 .. Len(q) : z[i] = q[i]
      /\ \A i \in 1 .. Len(r) : z[Len(q) + i] = r[i]
  BY ConcatElements
<1> HIDE DEF z
<1>2. ASSUME NEW i \in 1 .. Len(z)
      PROVE  \/ \E m \in 1 .. Len(q) : z[i] = q[m]
             \/ \E m \in 1 .. Len(r) : z[i] = r[m]
  <2>1. CASE i <= Len(q)
    BY <1>1, <2>1
  <2>2. CASE i > Len(q)
    <3>1. i - Len(q) \in 1 .. Len(r) /\ Len(q) + (i - Len(q)) = i
      BY <1>1, <2>2
    <3>2. z[i] = r[i - Len(q)]
      BY <1>1, <3>1
    <3> QED BY <3>1, <3>2
  <2> QED BY <1>1, <2>1, <2>2
<1>3. ASSUME NEW i \in 1 .. Len(z)
      PROVE  /\ z[i].segment.seqno = wrap(z[i].seqno, isn)
             /\ \A j \in 1 .. Len(z[i].segment.payload) :
                   z[i].segment.payload[j] = z[i].seqno + j - 2
  <2>1. CASE \E m \in 1 .. Len(q) : z[i] = q[m]
    BY <2>1, Zenon DEF Placed
  <2>2. CASE \E m \in 1 .. Len(r) : z[i] = r[m]
    BY <2>2, Zenon DEF Placed
  <2> QED BY <1>2, <2>1, <2>2
<1>4. Placed(z, isn)
  BY <1>3, Zenon DEF Placed
<1> QED BY <1>4 DEF z

LEMMA SendSynState ==
    ASSUME NEW s, StateInv(s), s.state = "CLOSED"
    PROVE  StateInv(send_syn_segment(s))
<1> DEFINE syn == [empty_segment EXCEPT !.seqno = next_seqno(s), !.syn = TRUE]
           o == [seqno |-> 0, segment |-> syn]
           t == send_syn_segment(s)
<1>1. /\ s \in Senders /\ s.next_seqno = 0 /\ s.segments_outstanding = <<>>
      /\ s.stream.bytes_read = 0
  BY DEF StateInv, Progress, SenderInv
<1>2. SenderInv(t) /\ una(t) = una(s)
  BY SendSyn DEF StateInv
<1>3. una(s) = 0
  BY <1>1 DEF StateInv, SenderInv, Chain, Senders, una
<1>4. /\ syn.seqno = wrap(0, s.isn) /\ syn.fin = FALSE /\ syn.payload = <<>>
      /\ o.seqno = 0 /\ o.segment = syn
  BY <1>1 DEF empty_segment, next_seqno
<1>5. /\ t.state = "SYN_SENT" /\ t.next_seqno = 1 /\ t.isn = s.isn /\ t.stream = s.stream
      /\ t.segments_outstanding = Append(<<>>, o)
  BY <1>1 DEF send_syn_segment, Senders
<1> HIDE DEF syn, o, t
<1>6. Len(t.segments_outstanding) = 1 /\ t.segments_outstanding[1] = o
  BY <1>5
<1>7. Placed(t.segments_outstanding, t.isn) /\ FinAtEnd(t.segments_outstanding, t.state)
  <2>1. \A i \in 1 .. Len(t.segments_outstanding) : t.segments_outstanding[i] = o
    BY <1>6
  <2>2. 1 .. Len(o.segment.payload) = {} /\ o.segment.fin = FALSE
    BY <1>4
  <2>3. o.segment.seqno = wrap(o.seqno, t.isn)
    BY <1>4, <1>5
  <2> QED BY <2>1, <2>2, <2>3 DEF Placed, FinAtEnd
<1>8. Progress(t)
  BY <1>1, <1>5, <1>7 DEF Progress
<1> QED BY <1>2, <1>3, <1>8 DEF StateInv, t

LEMMA SendSegmentsState ==
    ASSUME NEW s, StateInv(s), s.state = "SYN_ACKED", room(s) > 0
    PROVE  StateInv(send_segments(s))
<1> DEFINE n == sendable(s)
           f == bit(sends_fin(s))
           q == s.segments_outstanding
           b == Stream!pop_output(s.stream, n)
           t == send_segments(s)
<1>1. /\ SenderInv(s) /\ s \in Senders /\ q \in Seq(Outstanding) /\ s.stream \in Streams
      /\ s.next_seqno \in Nat /\ s.next_seqno = s.stream.bytes_read + 1
      /\ una(s) > 0 /\ Placed(q, s.isn) /\ FinAtEnd(q, s.state)
  BY DEF StateInv, Progress, SenderInv, Senders
<1>2. SenderInv(t) /\ una(t) = una(s)
  BY <1>1, SendSegments
<1>3. /\ n \in Nat /\ n <= Len(s.stream.buffer) /\ sends_fin(s) \in BOOLEAN
  BY <1>1, Sendable
<1>4. /\ b.bytes_read = s.stream.bytes_read + n
      /\ b.end_input = s.stream.end_input
      /\ Len(b.buffer) = Len(s.stream.buffer) - n
      /\ b \in Streams
  <2> HIDE DEF n
  <2> QED BY <1>1, <1>3, PopOutput, Zenon
<1>5. /\ t.segments_outstanding = q \o made(s) /\ t.stream = b /\ t.isn = s.isn
      /\ t.state = IF sends_fin(s) THEN "FIN_SENT" ELSE "SYN_ACKED"
      /\ t.next_seqno = s.next_seqno + (n + f)
  BY <1>1, Zenon DEF send_segments, made, Senders
<1>6. made(s) \in Seq(Outstanding)
  BY <1>1, MadeIsChain, Zenon
<1>7. /\ Placed(made(s), s.isn)
      /\ \A i \in 1 .. Len(made(s)) :
            made(s)[i].segment.fin => i = Len(made(s)) /\ sends_fin(s)
  BY <1>1, MadeInPlace
<1>8. /\ sends_fin(s) => f = 1 /\ s.stream.end_input /\ n = Len(s.stream.buffer)
      /\ ~sends_fin(s) => f = 0
  BY DEF bit, sends_fin, Stream!buffer_size
<1> HIDE DEF n, f, b, t
<1>9. Placed(t.segments_outstanding, t.isn)
  BY <1>1, <1>5, <1>6, <1>7, ConcatInPlace
<1>10. FinAtEnd(t.segments_outstanding, t.state)
  <2> DEFINE z == q \o made(s)
  <2>1. /\ Len(z) = Len(q) + Len(made(s)) /\ Len(q) \in Nat /\ Len(made(s)) \in Nat
        /\ \A i \in 1 .. Len(q) : z[i] = q[i]
        /\ \A i \in 1 .. Len(made(s)) : z[Len(q) + i] = made(s)[i]
    BY <1>1, <1>6, ConcatElements
  <2>2. \A i \in 1 .. Len(q) : ~q[i].segment.fin
    BY <1>1 DEF FinAtEnd
  <2> HIDE DEF z, q
  <2>3. ASSUME NEW i \in 1 .. Len(z), z[i].segment.fin
        PROVE  i = Len(z) /\ sends_fin(s)
    <3>1. ~(i \in 1 .. Len(q))
      BY <2>1, <2>2, <2>3
    <3>2. i - Len(q) \in 1 .. Len(made(s)) /\ Len(q) + (i - Len(q)) = i
      BY <2>1, <3>1
    <3>3. z[i] = made(s)[i - Len(q)]
      BY <2>1, <3>2
    <3>4. i - Len(q) = Len(made(s)) /\ sends_fin(s)
      BY <1>7, <2>3, <3>2, <3>3
    <3> QED BY <2>1, <3>2, <3>4
  <2> QED BY <1>5, <2>3 DEF FinAtEnd, z, q
<1>11. CASE sends_fin(s)
  <2>1. t.state = "FIN_SENT" /\ t.stream.end_input
    BY <1>4, <1>5, <1>8, <1>11
  <2>2. t.stream.buffer = <<>>
    <3>1. b.buffer \in Seq(Int) /\ s.stream.buffer \in Seq(Int)
      BY <1>1, <1>4, Zenon DEF Streams
    <3>2. Len(b.buffer) = 0
      BY <1>4, <1>8, <1>11, <3>1
    <3> QED BY <1>5, <3>1, <3>2, EmptySeq
  <2>3. t.next_seqno = t.stream.bytes_read + 2
    <3>1. s.stream.bytes_read \in Nat /\ s.next_seqno = s.stream.bytes_read + 1 /\ n \in Nat
      BY <1>1, <1>3, Zenon DEF Streams
    <3>2. s.next_seqno + (n + 1) = s.stream.bytes_read + n + 2
      BY <3>1
    <3> QED BY <1>4, <1>5, <1>8, <1>11, <3>2
  <2>4. Progress(t)
    BY <1>1, <1>2, <1>9, <1>10, <2>1, <2>2, <2>3 DEF Progress
  <2> QED BY <1>2, <2>1, <2>4 DEF StateInv, t
<1>12. CASE ~sends_fin(s)
  <2>1. t.state = "SYN_ACKED"
    BY <1>5, <1>12
  <2>2. t.next_seqno = t.stream.bytes_read + 1
    <3>1. s.stream.bytes_read \in Nat /\ s.next_seqno = s.stream.bytes_read + 1 /\ n \in Nat
      BY <1>1, <1>3, Zenon DEF Streams
    <3>2. s.next_seqno + (n + 0) = s.stream.bytes_read + n + 1
      BY <3>1
    <3> QED BY <1>4, <1>5, <1>8, <1>12, <3>2
  <2>3. Progress(t)
    BY <1>1, <1>2, <1>9, <1>10, <2>1, <2>2 DEF Progress
  <2> QED BY <1>2, <2>1, <2>3 DEF StateInv, t
<1> QED BY <1>11, <1>12

LEMMA FillWindowState ==
    ASSUME NEW s, StateInv(s)
    PROVE  StateInv(fill_window(s))
<1>1. CASE s.state = "CLOSED"
  BY <1>1, SendSynState DEF fill_window
<1>2. CASE s.state = "SYN_ACKED" /\ room(s) > 0
  BY <1>2, SendSegmentsState DEF fill_window
<1>3. CASE s.state # "CLOSED" /\ ~(s.state = "SYN_ACKED" /\ room(s) > 0)
  BY <1>3 DEF fill_window
<1> QED BY <1>1, <1>2, <1>3

------------------------------------------------------------------------------
(* ack_received                                                            *)

LEMMA UnaType ==
    ASSUME NEW s, SenderInv(s)
    PROVE  una(s) \in Int
BY DEF SenderInv, Senders, una

LEMMA PopAckedProgress ==
    ASSUME NEW s, SenderInv(s), Progress(s), NEW ack \in Nat, ack <= s.next_seqno
    PROVE  Progress(pop_acked(s, ack))
<1> DEFINE q == s.segments_outstanding
           p == acked(q, ack)
           t == pop_acked(s, ack)
           z == SubSeq(q, p + 1, Len(q))
<1>1. s \in Senders /\ q \in Seq(Outstanding)
  BY DEF SenderInv, Senders
<1>2. p \in 0 .. Len(q)
  <2> HIDE DEF q
  <2> QED BY <1>1, Acked
<1>3. CASE p = 0
  BY <1>3 DEF pop_acked
<1>4. CASE p # 0
  <2>1. SenderInv(t) /\ una(s) <= una(t) /\ t.next_seqno = s.next_seqno /\ t.state = s.state
    BY PopAcked
  <2>2. t.segments_outstanding = z /\ t.stream = s.stream /\ t.isn = s.isn
    BY <1>1, <1>4, Zenon DEF pop_acked, Senders
  <2>3. una(s) \in Int /\ una(t) \in Int
    BY <2>1, UnaType
  <2>4. Placed(q, s.isn) /\ FinAtEnd(q, s.state)
    BY DEF Progress
  <2> HIDE DEF q, p, t
  <2>5. /\ Len(z) = Len(q) - p /\ Len(q) \in Nat
        /\ \A i \in 1 .. Len(q) - p : z[i] = q[p + i]
    <3>1. p + 1 \in 1 .. Len(q) + 1 /\ Len(q) \in p .. Len(q)
      BY <1>1, <1>2
    <3> QED BY <1>1, <1>2, <3>1, SubSeqProperties
  <2> HIDE DEF z
  <2>6. ASSUME NEW i \in 1 .. Len(z)
        PROVE  p + i \in 1 .. Len(q) /\ z[i] = q[p + i] /\ (p + i = Len(q) => i = Len(z))
    BY <1>2, <2>5
  <2>7. Placed(z, s.isn)
    BY <2>4, <2>6 DEF Placed
  <2>8. FinAtEnd(z, s.state)
    BY <2>4, <2>6 DEF FinAtEnd
  <2>9. s.state \in {"SYN_ACKED", "FIN_SENT"} => una(t) > 0
    BY <2>1, <2>3 DEF Progress
  <2>10. Progress(t)
    BY <2>1, <2>2, <2>7, <2>8, <2>9 DEF Progress
  <2> QED BY <2>10 DEF t
<1> QED BY <1>3, <1>4

\* syn_acked makes up for what an acknowledged SYN takes away.
LEMMA SynAckedState ==
    ASSUME NEW s, SenderInv(s), Progress(s)
    PROVE  StateInv(syn_acked(s))
<1> DEFINE t == syn_acked(s)
           x == IF s.state = "SYN_SENT" /\ s.bytes_in_flight < s.next_seqno
                  THEN "SYN_ACKED" ELSE s.state
<1>1. /\ s \in Senders /\ s.next_seqno \in Nat /\ s.bytes_in_flight \in Nat
      /\ s.bytes_in_flight <= s.next_seqno
  BY DEF SenderInv, Senders
<1>2. SenderInv(t) /\ una(t) = una(s)
  BY SynAcked
<1>3. /\ t.state = x /\ t.next_seqno = s.next_seqno /\ t.stream = s.stream /\ t.isn = s.isn
      /\ t.segments_outstanding = s.segments_outstanding
  BY <1>1 DEF syn_acked, Senders
<1>4. una(s) = s.next_seqno - s.bytes_in_flight
  BY DEF una
<1> HIDE DEF t
<1>5. CASE s.state = "SYN_SENT" /\ s.bytes_in_flight < s.next_seqno
  <2>1. t.state = "SYN_ACKED"
    BY <1>3, <1>5
  <2>2. una(t) > 0
    BY <1>1, <1>2, <1>4, <1>5
  <2>3. t.next_seqno = t.stream.bytes_read + 1
    BY <1>3, <1>5 DEF Progress
  <2>4. Placed(t.segments_outstanding, t.isn) /\ FinAtEnd(t.segments_outstanding, t.state)
    BY <1>3, <1>5 DEF Progress, FinAtEnd
  <2> QED BY <1>2, <2>1, <2>2, <2>3, <2>4 DEF StateInv, Progress, t
<1>6. CASE ~(s.state = "SYN_SENT" /\ s.bytes_in_flight < s.next_seqno)
  <2>1. t.state = s.state
    BY <1>3, <1>6
  <2>2. s.state = "SYN_SENT" => una(t) = 0
    BY <1>1, <1>2, <1>4, <1>6
  <2>3. Progress(t)
    BY <1>2, <1>3, <2>1 DEF Progress
  <2> QED BY <1>2, <2>1, <2>2, <2>3 DEF StateInv, t
<1> QED BY <1>5, <1>6

LEMMA AckReceivedState ==
    ASSUME NEW s, StateInv(s), NEW ackno \in WrappingInt32, NEW window \in Nat
    PROVE  StateInv(ack_received(s, ackno, window))
<1> DEFINE ack == received_ackno(s, ackno)
           s1 == [s EXCEPT !.window_size = window, !.retransmission_count = 0]
           p1 == pop_acked(s1, ack)
           s2 == syn_acked(p1)
<1>1. s \in Senders /\ SenderInv(s) /\ Progress(s)
  BY DEF StateInv, SenderInv
<1>2. ack \in Nat
  BY <1>1, ReceivedAckno
<1>3. CASE ~valid_ack(s, ack)
  BY <1>3 DEF ack_received
<1>4. CASE valid_ack(s, ack)
  <2>1. /\ s1 \in Senders /\ s1.next_seqno = s.next_seqno
        /\ s1.bytes_in_flight = s.bytes_in_flight /\ s1.state = s.state
        /\ s1.alarm_run = s.alarm_run /\ s1.segments_outstanding = s.segments_outstanding
        /\ s1.remaining_time = s.remaining_time
        /\ s1.retransmission_timeout = s.retransmission_timeout
        /\ s1.stream = s.stream /\ s1.isn = s.isn
    BY <1>1, Zenon DEF Senders
  <2>2. ack <= s1.next_seqno
    BY <1>4, <2>1 DEF valid_ack
  <2>3. ack_received(s, ackno, window) =
           IF s2.state = "SYN_ACKED" THEN fill_window(s2) ELSE s2
    BY <1>4 DEF ack_received
  <2> HIDE DEF s1, ack
  <2>4. SenderInv(s1) /\ Progress(s1)
    BY <1>1, <2>1 DEF SenderInv, Progress, una
  <2>5. SenderInv(p1) /\ Progress(p1)
    BY <1>2, <2>2, <2>4, PopAcked, PopAckedProgress
  <2> HIDE DEF p1
  <2>6. StateInv(s2)
    BY <2>5, SynAckedState
  <2> HIDE DEF s2
  <2> QED BY <2>3, <2>6, FillWindowState
<1> QED BY <1>3, <1>4

------------------------------------------------------------------------------
(* The specification.                                                      *)

\* A step that touches neither the queue nor what has been read of the stream, nor
\* a stream that has ended.
LEMMA SameState ==
    ASSUME NEW s, NEW t, StateInv(s), SameInv(s, t), t.isn = s.isn,
           t.stream.bytes_read = s.stream.bytes_read,
           s.stream.end_input => t.stream.end_input /\ t.stream.buffer = s.stream.buffer
    PROVE  StateInv(t)
<1>1. SenderInv(t) /\ una(t) = una(s)
  BY SameInvStep DEF StateInv
<1> QED BY <1>1 DEF StateInv, Progress, SameInv

LEMMA StateInvInit == Init => StateInv(sender)
<1> DEFINE s == new_sender(Capacity, RetxTimeout, Isn)
<1>1. SenderInv(s)
  BY NewSender
<1>2. s.state = "CLOSED" /\ s.stream.bytes_read = 0 /\ s.segments_outstanding = <<>>
  BY DEF new_sender, Stream!new_stream
<1> HIDE DEF s
<1>3. Placed(s.segments_outstanding, s.isn) /\ FinAtEnd(s.segments_outstanding, s.state)
  BY <1>2 DEF Placed, FinAtEnd
<1>4. StateInv(s)
  BY <1>1, <1>2, <1>3 DEF StateInv, Progress
<1> QED BY <1>4 DEF Init, s

LEMMA StateInvNext ==
    ASSUME StateInv(sender), [Next]_vars
    PROVE  StateInv(sender')
<1>1. SenderInv(sender) /\ sender \in Senders /\ sender.stream \in Streams
  BY DEF StateInv, SenderInv, Senders
<1>2. ASSUME NEW n \in 1 .. StreamLength, Write(n) PROVE StateInv(sender')
  <2> DEFINE b == Stream!write(sender.stream, Stream!Bytes(sender.stream.bytes_written, n))
  <2>1. /\ b \in Streams /\ b.bytes_read = sender.stream.bytes_read
        /\ sender.stream.end_input => b = sender.stream
    <3>1. n \in Nat
      BY SenderAssumption
    <3> QED BY <1>1, <3>1, WriteStream
  <2>2. sender' = [sender EXCEPT !.stream = b]
    BY <1>2 DEF Write
  <2> HIDE DEF b
  <2>3. SameInv(sender, sender') /\ sender'.isn = sender.isn /\ sender'.stream = b
    BY <1>1, <2>1, <2>2, StreamOnly DEF Senders
  <2> QED BY <2>1, <2>3, SameState
<1>3. CASE EndInput
  <2> DEFINE b == Stream!end_input(sender.stream)
  <2>1. /\ b \in Streams /\ b.bytes_read = sender.stream.bytes_read
        /\ b.end_input /\ b.buffer = sender.stream.buffer
    BY <1>1, EndInputStream
  <2>2. sender' = [sender EXCEPT !.stream = b]
    BY <1>3 DEF EndInput
  <2> HIDE DEF b
  <2>3. SameInv(sender, sender') /\ sender'.isn = sender.isn /\ sender'.stream = b
    BY <1>1, <2>1, <2>2, StreamOnly DEF Senders
  <2> QED BY <2>1, <2>3, SameState
<1>4. CASE FillWindow
  BY <1>4, FillWindowState DEF FillWindow
<1>5. ASSUME NEW ackno \in WrappingInt32, NEW window \in Windows, AckReceived(ackno, window)
      PROVE  StateInv(sender')
  <2>1. window \in Nat
    BY SenderAssumption
  <2> QED BY <1>5, <2>1, AckReceivedState DEF AckReceived
<1>6. CASE SendEmptySegment
  <2>1. SameInv(sender, sender')
    BY <1>1, <1>6, SendEmpty DEF SendEmptySegment
  <2>2. sender'.isn = sender.isn /\ sender'.stream = sender.stream
    BY <1>1, <1>6 DEF SendEmptySegment, send_empty_segment, Senders
  <2> QED BY <2>1, <2>2, SameState
<1>7. ASSUME NEW ms \in 1 .. RetxTimeout, Tick(ms) PROVE StateInv(sender')
  <2>1. SameInv(sender, sender')
    <3>1. ms \in Nat
      BY SenderAssumption
    <3> QED BY <1>1, <1>7, <3>1, TickStep DEF Tick
  <2>2. sender'.isn = sender.isn /\ sender'.stream = sender.stream
    BY <1>1, <1>7 DEF Tick, tick, retransmit, Senders
  <2> QED BY <2>1, <2>2, SameState
<1>8. CASE Drain
  <2>1. SameInv(sender, sender')
    <3>1. <<>> \in Seq(Segments)
      OBVIOUS
    <3> QED BY <1>1, <1>8, <3>1, OutOnly, Zenon DEF Drain
  <2>2. sender'.isn = sender.isn /\ sender'.stream = sender.stream
    BY <1>1, <1>8 DEF Drain, Senders
  <2> QED BY <2>1, <2>2, SameState
<1>9. CASE UNCHANGED vars
  BY <1>9 DEF vars
<1> QED BY <1>2, <1>3, <1>4, <1>5, <1>6, <1>7, <1>8, <1>9 DEF Next

LEMMA StateInvAlways == Spec => []StateInv(sender)
<1>1. StateInv(sender) /\ [Next]_vars => StateInv(sender)'
  BY StateInvNext
<1> QED BY StateInvInit, <1>1, PTL DEF Spec

\* The bytes fill_window puts in a segment are those of the stream at its sequence
\* number, and stay so for as long as tick may retransmit it.
THEOREM PayloadsInPlaceAlways == Spec => []PayloadsInPlace
<1>1. StateInv(sender) => PayloadsInPlace
  BY DEF StateInv, SenderInv, Progress, Placed, PayloadsInPlace, Senders, Streams
<1> QED BY StateInvAlways, <1>1, PTL

\* fill_window sends the FIN once, after the last byte of the stream, and nothing
\* follows it.
THEOREM FinIsLastAlways == Spec => []FinIsLast
<1>1. StateInv(sender) => FinIsLast
  <2> SUFFICES ASSUME StateInv(sender) PROVE FinIsLast
    OBVIOUS
  <2>1. /\ sender.stream.bytes_written = sender.stream.bytes_read + Len(sender.stream.buffer)
        /\ sender.stream.bytes_read \in Nat
    BY DEF StateInv, SenderInv, Senders, Streams, Stream!StreamOK
  <2>2. ASSUME sender.state = "FIN_SENT"
        PROVE  /\ Stream!eof(sender.stream)
               /\ sender.next_seqno = sender.stream.bytes_written + 2
    BY <2>1, <2>2 DEF StateInv, Progress, Stream!eof
  <2> QED BY <2>2 DEF StateInv, Progress, FinAtEnd, FinIsLast
<1> QED BY StateInvAlways, <1>1, PTL

\* The state that fill_window and ack_received keep in _state, and the one that
\* TCPState works out from the counters, never part.
THEOREM StatesAgreeAlways == Spec => []StatesAgree
<1>1. StateInv(sender) => StatesAgree
  <2> SUFFICES ASSUME StateInv(sender) PROVE StatesAgree
    OBVIOUS
  <2> DEFINE b == sender.stream
             x == sender.next_seqno
             f == sender.bytes_in_flight
  <2>1. /\ b.error = FALSE /\ b.bytes_read \in Nat /\ b.buffer \in Seq(Int)
        /\ b.bytes_written = b.bytes_read + Len(b.buffer)
        /\ x \in Nat /\ f \in Nat /\ f <= x
        /\ sender.state \in {"CLOSED", "SYN_SENT", "SYN_ACKED", "FIN_SENT"}
        /\ sender.state = "CLOSED" => x = 0
        /\ sender.state # "CLOSED" => x > 0
    BY Zenon DEF StateInv, SenderInv, Senders, Streams, Stream!StreamOK
  <2>2. /\ sender.state = "SYN_SENT" => x - f = 0
        /\ sender.state = "SYN_ACKED" => x = b.bytes_read + 1 /\ x - f > 0
        /\ sender.state = "FIN_SENT" =>
              b.end_input /\ b.buffer = <<>> /\ x = b.bytes_read + 2 /\ x - f > 0
    BY DEF StateInv, Progress, una
  <2>3. CASE sender.state = "CLOSED"
    <3>1. sender_summary(sender) = "CLOSED"
      BY <2>1, <2>3 DEF sender_summary
    <3> QED BY <2>3, <3>1 DEF StatesAgree
  <2>4. CASE sender.state = "SYN_SENT"
    <3>1. x # 0 /\ x = f
      BY <2>1, <2>2, <2>4
    <3>2. sender_summary(sender) = "SYN_SENT"
      BY <2>1, <3>1 DEF sender_summary
    <3> QED BY <2>4, <3>2 DEF StatesAgree
  <2>5. CASE sender.state = "SYN_ACKED"
    <3>1. x # 0 /\ x # f
      BY <2>1, <2>2, <2>5
    <3>2. b.buffer = <<>> => x < b.bytes_written + 2
      BY <2>1, <2>2, <2>5
    <3>3. sender_summary(sender) = "SYN_ACKED"
      BY <2>1, <3>1, <3>2 DEF sender_summary
    <3> QED BY <2>5, <3>3 DEF StatesAgree
  <2>6. CASE sender.state = "FIN_SENT"
    <3>1. x # 0 /\ x # f /\ b.end_input /\ b.buffer = <<>>
      BY <2>1, <2>2, <2>6
    <3>2. ~(x < b.bytes_written + 2)
      BY <2>1, <2>2, <2>6
    <3>3. sender_summary(sender) \in {"FIN_SENT", "FIN_ACKED"}
      BY <2>1, <3>1, <3>2 DEF sender_summary
    <3> QED BY <2>6, <3>3 DEF StatesAgree
  <2> QED BY <2>1, <2>3, <2>4, <2>5, <2>6
<1> QED BY StateInvAlways, <1>1, PTL
=============================================================================
