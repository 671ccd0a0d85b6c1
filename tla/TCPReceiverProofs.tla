------------------------- MODULE TCPReceiverProofs --------------------------
(***************************************************************************)
(* What a TCPReceiver promises its peer, for every capacity, stream and    *)
(* modulus: the acknowledgment number and the right edge of the window     *)
(* never move back, and unwrap finds the closest number in every state.    *)
(***************************************************************************)
EXTENDS TCPReceiverSpec, StreamReassemblerTheorems, WrappingIntegersTheorems

\* A ByteStream whose buffer holds what was written and not read.
IsStream(s) ==
    /\ \E S : s \in [buffer : Seq(S), capacity : Nat, bytes_written : Nat, bytes_read : Nat,
                     end_input : BOOLEAN, error : BOOLEAN]
    /\ s.bytes_written = s.bytes_read + Len(s.buffer)
    /\ Len(s.buffer) <= s.capacity

IsReassembler(r) ==
    /\ r = [buffer |-> r.buffer, expected |-> r.expected, eof_index |-> r.eof_index,
            output |-> r.output]
    /\ r.expected \in Nat
    /\ IsStream(r.output)

IsReceiver(r) ==
    /\ r = [reassembler |-> r.reassembler, in_listen |-> r.in_listen, isn |-> r.isn]
    /\ r.in_listen \in BOOLEAN
    /\ r.isn \in WrappingInt32
    /\ IsReassembler(r.reassembler)

\* t is s after more was written, and nothing read.
Grows(s, t) ==
    /\ t.capacity = s.capacity
    /\ t.bytes_read = s.bytes_read
    /\ t.bytes_written >= s.bytes_written
    /\ s.end_input => t.end_input

LEMMA AppendPart ==
    ASSUME NEW S, NEW u \in Seq(S), NEW d \in Seq(S), NEW k \in 0 .. Len(d)
    PROVE  u \o SubSeq(d, 1, k) \in Seq(S) /\ Len(u \o SubSeq(d, 1, k)) = Len(u) + k
<1>1. SubSeq(d, 1, k) \in Seq(S) /\ Len(SubSeq(d, 1, k)) = k
  OBVIOUS
<1> DEFINE v == SubSeq(d, 1, k)
<1> HIDE DEF v
<1>2. v \in Seq(S) /\ Len(v) = k
  BY <1>1 DEF v
<1>3. u \o v \in Seq(S) /\ Len(u \o v) = Len(u) + k
  BY <1>2
<1> QED
  BY <1>3 DEF v

\* ByteStream::write keeps a stream consistent; it never takes more than fits.
LEMMA WriteGrows ==
    ASSUME NEW s, IsStream(s), NEW data, NEW n \in Nat, DOMAIN data = 1 .. n,
           data = [j \in 1 .. n |-> data[j]]
    PROVE  IsStream(Stream!write(s, data)) /\ Grows(s, Stream!write(s, data))
<1>1. PICK S : s \in [buffer : Seq(S), capacity : Nat, bytes_written : Nat, bytes_read : Nat,
                      end_input : BOOLEAN, error : BOOLEAN]
  BY DEF IsStream
<1> DEFINE S2 == S \union {data[j] : j \in 1 .. n}
           k == Stream!accepted(s, data)
           t == Stream!write(s, data)
<1>2. data \in Seq(S2) /\ s.buffer \in Seq(S2) /\ Len(data) = n
  <2>1. \A j \in 1 .. n : data[j] \in S2
    OBVIOUS
  <2>2. data \in Seq(S2)
    BY <2>1, IsASeq
  <2>3. S \subseteq S2
    OBVIOUS
  <2> QED
    BY <1>1, <2>2, <2>3, SeqMonotonic, LenProperties
<1>3. k \in 0 .. n /\ k <= s.capacity - Len(s.buffer)
  <2>1. Len(s.buffer) \in Nat /\ s.capacity \in Nat /\ Len(s.buffer) <= s.capacity
    BY <1>1, LenProperties DEF IsStream
  <2> QED
    BY <1>2, <2>1 DEF Stream!accepted, Stream!min, Stream!remaining_capacity
<1> DEFINE z == s.buffer \o SubSeq(data, 1, k)
<1>4. t = [s EXCEPT !.buffer = z, !.bytes_written = s.bytes_written + k]
  BY DEF Stream!write
<1> HIDE DEF k, S2
<1>5. z \in Seq(S2) /\ Len(z) = Len(s.buffer) + k
  BY <1>2, <1>3, AppendPart, Zenon
<1>6. s.bytes_written + k \in Nat
  BY <1>1, <1>3
<1> HIDE DEF t, z
<1>7. /\ t \in [buffer : Seq(S2), capacity : Nat, bytes_written : Nat, bytes_read : Nat,
                end_input : BOOLEAN, error : BOOLEAN]
      /\ t.buffer = z
      /\ t.bytes_written = s.bytes_written + k
      /\ t.capacity = s.capacity /\ t.bytes_read = s.bytes_read /\ t.end_input = s.end_input
  BY <1>1, <1>4, <1>5, <1>6, Zenon
<1>8. Len(s.buffer) \in Nat
  BY <1>1, LenProperties
<1>9. t.bytes_written = t.bytes_read + Len(t.buffer) /\ Len(t.buffer) <= t.capacity
  BY <1>1, <1>3, <1>5, <1>7, <1>8 DEF IsStream
<1>10. IsStream(t)
  BY <1>7, <1>9 DEF IsStream
<1>11. Grows(s, t)
  BY <1>1, <1>3, <1>7 DEF Grows
<1> QED
  BY <1>10, <1>11 DEF t

\* Reading moves bytes from the buffer to the count of bytes read.
LEMMA PopMoves ==
    ASSUME NEW s, IsStream(s), NEW n \in Nat, n <= Stream!buffer_size(s)
    PROVE  /\ IsStream(Stream!pop_output(s, n))
           /\ Stream!pop_output(s, n).bytes_written = s.bytes_written
           /\ Stream!pop_output(s, n).bytes_read = s.bytes_read + n
           /\ Stream!pop_output(s, n).capacity = s.capacity
           /\ Stream!pop_output(s, n).end_input = s.end_input
<1>1. PICK S : s \in [buffer : Seq(S), capacity : Nat, bytes_written : Nat, bytes_read : Nat,
                      end_input : BOOLEAN, error : BOOLEAN]
  BY DEF IsStream
<1> DEFINE rest == SubSeq(s.buffer, n + 1, Len(s.buffer))
           t == Stream!pop_output(s, n)
<1>2. Len(s.buffer) \in Nat /\ n <= Len(s.buffer)
  BY <1>1, LenProperties DEF Stream!buffer_size
<1>3. rest \in Seq(S) /\ Len(rest) = Len(s.buffer) - n
  <2>1. s.buffer \in Seq(S)
    BY <1>1
  <2> QED
    BY <1>2, <2>1
<1>4. Stream!min(n, Stream!buffer_size(s)) = n
  BY <1>2 DEF Stream!min, Stream!buffer_size
<1>5. t = [s EXCEPT !.buffer = rest, !.bytes_read = s.bytes_read + n]
  BY <1>4 DEF Stream!pop_output
<1>6. s.bytes_read + n \in Nat
  BY <1>1
<1> HIDE DEF rest, t
<1>7. /\ t \in [buffer : Seq(S), capacity : Nat, bytes_written : Nat, bytes_read : Nat,
                end_input : BOOLEAN, error : BOOLEAN]
      /\ t.buffer = rest /\ t.bytes_read = s.bytes_read + n
      /\ t.bytes_written = s.bytes_written /\ t.capacity = s.capacity
      /\ t.end_input = s.end_input
  BY <1>1, <1>3, <1>5, <1>6, Zenon
<1>8. t.bytes_written = t.bytes_read + Len(t.buffer) /\ Len(t.buffer) <= t.capacity
  BY <1>1, <1>2, <1>3, <1>7 DEF IsStream
<1> QED
  BY <1>7, <1>8 DEF IsStream, t

\* Ending a stream changes nothing else.
LEMMA EndKeeps ==
    ASSUME NEW s, IsStream(s)
    PROVE  IsStream(Stream!end_input(s)) /\ Grows(s, Stream!end_input(s))
<1>1. PICK S : s \in [buffer : Seq(S), capacity : Nat, bytes_written : Nat, bytes_read : Nat,
                      end_input : BOOLEAN, error : BOOLEAN]
  BY DEF IsStream
<1> DEFINE t == Stream!end_input(s)
<1>2. t = [s EXCEPT !.end_input = TRUE]
  BY DEF Stream!end_input
<1> HIDE DEF t
<1>3. /\ t \in [buffer : Seq(S), capacity : Nat, bytes_written : Nat, bytes_read : Nat,
                end_input : BOOLEAN, error : BOOLEAN]
      /\ t.buffer = s.buffer /\ t.bytes_read = s.bytes_read
      /\ t.bytes_written = s.bytes_written /\ t.capacity = s.capacity /\ t.end_input
  BY <1>1, <1>2, Zenon
<1> QED
  BY <1>1, <1>3 DEF IsStream, Grows, t

LEMMA GrowsTransitive ==
    ASSUME NEW s, NEW t, NEW u, IsStream(s), IsStream(t), IsStream(u), Grows(s, t), Grows(t, u)
    PROVE  Grows(s, u)
<1>1. s.bytes_written \in Nat /\ t.bytes_written \in Nat /\ u.bytes_written \in Nat
  BY DEF IsStream
<1> QED
  BY <1>1 DEF Grows

LEMMA GrowsReflexive ==
    ASSUME NEW s, IsStream(s)
    PROVE  Grows(s, s)
BY DEF IsStream, Grows

\* The entries that fit are written, whatever the map holds.
LEMMA SendGrows ==
    ASSUME NEW r, IsReassembler(r)
    PROVE  /\ IsReassembler(send_to_bytestream(r))
           /\ Grows(r.output, send_to_bytestream(r).output)
<1> DEFINE x == r.expected
           room == Stream!remaining_capacity(r.output)
           e == next_expected(r)
           data == [j \in 1 .. e - x |-> byte_at(r.buffer, x + j - 1)]
           o == Stream!write(r.output, data)
           b == Restrict(r.buffer, {k \in DOMAIN r.buffer : k > e})
           t == send_to_bytestream(r)
<1>1. x \in Nat /\ room \in Nat
  <2>1. x \in Nat /\ IsStream(r.output)
    BY DEF IsReassembler
  <2>2. PICK S : r.output \in [buffer : Seq(S), capacity : Nat, bytes_written : Nat,
                               bytes_read : Nat, end_input : BOOLEAN, error : BOOLEAN]
    BY <2>1 DEF IsStream
  <2>3. Len(r.output.buffer) \in Nat /\ r.output.capacity \in Nat
    BY <2>2, LenProperties
  <2> QED
    BY <2>1, <2>3 DEF IsStream, Stream!remaining_capacity
<1>2. e \in Nat /\ e - x \in Nat
  <2>1. e \in x .. x + room
    BY <1>1, LoopStops
  <2> QED
    BY <1>1, <2>1
<1>3. IsStream(o) /\ Grows(r.output, o)
  <2>1. IsStream(r.output)
    BY DEF IsReassembler
  <2>2. DOMAIN data = 1 .. e - x /\ data = [j \in 1 .. e - x |-> data[j]]
    OBVIOUS
  <2> HIDE DEF data
  <2> QED
    BY <1>2, <2>1, <2>2, WriteGrows
<1>4. t = [r EXCEPT !.output = o, !.expected = e, !.buffer = b]
  BY DEF send_to_bytestream
<1> HIDE DEF o, e, b, t, data
<1>5. r = [buffer |-> r.buffer, expected |-> r.expected, eof_index |-> r.eof_index,
           output |-> r.output]
  BY DEF IsReassembler
<1>6. t = [buffer |-> b, expected |-> e, eof_index |-> r.eof_index, output |-> o]
  BY <1>4, <1>5, Zenon
<1> QED
  BY <1>2, <1>3, <1>6 DEF IsReassembler, t

\* push_substring as a whole.
LEMMA PushGrows ==
    ASSUME NEW r, IsReassembler(r), NEW data, NEW index, NEW eof
    PROVE  /\ IsReassembler(push_substring(r, data, index, eof))
           /\ Grows(r.output, push_substring(r, data, index, eof).output)
<1> DEFINE r1 == IF eof THEN [r EXCEPT !.eof_index = end_of(index, Len(data))] ELSE r
           ri == [r1 EXCEPT !.buffer = insert(r1.buffer, index, data)]
           r2 == IF end_of(index, Len(data)) > r.expected THEN send_to_bytestream(ri) ELSE r1
           r3 == [r2 EXCEPT !.output = Stream!end_input(r2.output)]
           t == push_substring(r, data, index, eof)
<1>1. t = IF r2.expected = r2.eof_index THEN r3 ELSE r2
  BY DEF push_substring
<1>2. r = [buffer |-> r.buffer, expected |-> r.expected, eof_index |-> r.eof_index,
           output |-> r.output]
  BY DEF IsReassembler
<1>3. IsReassembler(r1) /\ r1.output = r.output
  <2> DEFINE v == end_of(index, Len(data))
             q == [r EXCEPT !.eof_index = v]
  <2>1. r1 = IF eof THEN q ELSE r
    OBVIOUS
  <2> HIDE DEF v, r1
  <2>2. q = [buffer |-> r.buffer, expected |-> r.expected, eof_index |-> v, output |-> r.output]
    BY <1>2
  <2>3. IsReassembler(q) /\ q.output = r.output
    BY <2>2 DEF IsReassembler
  <2> QED
    BY <2>1, <2>3
<1>4. IsReassembler(ri) /\ ri.output = r.output
  <2> DEFINE b == insert(r1.buffer, index, data)
  <2>1. ri = [r1 EXCEPT !.buffer = b]
    OBVIOUS
  <2> HIDE DEF b, r1, ri
  <2>2. r1 = [buffer |-> r1.buffer, expected |-> r1.expected, eof_index |-> r1.eof_index,
              output |-> r1.output]
    BY <1>3 DEF IsReassembler
  <2>3. ri = [buffer |-> b, expected |-> r1.expected, eof_index |-> r1.eof_index,
              output |-> r1.output]
    BY <2>1, <2>2
  <2> QED
    BY <1>3, <2>3 DEF IsReassembler
<1> HIDE DEF r1, ri
<1>5. IsReassembler(r2) /\ Grows(r.output, r2.output)
  <2>1. IsReassembler(send_to_bytestream(ri)) /\ Grows(r.output, send_to_bytestream(ri).output)
    BY <1>4, SendGrows
  <2>2. Grows(r.output, r1.output)
    BY <1>3, GrowsReflexive DEF IsReassembler
  <2> QED
    BY <1>3, <2>1, <2>2
<1> HIDE DEF r2
<1>6. IsReassembler(r3) /\ Grows(r2.output, r3.output)
  <2> DEFINE o == Stream!end_input(r2.output)
  <2>1. IsStream(o) /\ Grows(r2.output, o)
    BY <1>5, EndKeeps DEF IsReassembler
  <2>2. r3 = [r2 EXCEPT !.output = o]
    OBVIOUS
  <2> HIDE DEF o, r3
  <2>3. r2 = [buffer |-> r2.buffer, expected |-> r2.expected, eof_index |-> r2.eof_index,
              output |-> r2.output]
    BY <1>5 DEF IsReassembler
  <2>4. r3 = [buffer |-> r2.buffer, expected |-> r2.expected, eof_index |-> r2.eof_index,
              output |-> o]
    BY <2>2, <2>3
  <2> QED
    BY <1>5, <2>1, <2>4 DEF IsReassembler
<1> HIDE DEF r3, t
<1>7. Grows(r.output, r3.output)
  BY <1>5, <1>6, GrowsTransitive DEF IsReassembler
<1> QED
  BY <1>1, <1>5, <1>6, <1>7 DEF t

\* segment_received gives the receiver no less than it had.
LEMMA ReceiverGrows ==
    ASSUME NEW r, IsReceiver(r), NEW seg, seg.seqno \in WrappingInt32
    PROVE  /\ IsReceiver(segment_received(r, seg))
           /\ Grows(stream_out(r), stream_out(segment_received(r, seg)))
<1> DEFINE r1 == synchronised(r, seg)
           a == push_substring(r1.reassembler, seg.payload, stream_index(r1, seg), seg.fin)
           r2 == [r1 EXCEPT !.reassembler = a]
           t == segment_received(r, seg)
<1>1. t = IF r.in_listen /\ ~seg.syn THEN r ELSE IF ~acceptable(r1, seg) THEN r1 ELSE r2
  BY DEF segment_received
<1>2. r = [reassembler |-> r.reassembler, in_listen |-> r.in_listen, isn |-> r.isn]
  BY DEF IsReceiver
<1>3. IsReceiver(r1) /\ r1.reassembler = r.reassembler
  <2> DEFINE v == seg.seqno
             q == [r EXCEPT !.in_listen = FALSE, !.isn = v]
  <2>1. r1 = IF r.in_listen THEN q ELSE r
    BY DEF synchronised
  <2>2. v \in WrappingInt32
    OBVIOUS
  <2> HIDE DEF r1, v
  <2> DEFINE R == [reassembler : {r.reassembler}, in_listen : BOOLEAN, isn : WrappingInt32]
  <2>3. r \in R
    BY DEF IsReceiver
  <2>4. q \in R
    BY <2>2, <2>3, Zenon
  <2> HIDE DEF q
  <2>5. IsReceiver(q) /\ q.reassembler = r.reassembler
    BY <2>4 DEF IsReceiver
  <2> QED
    BY <2>1, <2>5
<1>4. IsReassembler(a) /\ Grows(r.reassembler.output, a.output)
  <2> HIDE DEF r1
  <2>1. IsReassembler(r1.reassembler)
    BY <1>3 DEF IsReceiver
  <2> QED
    BY <1>3, <2>1, PushGrows
<1>5. IsReceiver(r2) /\ r2.reassembler = a
  <2> HIDE DEF a, r1
  <2>1. r1 = [reassembler |-> r1.reassembler, in_listen |-> r1.in_listen, isn |-> r1.isn]
    BY <1>3 DEF IsReceiver
  <2>2. r2 = [reassembler |-> a, in_listen |-> r1.in_listen, isn |-> r1.isn]
    BY <2>1
  <2> QED
    BY <1>3, <1>4, <2>2 DEF IsReceiver
<1> HIDE DEF r1, r2, t, a
<1>6. Grows(r.reassembler.output, r.reassembler.output)
  BY GrowsReflexive DEF IsReceiver, IsReassembler
<1> QED
  BY <1>1, <1>3, <1>4, <1>5, <1>6 DEF stream_out, t

------------------------------------------------------------------------------
\* What the peer is promised: the two numbers of an advertisement.
NoRetreat(r, t) ==
    /\ abs_ack(t) >= abs_ack(r)
    /\ abs_ack(t) + window_size(t) >= abs_ack(r) + window_size(r)

\* The right edge is what has been read, the capacity, and the SYN and FIN counted.
LEMMA RightEdge ==
    ASSUME NEW r, IsReceiver(r)
    PROVE  LET s == stream_out(r) IN
           /\ s.bytes_written \in Nat /\ s.bytes_read \in Nat /\ s.capacity \in Nat
           /\ bit(s.end_input) \in 0 .. 1
           /\ abs_ack(r) = s.bytes_written + 1 + bit(s.end_input)
           /\ abs_ack(r) + window_size(r) = s.bytes_read + s.capacity + 1 + bit(s.end_input)
<1> DEFINE s == stream_out(r)
<1>1. IsStream(s)
  BY DEF stream_out, IsReceiver, IsReassembler
<1>2. /\ abs_ack(r) = s.bytes_written + 1 + bit(s.end_input)
      /\ window_size(r) = s.capacity - Len(s.buffer)
  BY DEF abs_ack, window_size, Stream!remaining_capacity
<1> HIDE DEF s
<1>3. /\ s.bytes_written \in Nat /\ s.bytes_read \in Nat /\ s.capacity \in Nat
      /\ Len(s.buffer) \in Nat /\ s.bytes_written = s.bytes_read + Len(s.buffer)
  BY <1>1 DEF IsStream
<1>4. bit(s.end_input) \in 0 .. 1
  BY DEF bit
<1>5. (s.bytes_written + 1 + bit(s.end_input)) + (s.capacity - Len(s.buffer))
        = s.bytes_read + s.capacity + 1 + bit(s.end_input)
  <2> DEFINE w == s.bytes_written
             o == s.bytes_read
             c == s.capacity
             l == Len(s.buffer)
             e == bit(s.end_input)
  <2>1. w \in Nat /\ o \in Nat /\ c \in Nat /\ l \in Nat /\ e \in 0 .. 1 /\ w = o + l
    BY <1>3, <1>4, Zenon
  <2> HIDE DEF w, o, c, l, e
  <2>2. (w + 1 + e) + (c - l) = o + c + 1 + e
    BY <2>1
  <2> QED
    BY <2>2, Zenon DEF w, o, c, l, e
<1> QED
  BY <1>2, <1>3, <1>4, <1>5 DEF s

\* Writing moves neither number back, nor does reading.
LEMMA NoRetreatIf ==
    ASSUME NEW r, IsReceiver(r), NEW t, IsReceiver(t),
           stream_out(t).bytes_written >= stream_out(r).bytes_written,
           stream_out(t).bytes_read >= stream_out(r).bytes_read,
           stream_out(t).capacity = stream_out(r).capacity,
           stream_out(r).end_input => stream_out(t).end_input
    PROVE  NoRetreat(r, t)
<1> DEFINE w == stream_out(r).bytes_written
           o == stream_out(r).bytes_read
           c == stream_out(r).capacity
           e == bit(stream_out(r).end_input)
           w2 == stream_out(t).bytes_written
           o2 == stream_out(t).bytes_read
           e2 == bit(stream_out(t).end_input)
<1>1. /\ w \in Nat /\ o \in Nat /\ c \in Nat /\ e \in 0 .. 1
      /\ w2 \in Nat /\ o2 \in Nat /\ e2 \in 0 .. 1
      /\ w2 >= w /\ o2 >= o
  BY RightEdge
<1>2. e2 >= e
  BY DEF bit
<1>3. /\ abs_ack(r) = w + 1 + e /\ abs_ack(r) + window_size(r) = o + c + 1 + e
      /\ abs_ack(t) = w2 + 1 + e2 /\ abs_ack(t) + window_size(t) = o2 + c + 1 + e2
  BY RightEdge
<1> HIDE DEF w, o, c, e, w2, o2, e2
<1>4. w2 + 1 + e2 >= w + 1 + e /\ o2 + c + 1 + e2 >= o + c + 1 + e
  BY <1>1, <1>2
<1> QED
  BY <1>3, <1>4 DEF NoRetreat

\* Reading n bytes opens the window by n bytes and acknowledges nothing.
LEMMA ReadOpens ==
    ASSUME NEW r, IsReceiver(r), NEW n \in Nat, n <= Stream!buffer_size(stream_out(r))
    PROVE  LET t == [r EXCEPT !.reassembler.output = Stream!pop_output(@, n)]
           IN  IsReceiver(t) /\ NoRetreat(r, t)
<1> DEFINE s == stream_out(r)
           u == Stream!pop_output(s, n)
           b == r.reassembler
           a == [b EXCEPT !.output = u]
           t == [r EXCEPT !.reassembler = a]
<1>1. [r EXCEPT !.reassembler.output = Stream!pop_output(@, n)] = t
  BY DEF stream_out
<1>2. IsStream(s)
  BY DEF stream_out, IsReceiver, IsReassembler
<1>3. /\ IsStream(u) /\ u.bytes_written = s.bytes_written
      /\ u.bytes_read = s.bytes_read + n
      /\ u.capacity = s.capacity /\ u.end_input = s.end_input
  <2> HIDE DEF s
  <2> QED
    BY <1>2, PopMoves DEF s
<1> HIDE DEF u
<1>4. IsReassembler(a) /\ a.output = u
  <2>1. IsReassembler(b)
    BY DEF IsReceiver
  <2> HIDE DEF b
  <2>2. b = [buffer |-> b.buffer, expected |-> b.expected, eof_index |-> b.eof_index,
             output |-> b.output]
    BY <2>1 DEF IsReassembler
  <2>3. a = [buffer |-> b.buffer, expected |-> b.expected, eof_index |-> b.eof_index,
             output |-> u]
    BY <2>2
  <2> QED
    BY <1>3, <2>1, <2>3 DEF IsReassembler
<1> HIDE DEF a
<1>5. IsReceiver(t) /\ t.reassembler = a
  <2>1. r = [reassembler |-> r.reassembler, in_listen |-> r.in_listen, isn |-> r.isn]
    BY DEF IsReceiver
  <2>2. t = [reassembler |-> a, in_listen |-> r.in_listen, isn |-> r.isn]
    BY <2>1
  <2> QED
    BY <1>4, <2>2 DEF IsReceiver
<1> HIDE DEF t
<1>6. NoRetreat(r, t)
  <2>1. stream_out(t) = u
    BY <1>4, <1>5 DEF stream_out
  <2>2. u.bytes_read >= s.bytes_read
    <3> HIDE DEF s
    <3>1. s.bytes_read \in Nat
      BY <1>2 DEF IsStream
    <3> QED
      BY <1>3, <3>1
  <2>3. u.bytes_written >= s.bytes_written
    <3> HIDE DEF s
    <3>1. s.bytes_written \in Nat
      BY <1>2 DEF IsStream
    <3> QED
      BY <1>3, <3>1
  <2> QED
    BY <1>3, <1>5, <2>1, <2>2, <2>3, NoRetreatIf
<1> QED
  BY <1>1, <1>5, <1>6

LEMMA ReceiverInit == Init => IsReceiver(receiver)
<1> SUFFICES ASSUME Init PROVE IsReceiver(receiver)
  OBVIOUS
<1> DEFINE o == Stream!new_stream(Capacity)
           a == new_reassembler(Capacity)
<1>1. IsStream(o)
  <2>1. o \in [buffer : Seq(Nat), capacity : Nat, bytes_written : Nat, bytes_read : Nat,
               end_input : BOOLEAN, error : BOOLEAN]
    BY ReceiverAssumption DEF Stream!new_stream
  <2>2. o.buffer = <<>> /\ o.bytes_written = 0 /\ o.bytes_read = 0 /\ o.capacity = Capacity
    BY DEF Stream!new_stream
  <2> QED
    BY <2>1, <2>2, ReceiverAssumption DEF IsStream
<1>2. IsReassembler(a)
  <2> HIDE DEF o
  <2> QED
    BY <1>1 DEF IsReassembler, new_reassembler, o
<1>3. receiver = [reassembler |-> a, in_listen |-> TRUE, isn |-> 0]
  BY DEF Init, new_receiver
<1> HIDE DEF a
<1> QED
  BY <1>2, <1>3, ModulusAssumption DEF IsReceiver, WrappingInt32

\* Every step keeps the receiver's shape and takes nothing back.
LEMMA ReceiverStep ==
    ASSUME IsReceiver(receiver), [Next]_vars
    PROVE  IsReceiver(receiver)' /\ (receiver' = receiver \/ NoRetreat(receiver, receiver'))
<1>1. ASSUME NEW a \in Starts, NEW n \in 0 .. MaxPayload, NEW syn \in BOOLEAN,
             NEW fin \in BOOLEAN, SegmentReceived(a, n, syn, fin)
      PROVE  IsReceiver(receiver)' /\ NoRetreat(receiver, receiver')
  <2> DEFINE seg == Segment(a, n, syn, fin)
  <2>1. IsStream(stream_out(receiver))
    BY DEF stream_out, IsReceiver, IsReassembler
  <2>2. a \in Nat
    BY <2>1, ReceiverAssumption DEF Starts, IsStream
  <2>3. seg.seqno = wrap(a, PeerIsn)
    BY DEF Segment, empty_segment
  <2>4. wrap(a, PeerIsn) \in WrappingInt32
    <3>1. a + PeerIsn \in Int
      BY <2>2, ReceiverAssumption, ModulusAssumption DEF WrappingInt32
    <3> QED
      BY <3>1, DivMod DEF wrap, WrappingInt32
  <2>5. receiver' = segment_received(receiver, seg)
    BY <1>1 DEF SegmentReceived
  <2> HIDE DEF seg
  <2>6. IsReceiver(receiver') /\ Grows(stream_out(receiver), stream_out(receiver'))
    BY <2>3, <2>4, <2>5, ReceiverGrows
  <2>7. stream_out(receiver').bytes_read >= stream_out(receiver).bytes_read
    BY <2>1, <2>6 DEF Grows, IsStream
  <2> QED
    BY <2>6, <2>7, NoRetreatIf DEF Grows
<1>2. ASSUME NEW n \in 1 .. Capacity, Read(n)
      PROVE  IsReceiver(receiver)' /\ NoRetreat(receiver, receiver')
  <2>1. /\ n \in Nat /\ n <= Stream!buffer_size(stream_out(receiver))
        /\ receiver' = [receiver EXCEPT !.reassembler.output = Stream!pop_output(@, n)]
    BY <1>2, ReceiverAssumption DEF Read
  <2> QED
    BY <2>1, ReadOpens
<1>3. CASE UNCHANGED vars
  BY <1>3 DEF vars
<1> QED
  BY <1>1, <1>2, <1>3 DEF Next

\* Whatever arrives, in whatever order, and whenever the owner reads, neither the
\* acknowledgment number nor the right edge of the window moves back.
THEOREM WindowNeverShrinksAlways == Spec => WindowNeverShrinks
<1>1. IsReceiver(receiver) /\ [Next]_vars => IsReceiver(receiver)'
  BY ReceiverStep
<1>2. IsReceiver(receiver) /\ [Next]_vars =>
        [/\ abs_ack(receiver') >= abs_ack(receiver)
         /\ abs_ack(receiver') + window_size(receiver')
              >= abs_ack(receiver) + window_size(receiver)]_vars
  BY ReceiverStep DEF NoRetreat, vars
<1> QED
  BY ReceiverInit, <1>1, <1>2, PTL DEF Spec, WindowNeverShrinks

\* In every state, and for every number a header may hold, unwrap finds the
\* absolute number that the comment of wrapping_integers.cc promises.
THEOREM UnwrapIsClosestAlways == Spec => []UnwrapIsClosest
<1>1. IsReceiver(receiver) /\ [Next]_vars => IsReceiver(receiver)'
  BY ReceiverStep
<1>2. IsReceiver(receiver) => UnwrapIsClosest
  <2> SUFFICES ASSUME IsReceiver(receiver) PROVE UnwrapIsClosest
    OBVIOUS
  <2> DEFINE c == stream_out(receiver).bytes_written
             i == receiver.isn
  <2>1. c \in Nat /\ i \in WrappingInt32
    BY DEF stream_out, IsReceiver, IsReassembler, IsStream
  <2> HIDE DEF c, i
  <2>2. ASSUME NEW n \in WrappingInt32, NEW m \in 0 .. c + Modulus, wrap(m, i) = n
        PROVE  wrap(unwrap(n, i, c), i) = n
               /\ distance(unwrap(n, i, c), c) <= distance(m, c)
    <3>1. m \in Nat
      BY <2>1, ModulusAssumption
    <3> QED
      BY <2>1, <2>2, <3>1, UnwrapClosest
  <2> QED
    BY <2>2 DEF UnwrapIsClosest, c, i
<1> QED
  BY ReceiverInit, <1>1, <1>2, PTL DEF Spec
------------------------------------------------------------------------------
(* Every segment is put in its place.                                      *)

\* A receiver at work on a stream of length L that starts after the ISN i.
InOrder(r, L, C, i) ==
    /\ IsReceiver(r)
    /\ AtRest(r.reassembler, L, C)
    /\ ~r.in_listen => r.isn = i

\* seg carries the n bytes of that stream at absolute number a.
IsSegment(seg, a, n, L, i) ==
    /\ seg.seqno = wrap(a, i)
    /\ IsPiece(seg.payload, a - 1, n)
    /\ seg.syn \in BOOLEAN /\ seg.fin \in BOOLEAN
    /\ a = 0 => n = 0
    /\ seg.syn => a = 0
    /\ a + n <= L + 1
    /\ seg.fin => a + bit(seg.syn) + n = L + 1

\* The absolute number and the stream index that segment_received computes are
\* those of the segment, when it is less than half the sequence space away.
LEMMA IndexFound ==
    ASSUME NEW r, NEW L \in Nat, NEW C \in Nat, NEW i \in WrappingInt32, L < SizeT - 1,
           AtRest(r.reassembler, L, C), r.isn = i,
           NEW a \in Nat, NEW n \in Nat, NEW seg, IsSegment(seg, a, n, L, i),
           2 * distance(a, stream_out(r).bytes_written) < Modulus
    PROVE  LET index == stream_index(r, seg) IN
           /\ abs_seq(r, seg) = a
           /\ index \in Nat /\ IsPiece(seg.payload, index, n) /\ index + n < SizeT
           /\ n > 0 => index = a - 1 /\ index + n <= L
           /\ seg.fin => index + n = L
<1> DEFINE c == stream_out(r).bytes_written
           index == stream_index(r, seg)
<1>1. c \in Nat
  BY DEF stream_out, AtRest, Assembling, IsOutput
<1>2. /\ seg.seqno = wrap(a, i) /\ IsPiece(seg.payload, a - 1, n)
      /\ seg.syn \in BOOLEAN /\ seg.fin \in BOOLEAN
      /\ a = 0 => n = 0
      /\ seg.syn => a = 0
      /\ a + n <= L + 1
      /\ seg.fin => a + bit(seg.syn) + n = L + 1
  BY DEF IsSegment
<1>3. abs_seq(r, seg) = a
  <2>1. abs_seq(r, seg) = unwrap(wrap(a, i), i, c)
    BY <1>2 DEF abs_seq
  <2> HIDE DEF c
  <2>2. 2 * distance(a, c) < Modulus
    BY DEF c
  <2> QED
    BY <1>1, <2>1, <2>2, UnwrapOfWrap
<1>4. index = (a - bit(~seg.syn)) % SizeT
  BY <1>3 DEF stream_index
<1> HIDE DEF index
<1>5. SizeT \in Nat \ {0}
  BY SizeTAssumption
<1>6. \A x \in Nat : x < SizeT => x % SizeT = x
  BY <1>5
<1>7. CASE seg.syn
  <2>1. a = 0 /\ n = 0 /\ index = 0
    BY <1>2, <1>4, <1>5, <1>6, <1>7 DEF bit
  <2>2. IsPiece(seg.payload, index, n)
    BY <1>2, <2>1 DEF IsPiece
  <2>3. seg.fin => index + n = L
    BY <1>2, <1>7, <2>1 DEF bit
  <2> QED
    BY <1>3, <1>5, <2>1, <2>2, <2>3 DEF index
<1>8. CASE ~seg.syn /\ a > 0
  <2>1. a - 1 \in Nat /\ a - 1 < SizeT
    <3>1. a + n <= L + 1
      BY <1>2
    <3> QED
      BY <1>5, <1>8, <3>1
  <2>2. index = a - 1
    BY <1>4, <1>6, <1>8, <2>1 DEF bit
  <2>3. index + n < SizeT /\ index + n <= L /\ (seg.fin => index + n = L)
    <3>1. seg.fin => a + 0 + n = L + 1
      BY <1>2, <1>8 DEF bit
    <3>2. a + n <= L + 1
      BY <1>2
    <3> QED
      BY <1>5, <2>1, <2>2, <3>1, <3>2
  <2> QED
    BY <1>2, <1>3, <2>1, <2>2, <2>3 DEF index
<1>9. CASE ~seg.syn /\ a = 0
  <2>1. n = 0 /\ ~seg.fin
    BY <1>2, <1>9 DEF bit
  <2>2. index = SizeT - 1
    <3>1. index = (0 - 1) % SizeT
      BY <1>4, <1>9 DEF bit
    <3>2. (0 - 1) % SizeT = SizeT - 1
      BY <1>5
    <3> QED
      BY <3>1, <3>2
  <2>3. index \in Nat /\ index + n < SizeT
    BY <1>5, <2>1, <2>2
  <2>4. IsPiece(seg.payload, index, n)
    BY <1>2, <2>1 DEF IsPiece
  <2> QED
    BY <1>3, <2>1, <2>3, <2>4 DEF index
<1> QED
  BY <1>2, <1>7, <1>8, <1>9

\* segment_received keeps the receiver in order; it either leaves the reassembler
\* alone or hands it an acceptable segment at its place.
LEMMA ReceivedInOrder ==
    ASSUME NEW r, NEW L \in Nat, NEW C \in Nat, NEW i \in WrappingInt32, L < SizeT - 1,
           InOrder(r, L, C, i),
           NEW a \in Nat, NEW n \in Nat, NEW seg, IsSegment(seg, a, n, L, i),
           2 * distance(a, stream_out(r).bytes_written) < Modulus
    PROVE  LET t == segment_received(r, seg) IN
           /\ InOrder(t, L, C, i)
           /\ \/ t.reassembler = r.reassembler
              \/ /\ a < abs_ack(r) + window_size(r)
                 /\ \E index \in Nat :
                       /\ n > 0 => index = a - 1
                       /\ Pushed(r.reassembler, t.reassembler, seg.payload, index, n,
                                 seg.fin, L, C)
<1> DEFINE r1 == synchronised(r, seg)
           index == stream_index(r1, seg)
           q == push_substring(r1.reassembler, seg.payload, index, seg.fin)
           r2 == [r1 EXCEPT !.reassembler = q]
           t == segment_received(r, seg)
<1>1. t = IF r.in_listen /\ ~seg.syn THEN r ELSE IF ~acceptable(r1, seg) THEN r1 ELSE r2
  BY DEF segment_received
<1>2. IsReceiver(r) /\ AtRest(r.reassembler, L, C) /\ (~r.in_listen => r.isn = i)
  BY DEF InOrder
<1>3. seg.seqno = wrap(a, i) /\ (seg.syn => a = 0) /\ seg.fin \in BOOLEAN /\ seg.syn \in BOOLEAN
  BY DEF IsSegment
<1>4. seg.seqno \in WrappingInt32 /\ (a = 0 => seg.seqno = i)
  <2>1. a + i \in Int /\ i \in 0 .. Modulus - 1
    BY ModulusAssumption DEF WrappingInt32
  <2>2. wrap(a, i) \in WrappingInt32
    BY <2>1, DivMod DEF wrap, WrappingInt32
  <2>3. a = 0 => wrap(a, i) = i
    BY <2>1, ModulusAssumption DEF wrap
  <2> QED
    BY <1>3, <2>2, <2>3
<1>5. IsReceiver(t)
  BY <1>2, <1>4, ReceiverGrows
<1>6. CASE r.in_listen /\ ~seg.syn
  <2>1. t = r
    BY <1>1, <1>6
  <2> QED
    BY <2>1
<1>7. CASE ~(r.in_listen /\ ~seg.syn)
  <2>1. /\ r1.reassembler = r.reassembler /\ ~r1.in_listen /\ r1.isn = i
        /\ r1 = [reassembler |-> r1.reassembler, in_listen |-> r1.in_listen, isn |-> r1.isn]
    <3>1. r = [reassembler |-> r.reassembler, in_listen |-> r.in_listen, isn |-> r.isn]
          /\ r.in_listen \in BOOLEAN
      BY <1>2 DEF IsReceiver
    <3>2. CASE r.in_listen
      <4>1. seg.seqno = i
        BY <1>3, <1>4, <1>7, <3>2
      <4>2. r1 = [r EXCEPT !.in_listen = FALSE, !.isn = seg.seqno]
        BY <3>2 DEF synchronised
      <4> HIDE DEF r1
      <4>3. r1 = [reassembler |-> r.reassembler, in_listen |-> FALSE, isn |-> i]
        BY <3>1, <4>1, <4>2, Zenon
      <4> QED
        BY <4>3
    <3>3. CASE ~r.in_listen
      BY <1>2, <3>1, <3>3 DEF synchronised
    <3> QED
      BY <3>1, <3>2, <3>3
  <2>2. stream_out(r1) = stream_out(r) /\ AtRest(r1.reassembler, L, C)
    BY <1>2, <2>1 DEF stream_out
  <2>3. abs_ack(r1) = abs_ack(r) /\ window_size(r1) = window_size(r)
    BY <2>2 DEF abs_ack, window_size
  <2> HIDE DEF r1
  <2>4. /\ abs_seq(r1, seg) = a
        /\ index \in Nat /\ IsPiece(seg.payload, index, n) /\ index + n < SizeT
        /\ n > 0 => index = a - 1 /\ index + n <= L
        /\ seg.fin => index + n = L
    BY <2>1, <2>2, IndexFound
  <2> HIDE DEF index
  <2>5. Pushed(r1.reassembler, q, seg.payload, index, n, seg.fin, L, C)
    BY <1>3, <2>2, <2>4, PushAssembles
  <2>6. CASE ~acceptable(r1, seg)
    <3>1. t = r1
      BY <1>1, <1>7, <2>6
    <3> HIDE DEF t
    <3> QED
      BY <1>5, <2>1, <2>2, <3>1 DEF InOrder, t
  <2>7. CASE acceptable(r1, seg)
    <3>1. t = r2
      BY <1>1, <1>7, <2>7
    <3>2. a < abs_ack(r) + window_size(r)
      BY <2>3, <2>4, <2>7 DEF acceptable
    <3> HIDE DEF q, t
    <3>3. r2 = [reassembler |-> q, in_listen |-> r1.in_listen, isn |-> r1.isn]
      BY <2>1
    <3>4. t.reassembler = q /\ t.isn = i
      BY <2>1, <3>1, <3>3
    <3>5. AtRest(q, L, C)
      BY <2>5 DEF Pushed
    <3>6. InOrder(t, L, C, i)
      BY <1>5, <3>4, <3>5 DEF InOrder
    <3>7. Pushed(r.reassembler, t.reassembler, seg.payload, index, n, seg.fin, L, C)
      BY <2>1, <2>5, <3>4
    <3> QED
      BY <2>4, <3>2, <3>6, <3>7 DEF t
  <2> QED
    BY <2>6, <2>7
<1> QED
  BY <1>6, <1>7

\* The inductive invariant of the two properties below.
PlacedInv == InOrder(receiver, StreamLength, Capacity, PeerIsn) /\ StoredNearWindow

\* A reassembler at rest stores nothing once its output has ended.
LEMMA NothingAfterEnd ==
    ASSUME NEW q, NEW L \in Nat, NEW C \in Nat, AtRest(q, L, C), q.output.end_input,
           NEW j \in stored(q.buffer)
    PROVE  FALSE
<1>1. IsMap(q.buffer, L) /\ q.expected = L /\ \A k \in DOMAIN q.buffer : k > q.expected
  BY DEF AtRest, Assembling
<1>2. j \in Nat /\ j < L
  BY <1>1, StoredBelow
<1>3. PICK k \in DOMAIN q.buffer : k <= j
  BY <1>1, StoredIn
<1>4. k \in Nat /\ k > L
  BY <1>1, <1>3, EntryNumbers
<1> QED
  BY <1>2, <1>3, <1>4

LEMMA PlacedInit == Init => PlacedInv
<1> SUFFICES ASSUME Init PROVE PlacedInv
  OBVIOUS
<1>1. receiver = [reassembler |-> new_reassembler(Capacity), in_listen |-> TRUE, isn |-> 0]
  BY DEF Init, new_receiver
<1>2. AtRest(receiver.reassembler, StreamLength, Capacity) /\ receiver.in_listen
  BY <1>1, NewAtRest, ReceiverAssumption
<1>3. stored(receiver.reassembler.buffer) = {}
  <2>1. receiver.reassembler.buffer = [k \in {} |-> <<>>]
    BY <1>1 DEF new_reassembler
  <2> QED
    BY <2>1, EmptyMap, ReceiverAssumption
<1> QED
  BY <1>2, <1>3, ReceiverInit DEF PlacedInv, InOrder, StoredNearWindow

\* A segment brings in no byte beyond the window and a payload.
LEMMA PlacedSegment ==
    ASSUME PlacedInv, NEW a \in Starts, NEW n \in 0 .. MaxPayload, NEW syn \in BOOLEAN,
           NEW fin \in BOOLEAN, a + n <= StreamLength + 1, SegmentReceived(a, n, syn, fin)
    PROVE  PlacedInv'
<1> DEFINE r == receiver
           t == receiver'
           seg == Segment(a, n, syn, fin)
           c == stream_out(receiver).bytes_written
           out == stream_out(r)
<1>1. /\ Capacity \in Nat /\ StreamLength \in Nat /\ MaxPayload \in Nat
      /\ PeerIsn \in WrappingInt32 /\ StreamLength < SizeT - 1 /\ Modulus \in Nat
  BY ReceiverAssumption, ModulusAssumption
<1>2. InOrder(r, StreamLength, Capacity, PeerIsn) /\ StoredNearWindow
  BY DEF PlacedInv
<1>3. /\ AtRest(r.reassembler, StreamLength, Capacity) /\ out = r.reassembler.output
      /\ IsReceiver(r)
  BY <1>2 DEF InOrder, stream_out
<1>4. /\ out.bytes_written \in Nat /\ out.bytes_read \in Nat
      /\ out.capacity = Capacity /\ out.end_input \in BOOLEAN
  BY <1>3 DEF AtRest, Assembling, IsOutput
<1>5. /\ Recent(a)
      /\ a = 0 => n = 0
      /\ syn => a = 0
      /\ fin => a + bit(syn) + n = StreamLength + 1
      /\ t = segment_received(r, seg)
  BY DEF SegmentReceived
<1>6. a \in Nat /\ n \in Nat /\ a <= c + Capacity + 2
  BY <1>1, <1>4 DEF Starts
<1>7. 2 * distance(a, c) < Modulus
  <2>1. c \in Nat /\ 2 * (c - a) < Modulus /\ 2 * (Capacity + 2) < Modulus
    BY <1>4, <1>5, WindowAssumption DEF Recent
  <2> HIDE DEF c
  <2> QED
    BY <1>1, <1>6, <2>1 DEF distance
<1>8. IsSegment(seg, a, n, StreamLength, PeerIsn) /\ seg.payload = Stream!Bytes(a - 1, n) /\ seg.fin = fin
  <2>1. /\ seg.seqno = wrap(a, PeerIsn) /\ seg.payload = Stream!Bytes(a - 1, n)
        /\ seg.syn = syn /\ seg.fin = fin
    BY DEF Segment, empty_segment
  <2>2. IsPiece(Stream!Bytes(a - 1, n), a - 1, n)
    BY <1>6, BytesArePiece
  <2> HIDE DEF seg
  <2> QED
    BY <1>5, <2>1, <2>2 DEF IsSegment
<1> HIDE DEF seg
<1>9. /\ InOrder(t, StreamLength, Capacity, PeerIsn)
      /\ \/ t.reassembler = r.reassembler
         \/ /\ a < abs_ack(r) + window_size(r)
            /\ \E index \in Nat :
                  /\ n > 0 => index = a - 1
                  /\ Pushed(r.reassembler, t.reassembler, seg.payload, index, n,
                            seg.fin, StreamLength, Capacity)
  BY <1>1, <1>2, <1>5, <1>6, <1>7, <1>8, ReceivedInOrder
<1>10. \A j \in stored(r.reassembler.buffer) : j < out.bytes_read + Capacity + MaxPayload - 1
  BY <1>2 DEF StoredNearWindow
<1>11. CASE t.reassembler = r.reassembler
  BY <1>2, <1>9, <1>11 DEF PlacedInv, StoredNearWindow, stream_out
<1>12. ASSUME a < abs_ack(r) + window_size(r), NEW index \in Nat, n > 0 => index = a - 1,
              Pushed(r.reassembler, t.reassembler, seg.payload, index, n,
                     seg.fin, StreamLength, Capacity)
       PROVE  PlacedInv'
  <2> DEFINE o == stream_out(t)
  <2>1. /\ AtRest(t.reassembler, StreamLength, Capacity)
        /\ o.bytes_read = out.bytes_read
        /\ stored(t.reassembler.buffer)
             \subseteq stored(r.reassembler.buffer) \union (index .. index + n - 1)
        /\ t.reassembler.expected >= r.reassembler.expected
        /\ t.reassembler.eof_index
             = IF seg.fin THEN StreamLength ELSE r.reassembler.eof_index
    BY <1>12 DEF Pushed, stream_out
  <2>2. ASSUME NEW j \in stored(t.reassembler.buffer)
        PROVE  j < out.bytes_read + Capacity + MaxPayload - 1
    <3>1. CASE j \in stored(r.reassembler.buffer)
      BY <1>10, <3>1
    <3>2. CASE j \in index .. index + n - 1
      <4>1. n > 0 /\ index = a - 1
        BY <1>6, <1>12, <3>2
      <4>2. ~o.end_input
        BY <1>1, <2>1, NothingAfterEnd, Zenon DEF stream_out
      <4>3. ~out.end_input
        <5>1. SUFFICES ASSUME out.end_input PROVE FALSE
          OBVIOUS
        <5>2. r.reassembler.expected = StreamLength /\ r.reassembler.eof_index = StreamLength
          BY <1>3, <5>1 DEF AtRest, Assembling
        <5>3. t.reassembler.expected \in 0 .. StreamLength
          BY <2>1 DEF AtRest, Assembling
        <5>4. t.reassembler.expected = StreamLength /\ t.reassembler.eof_index = StreamLength
          BY <1>1, <2>1, <5>2, <5>3
        <5> QED
          BY <2>1, <4>2, <5>4 DEF AtRest, stream_out
      <4>4. abs_ack(r) + window_size(r) = out.bytes_read + Capacity + 1 + bit(out.end_input)
        BY <1>3, <1>4, RightEdge
      <4>5. a < out.bytes_read + Capacity + 1 + 0
        BY <1>12, <4>3, <4>4 DEF bit
      <4>6. n <= MaxPayload /\ out.bytes_read \in Nat
        BY <1>4
      <4> HIDE DEF out
      <4> QED
        BY <1>1, <1>6, <3>2, <4>1, <4>5, <4>6
    <3> QED
      BY <2>1, <3>1, <3>2
  <2>3. StoredNearWindow'
    BY <2>1, <2>2 DEF StoredNearWindow
  <2> QED
    BY <1>9, <2>3 DEF PlacedInv
<1> QED
  BY <1>9, <1>11, <1>12

LEMMA PlacedRead ==
    ASSUME PlacedInv, NEW n \in 1 .. Capacity, Read(n)
    PROVE  PlacedInv'
<1> DEFINE r == receiver
           t == receiver'
           q == r.reassembler
           o == Stream!pop_output(q.output, n)
           q2 == [q EXCEPT !.output = o]
<1>1. Capacity \in Nat /\ StreamLength \in Nat /\ n \in Nat /\ MaxPayload \in Nat
  BY ReceiverAssumption
<1>2. /\ IsReceiver(r) /\ AtRest(q, StreamLength, Capacity) /\ StoredNearWindow
      /\ ~r.in_listen => r.isn = PeerIsn
  BY DEF PlacedInv, InOrder
<1>3. n <= Stream!buffer_size(q.output) /\ t = [r EXCEPT !.reassembler.output = o]
  BY DEF Read, stream_out
<1>4. IsReceiver(t)
  BY <1>1, <1>2, ReadOpens DEF Read
<1>5. IsOutput(q.output, Capacity) /\ q.output.bytes_read \in Nat
  BY <1>2 DEF AtRest, Assembling, IsOutput
<1>6. /\ IsOutput(o, Capacity) /\ o.bytes_written = q.output.bytes_written
      /\ o.bytes_read = q.output.bytes_read + n /\ o.end_input = q.output.end_input
  BY <1>1, <1>3, <1>5, ReadInOrder
<1>7. r = [reassembler |-> q, in_listen |-> r.in_listen, isn |-> r.isn]
  BY <1>2 DEF IsReceiver
<1>8. q = [buffer |-> q.buffer, expected |-> q.expected, eof_index |-> q.eof_index,
           output |-> q.output]
  BY <1>2 DEF AtRest, Assembling
<1> HIDE DEF o
<1>9. t = [reassembler |-> q2, in_listen |-> r.in_listen, isn |-> r.isn]
  BY <1>3, <1>7
<1>10. q2 = [buffer |-> q.buffer, expected |-> q.expected, eof_index |-> q.eof_index,
             output |-> o]
  BY <1>8
<1> HIDE DEF q2
<1>11. AtRest(q2, StreamLength, Capacity)
  BY <1>2, <1>6, <1>10 DEF AtRest, Assembling
<1>12. InOrder(t, StreamLength, Capacity, PeerIsn)
  BY <1>2, <1>4, <1>9, <1>11 DEF InOrder
<1>13. StoredNearWindow'
  <2>1. ASSUME NEW j \in stored(q.buffer)
        PROVE  j < q.output.bytes_read + n + Capacity + MaxPayload - 1
    <3>1. j < q.output.bytes_read + Capacity + MaxPayload - 1
      BY <1>2 DEF StoredNearWindow, stream_out
    <3>2. j \in Nat
      BY <1>1, <1>2, StoredBelow DEF AtRest, Assembling
    <3> QED
      BY <1>1, <1>5, <3>1, <3>2
  <2>2. t.reassembler.buffer = q.buffer /\ stream_out(t).bytes_read = q.output.bytes_read + n
    BY <1>6, <1>9, <1>10 DEF stream_out
  <2> QED
    BY <2>1, <2>2 DEF StoredNearWindow
<1> QED
  BY <1>12, <1>13 DEF PlacedInv

LEMMA PlacedStep == PlacedInv /\ [Next]_vars => PlacedInv'
<1> SUFFICES ASSUME PlacedInv, [Next]_vars PROVE PlacedInv'
  OBVIOUS
<1>1. ASSUME NEW a \in Starts, NEW n \in 0 .. MaxPayload, NEW syn \in BOOLEAN,
             NEW fin \in BOOLEAN, a + n <= StreamLength + 1, SegmentReceived(a, n, syn, fin)
      PROVE  PlacedInv'
  BY <1>1, PlacedSegment
<1>2. ASSUME NEW n \in 1 .. Capacity, Read(n) PROVE PlacedInv'
  BY <1>2, PlacedRead
<1>3. CASE UNCHANGED vars
  BY <1>3 DEF vars, PlacedInv, InOrder, StoredNearWindow
<1> QED
  BY <1>1, <1>2, <1>3 DEF Next

\* segment_received puts every segment in its place, however often the sequence
\* numbers have wrapped: the inbound stream is a prefix of the peer's, and ends
\* only when all of it is there.
THEOREM InboundPrefix == Spec => []InboundIsPrefix
<1>1. PlacedInv => InboundIsPrefix
  BY DEF PlacedInv, InOrder, AtRest, Assembling, IsOutput, InboundIsPrefix, stream_out
<1> QED
  BY <1>1, PlacedInit, PlacedStep, PTL DEF Spec

\* segment_received stores no byte further than a payload past the window.
THEOREM StoredNear == Spec => []StoredNearWindow
<1>1. PlacedInv => StoredNearWindow
  BY DEF PlacedInv
<1> QED
  BY <1>1, PlacedInit, PlacedStep, PTL DEF Spec
=============================================================================
