----------------------------- MODULE TCPSender ------------------------------
(***************************************************************************)
(* The methods of class TCPSender (tcp_sender.hh, tcp_sender.cc) as        *)
(* operators on a record with its fields.  The two loops, in fill_window   *)
(* and ack_received, are given by the segments they make and the segments  *)
(* they pop; MCTCPSender compares them with the loops as written.          *)
(***************************************************************************)
EXTENDS WrappingIntegers, TCPSegment

CONSTANTS
    MaxPayloadSize,    \* TCPConfig::MAX_PAYLOAD_SIZE
    UInt               \* unsigned int arithmetic is modulo UInt, 2^32 in the code

ASSUME SenderConstants ==
    MaxPayloadSize \in Nat \ {0} /\ UInt \in Nat \ {0}

Stream == INSTANCE ByteStream

\* TCPSender::TCPSender and the default member initializers.
new_sender(capacity, retx_timeout, isn) ==
    [isn |-> isn, segments_out |-> <<>>, initial_retransmission_timeout |-> retx_timeout,
     stream |-> Stream!new_stream(capacity), next_seqno |-> 0,
     segments_outstanding |-> <<>>, remaining_time |-> 0,
     retransmission_timeout |-> retx_timeout, alarm_run |-> FALSE, bytes_in_flight |-> 0,
     state |-> "CLOSED", window_size |-> 1, retransmission_count |-> 0]

next_seqno(s) == wrap(s.next_seqno, s.isn)

send_empty_segment(s) ==
    [s EXCEPT !.segments_out = Append(@, [empty_segment EXCEPT !.seqno = next_seqno(s)])]

send_syn_segment(s) ==
    LET syn == [empty_segment EXCEPT !.seqno = next_seqno(s), !.syn = TRUE]
    IN  [s EXCEPT !.state = "SYN_SENT", !.next_seqno = 1, !.bytes_in_flight = 1,
                  !.alarm_run = TRUE,
                  !.segments_out = Append(@, syn),
                  !.segments_outstanding = Append(@, [seqno |-> 0, segment |-> syn])]

------------------------------------------------------------------------------
(* fill_window                                                             *)

\* Mutant: bytes in flight are not taken off the window.
room_ignoring_flight(s) == IF s.window_size = 0 THEN 1 ELSE s.window_size

\* What the window leaves to send; a zero window counts as one.
room(s) == (IF s.window_size = 0 THEN 1 ELSE s.window_size) - s.bytes_in_flight

\* The payload bytes sent: as much of the stream as the room allows.
sendable(s) == Stream!min(room(s), Stream!buffer_size(s.stream))

\* Mutant: the FIN is sent before the stream has been read to its end.
sends_fin_early(s) == s.stream.end_input

\* The last segment carries the FIN: the stream is at eof once the payload is
\* read, and there is room for one more sequence number.
sends_fin(s) ==
    /\ s.stream.end_input
    /\ sendable(s) = Stream!buffer_size(s.stream)
    /\ room(s) > sendable(s)

\* The loop makes as few segments as MAX_PAYLOAD_SIZE allows; a FIN without
\* payload is a segment of its own.
segment_count(s) ==
    IF sendable(s) = 0 THEN bit(sends_fin(s))
    ELSE (sendable(s) + MaxPayloadSize - 1) \div MaxPayloadSize

\* The bytes of the stream in front of the i-th segment.
skipped(i) == (i - 1) * MaxPayloadSize

\* Mutant: every payload is read from the front of the stream.
payload_from_front(s, i) ==
    SubSeq(s.stream.buffer, 1, Stream!min(MaxPayloadSize, sendable(s) - skipped(i)))

payload(s, i) ==
    SubSeq(s.stream.buffer, skipped(i) + 1,
           Stream!min(skipped(i) + MaxPayloadSize, sendable(s)))

segment(s, i) ==
    [empty_segment EXCEPT !.seqno = wrap(s.next_seqno + skipped(i), s.isn),
                          !.fin = sends_fin(s) /\ i = segment_count(s),
                          !.payload = payload(s, i)]

send_segments(s) ==
    LET n == sendable(s) + bit(sends_fin(s))
    IN  [s EXCEPT
            !.segments_out = @ \o [i \in 1 .. segment_count(s) |-> segment(s, i)],
            !.segments_outstanding = @ \o
                [i \in 1 .. segment_count(s) |->
                    [seqno |-> s.next_seqno + skipped(i), segment |-> segment(s, i)]],
            !.stream = Stream!pop_output(@, sendable(s)),
            !.state = IF sends_fin(s) THEN "FIN_SENT" ELSE @,
            !.bytes_in_flight = @ + n,
            !.next_seqno = @ + n]

\* Mutant: a stream that has ended is ended again.
fill_window_again(s) ==
    IF s.state = "CLOSED" THEN send_syn_segment(s)
    ELSE IF s.state \in {"SYN_ACKED", "FIN_SENT"} /\ room(s) > 0 THEN send_segments(s)
    ELSE s

fill_window(s) ==
    IF s.state = "CLOSED" THEN send_syn_segment(s)
    ELSE IF s.state = "SYN_ACKED" /\ room(s) > 0 THEN send_segments(s)
    ELSE s

------------------------------------------------------------------------------
(* ack_received                                                            *)

\* One past the sequence numbers an outstanding segment occupies.
end_of(o) == o.seqno + length_in_sequence_space(o.segment)

\* Mutant: SYN and FIN are not counted.
total_payload(queue, p) ==
    LET total[i \in 0 .. p] ==
            IF i = 0 THEN 0 ELSE total[i - 1] + Len(queue[i].segment.payload)
    IN  total[p]

\* The sequence numbers the first p segments of a queue occupy.
total_length(queue, p) ==
    LET total[i \in 0 .. p] ==
            IF i = 0 THEN 0
            ELSE total[i - 1] + length_in_sequence_space(queue[i].segment)
    IN  total[p]

\* Mutants: every segment is popped by any acknowledgment; a segment is popped as
\* soon as its first byte is acknowledged.
acked_all(queue, ack) == Len(queue)
acked_by_start(queue, ack) ==
    CHOOSE p \in 0 .. Len(queue) :
        /\ \A i \in 1 .. p : queue[i].seqno < ack
        /\ p < Len(queue) => queue[p + 1].seqno >= ack

\* How many segments the loop pops: from the front, while wholly acknowledged.
acked(queue, ack) ==
    CHOOSE p \in 0 .. Len(queue) :
        /\ \A i \in 1 .. p : end_of(queue[i]) <= ack
        /\ p < Len(queue) => end_of(queue[p + 1]) > ack

\* Mutant: the timer is not restarted when new data is acknowledged.
pop_acked_without_restart(s, ack) ==
    LET p == acked(s.segments_outstanding, ack)
    IN  IF p = 0 THEN s
        ELSE [s EXCEPT
                !.segments_outstanding = SubSeq(@, p + 1, Len(@)),
                !.bytes_in_flight = @ - total_length(s.segments_outstanding, p),
                !.retransmission_timeout = s.initial_retransmission_timeout]

pop_acked(s, ack) ==
    LET p == acked(s.segments_outstanding, ack)
    IN  IF p = 0 THEN s
        ELSE [s EXCEPT
                !.segments_outstanding = SubSeq(@, p + 1, Len(@)),
                !.bytes_in_flight = @ - total_length(s.segments_outstanding, p),
                !.remaining_time = 0,
                !.retransmission_timeout = s.initial_retransmission_timeout]

received_ackno(s, ackno) == unwrap(ackno, s.isn, s.stream.bytes_read)

valid_ack(s, ack) ==
    ack <= s.next_seqno /\ ack >= s.next_seqno - s.bytes_in_flight

\* Mutants: any acknowledgment ends SYN_SENT; any acknowledgment after the FIN
\* moves on to FINS_ACKED, as in the lines 115-117 that are commented out.
syn_acked_always(s) == [s EXCEPT !.state = IF @ = "SYN_SENT" THEN "SYN_ACKED" ELSE @]
syn_or_fin_acked(s) ==
    [s EXCEPT !.state = IF @ = "SYN_SENT" /\ s.bytes_in_flight < s.next_seqno
                          THEN "SYN_ACKED"
                        ELSE IF @ = "FIN_SENT" THEN "FINS_ACKED" ELSE @]

syn_acked(s) ==
    [s EXCEPT !.state = IF @ = "SYN_SENT" /\ s.bytes_in_flight < s.next_seqno
                          THEN "SYN_ACKED" ELSE @]

ack_received(s, ackno, window_size) ==
    LET ack == received_ackno(s, ackno)
        s1 == [s EXCEPT !.window_size = window_size, !.retransmission_count = 0]
        s2 == syn_acked(pop_acked(s1, ack))
    IN  IF ~valid_ack(s, ack) THEN s
        ELSE IF s2.state = "SYN_ACKED" THEN fill_window(s2)
        ELSE s2

------------------------------------------------------------------------------
(* tick                                                                    *)

retransmit(s) ==
    [s EXCEPT !.retransmission_timeout = IF s.window_size = 0 THEN @ ELSE (2 * @) % UInt,
              !.segments_out = Append(@, Head(s.segments_outstanding).segment),
              !.retransmission_count = @ + 1,
              !.remaining_time = 0]

tick(s, ms) ==
    LET elapsed == (s.remaining_time + ms) % UInt
    IN  IF ~s.alarm_run THEN s
        ELSE IF s.segments_outstanding = <<>> THEN [s EXCEPT !.remaining_time = 0]
        ELSE IF elapsed >= s.retransmission_timeout THEN retransmit(s)
        ELSE [s EXCEPT !.remaining_time = elapsed]
=============================================================================
