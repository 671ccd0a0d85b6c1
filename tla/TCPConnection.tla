--------------------------- MODULE TCPConnection ----------------------------
(***************************************************************************)
(* The methods of class TCPConnection (tcp_connection.hh,                  *)
(* tcp_connection.cc) as operators on a record that holds a TCPSender, a   *)
(* TCPReceiver and the connection's own fields.                            *)
(***************************************************************************)
EXTENDS TCPState, TCPSegment

CONSTANTS
    Modulus, SizeT, UInt, MaxPayloadSize,   \* see the modules instantiated
    MaxRetxAttempts,                        \* TCPConfig::MAX_RETX_ATTEMPTS
    UInt16                                  \* one past the largest uint16_t

Sender == INSTANCE TCPSender
Receiver == INSTANCE TCPReceiver
Stream == INSTANCE ByteStream

\* TCPConnection::TCPConnection and the default member initializers.
new_connection(recv_capacity, send_capacity, rt_timeout, isn) ==
    [receiver |-> Receiver!new_receiver(recv_capacity),
     sender |-> Sender!new_sender(send_capacity, rt_timeout, isn),
     segments_out |-> <<>>, linger_after_streams_finish |-> TRUE, actived |-> TRUE,
     time_since_last_segment_received |-> 0]

inbound_stream(c) == Receiver!stream_out(c.receiver)

\* TCPConnection::state
state(c) ==
    summary(receiver_summary(c.receiver), sender_summary(c.sender),
            c.actived /\ c.linger_after_streams_finish, c.actived)

\* 10 * _cfg.rt_timeout, which the sender was given too.
linger_time(c) == 10 * c.sender.initial_retransmission_timeout

kill_connection(c) ==
    [c EXCEPT !.sender.stream = Stream!set_error(@),
              !.receiver.reassembler.output = Stream!set_error(@),
              !.actived = FALSE, !.linger_after_streams_finish = FALSE]

\* A segment with the receiver's acknowledgment, once there is one.
with_ackno(c, seg, win) ==
    IF Receiver!has_ackno(c.receiver)
      THEN [seg EXCEPT !.ack = TRUE, !.ackno = Receiver!ackno(c.receiver), !.win = win]
      ELSE seg

fetch_segment(c) ==
    LET win == Stream!min(UInt16 - 1, Receiver!window_size(c.receiver))
        out == c.sender.segments_out
    IN  [c EXCEPT !.sender.segments_out = <<>>,
                  !.segments_out = @ \o [i \in 1 .. Len(out) |-> with_ackno(c, out[i], win)]]

send_segment(c) == fetch_segment([c EXCEPT !.sender = Sender!fill_window(@)])

\* Takes the front of the sender's queue, which is the new empty segment only
\* when the queue was empty, and marks it RST.
send_rst_segment(c) ==
    LET s == Sender!send_empty_segment(c.sender)
        rst == [Head(s.segments_out) EXCEPT !.rst = TRUE]
        win == Receiver!window_size(c.receiver) % UInt16
    IN  [c EXCEPT !.sender = [s EXCEPT !.segments_out = Tail(@)],
                  !.segments_out = Append(@, with_ackno(c, rst, win)),
                  !.actived = FALSE]

unclean_shutdown(c) == kill_connection(send_rst_segment(c))

\* Mutants: the endpoint never lingers; it does not wait for the acknowledgment
\* of its FIN; the FIN may have been sent before the peer's arrived.
try_clean_shutdown_no_linger(c) ==
    IF inbound_stream(c).end_input /\ sender_summary(c.sender) = "FIN_ACKED"
      THEN [c EXCEPT !.actived = FALSE]
      ELSE c
try_clean_shutdown_unacked(c) ==
    IF inbound_stream(c).end_input /\ c.sender.state = "FIN_SENT"
      THEN [c EXCEPT !.actived = FALSE]
      ELSE c
try_clean_shutdown_any_order(c) ==
    IF ~inbound_stream(c).end_input THEN c
    ELSE IF sender_summary(c.sender) \in {"SYN_ACKED", "FIN_SENT"}
      THEN [c EXCEPT !.linger_after_streams_finish = FALSE]
    ELSE IF sender_summary(c.sender) = "FIN_ACKED" /\ ~c.linger_after_streams_finish
      THEN [c EXCEPT !.actived = FALSE]
    ELSE c

try_clean_shutdown(c) ==
    IF ~inbound_stream(c).end_input THEN c
    ELSE IF sender_summary(c.sender) = "SYN_ACKED"
      THEN [c EXCEPT !.linger_after_streams_finish = FALSE]
    ELSE IF /\ sender_summary(c.sender) = "FIN_ACKED"
            /\ \/ ~c.linger_after_streams_finish
               \/ c.time_since_last_segment_received >= linger_time(c)
      THEN [c EXCEPT !.actived = FALSE]
    ELSE c

\* seg asks for an answer: it occupies sequence numbers and nothing else is on
\* its way out, or it is a keep-alive.
wants_reply(c, seg) ==
    IF length_in_sequence_space(seg) # 0
      THEN c.sender.segments_out = <<>>
      ELSE seg.seqno = (Receiver!ackno(c.receiver) + Modulus - 1) % Modulus

\* Mutant: an acknowledgment that needs no reply leaves the queue alone.
answer_if_asked(c, seg) ==
    LET c1 == try_clean_shutdown(c)
        c2 == [c1 EXCEPT !.sender = Sender!fill_window(@)]
    IN  try_clean_shutdown(
            IF wants_reply(c2, seg)
              THEN fetch_segment([c2 EXCEPT !.sender = Sender!send_empty_segment(@)])
              ELSE c2)

\* What follows the receiver's turn, outside LISTEN.
answer(c, seg) ==
    LET c1 == try_clean_shutdown(c)
        c2 == [c1 EXCEPT !.sender = Sender!fill_window(@)]
        c3 == IF wants_reply(c2, seg)
                THEN [c2 EXCEPT !.sender = Sender!send_empty_segment(@)]
                ELSE c2
    IN  try_clean_shutdown(fetch_segment(c3))

\* In LISTEN the sender's new segments stay in its queue.
segment_received(c, seg) ==
    LET c1 == [c EXCEPT !.time_since_last_segment_received = 0,
                        !.sender = IF seg.ack
                                     THEN Sender!ack_received(@, seg.ackno, seg.win)
                                     ELSE @,
                        !.receiver = Receiver!segment_received(@, seg)]
    IN  IF ~c.actived THEN c
        ELSE IF seg.rst THEN kill_connection(c)
        ELSE IF receiver_summary(c1.receiver) = "LISTEN" THEN c1
        ELSE answer(c1, seg)

write(c, data) ==
    send_segment([c EXCEPT !.sender.stream = Stream!write(@, data)])

end_input_stream(c) ==
    send_segment([c EXCEPT !.sender.stream = Stream!end_input(@)])

connect(c) == send_segment(c)

\* _time_since_last_segment_received is only ever compared with linger_time, and
\* saturates there.
elapsed(c, ms) == Stream!min(c.time_since_last_segment_received + ms, linger_time(c))

tick(c, ms) ==
    LET c1 == [c EXCEPT !.time_since_last_segment_received = elapsed(c, ms),
                        !.sender = Sender!tick(@, ms)]
    IN  IF ~c.actived THEN c
        ELSE IF c1.sender.retransmission_count > MaxRetxAttempts
          THEN unclean_shutdown([c1 EXCEPT !.sender.segments_out = Tail(@)])
        ELSE try_clean_shutdown(fetch_segment(c1))

\* TCPConnection::~TCPConnection
destroy(c) == IF c.actived THEN unclean_shutdown(c) ELSE c
=============================================================================
