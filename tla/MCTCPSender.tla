---------------------------- MODULE MCTCPSender -----------------------------
(***************************************************************************)
(* The loops of tcp_sender.cc as they are written, one iteration per call, *)
(* to check the definitions of TCPSender against.                          *)
(***************************************************************************)
EXTENDS TCPSenderSpec

RECURSIVE fill_loop(_, _)
fill_loop(s, window) ==
    LET space == window - s.bytes_in_flight
        read_size == Stream!min(MaxPayloadSize, space)
        data == Stream!peek_output(s.stream, read_size)
        stream == Stream!pop_output(s.stream, read_size)
        fin == Stream!eof(stream) /\ space > Len(data)
        seg == [empty_segment EXCEPT !.seqno = next_seqno(s), !.fin = fin, !.payload = data]
        n == length_in_sequence_space(seg)
    IN  IF s.state # "SYN_ACKED" \/ space <= 0 THEN s
        ELSE IF n = 0 THEN [s EXCEPT !.stream = stream]
        ELSE fill_loop([s EXCEPT !.stream = stream,
                                 !.state = IF fin THEN "FIN_SENT" ELSE @,
                                 !.segments_out = Append(@, seg),
                                 !.segments_outstanding =
                                     Append(@, [seqno |-> s.next_seqno, segment |-> seg]),
                                 !.bytes_in_flight = @ + n,
                                 !.next_seqno = @ + n], window)

RECURSIVE pop_loop(_, _)
pop_loop(s, ack) ==
    LET front == Head(s.segments_outstanding)
        n == length_in_sequence_space(front.segment)
    IN  IF s.segments_outstanding = <<>> THEN s
        ELSE IF front.seqno + n > ack THEN s
        ELSE pop_loop([s EXCEPT !.bytes_in_flight = @ - n,
                                !.segments_outstanding = Tail(@),
                                !.remaining_time = 0,
                                !.retransmission_timeout = s.initial_retransmission_timeout],
                      ack)

\* In every reachable state, send_segments and pop_acked compute what the loops
\* of fill_window (tcp_sender.cc:53-78) and ack_received (96-107) compute.
LoopsAgree ==
    /\ sender.state = "SYN_ACKED" =>
          fill_window(sender) =
             fill_loop(sender, IF sender.window_size = 0 THEN 1 ELSE sender.window_size)
    /\ \A ack \in 0 .. sender.next_seqno : pop_acked(sender, ack) = pop_loop(sender, ack)
=============================================================================
