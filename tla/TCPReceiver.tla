---------------------------- MODULE TCPReceiver -----------------------------
(***************************************************************************)
(* The methods of class TCPReceiver (tcp_receiver.hh, tcp_receiver.cc) as  *)
(* operators on a record that holds its StreamReassembler.                 *)
(***************************************************************************)
EXTENDS WrappingIntegers, StreamReassembler, TCPSegment

\* TCPReceiver::TCPReceiver, capacity as configured.
new_receiver(capacity) ==
    [reassembler |-> new_reassembler(capacity), in_listen |-> TRUE, isn |-> 0]

stream_out(r) == r.reassembler.output

\* Mutant: what is stored for later is taken off the window as well.
window_size_less_stored(r) ==
    Stream!remaining_capacity(stream_out(r)) - Cardinality(stored(r.reassembler.buffer))

window_size(r) == Stream!remaining_capacity(stream_out(r))

\* The absolute number behind ackno(): past the SYN, the bytes, and the FIN.
abs_ack(r) == stream_out(r).bytes_written + 1 + bit(stream_out(r).end_input)

\* ackno() has a value.
has_ackno(r) == ~r.in_listen
ackno(r) == wrap(abs_ack(r), r.isn)

\* The absolute sequence number of the segment.
abs_seq(r, seg) == unwrap(seg.seqno, r.isn, stream_out(r).bytes_written)

\* Mutant: segments that start past the window are taken too.
acceptable_always(r, seg) == TRUE

\* The segment starts before the end of the window.
acceptable(r, seg) == abs_seq(r, seg) < abs_ack(r) + window_size(r)

\* Mutant: the SYN is counted twice.
stream_index_less_two(r, seg) == (abs_seq(r, seg) - 2 * bit(~seg.syn)) % SizeT

\* The index of the first payload byte.  A segment without SYN at the ISN itself
\* gives index -1, which is SizeT - 1.
stream_index(r, seg) == (abs_seq(r, seg) - bit(~seg.syn)) % SizeT

\* The first SYN ends LISTEN and gives the ISN.
synchronised(r, seg) ==
    IF r.in_listen THEN [r EXCEPT !.in_listen = FALSE, !.isn = seg.seqno] ELSE r

segment_received(r, seg) ==
    LET r1 == synchronised(r, seg)
    IN  IF r.in_listen /\ ~seg.syn THEN r
        ELSE IF ~acceptable(r1, seg) THEN r1
        ELSE [r1 EXCEPT !.reassembler =
                 push_substring(@, seg.payload, stream_index(r1, seg), seg.fin)]
=============================================================================
