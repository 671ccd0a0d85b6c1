----------------------------- MODULE TCPSegment -----------------------------
(***************************************************************************)
(* A TCP segment (tcp_segment.hh, tcp_header.hh): the header fields the    *)
(* sender, receiver and connection read or write, and the payload.         *)
(***************************************************************************)
EXTENDS Integers, Sequences

\* A default-constructed TCPSegment.
empty_segment ==
    [seqno |-> 0, syn |-> FALSE, fin |-> FALSE, rst |-> FALSE,
     ack |-> FALSE, ackno |-> 0, win |-> 0, payload |-> <<>>]

\* A bool used as a number.
bit(b) == IF b THEN 1 ELSE 0

length_in_sequence_space(seg) == Len(seg.payload) + bit(seg.syn) + bit(seg.fin)
=============================================================================
