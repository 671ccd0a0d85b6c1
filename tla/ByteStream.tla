----------------------------- MODULE ByteStream -----------------------------
(***************************************************************************)
(* The methods of class ByteStream (byte_stream.hh, byte_stream.cc) as     *)
(* operators on a record.  Stream contents are sequences of bytes; the     *)
(* specifications that use them let the byte at position i of a stream be  *)
(* the number i, so that a byte out of place is visible.                   *)
(***************************************************************************)
EXTENDS Integers, Sequences

\* ByteStream::ByteStream
new_stream(capacity) ==
    [buffer |-> <<>>, capacity |-> capacity, bytes_written |-> 0, bytes_read |-> 0,
     end_input |-> FALSE, error |-> FALSE]

min(a, b) == IF a < b THEN a ELSE b

buffer_size(s) == Len(s.buffer)
remaining_capacity(s) == s.capacity - Len(s.buffer)
eof(s) == s.end_input /\ s.buffer = <<>>

\* What write returns: how many of the bytes offered it takes.
accepted(s, data) ==
    IF s.end_input THEN 0 ELSE min(Len(data), remaining_capacity(s))

write(s, data) ==
    LET n == accepted(s, data)
    IN  [s EXCEPT !.buffer = @ \o SubSeq(data, 1, n), !.bytes_written = @ + n]

peek_output(s, len) == SubSeq(s.buffer, 1, min(len, buffer_size(s)))

pop_output(s, len) ==
    LET n == min(len, buffer_size(s))
    IN  [s EXCEPT !.buffer = SubSeq(@, n + 1, Len(@)), !.bytes_read = @ + n]

end_input(s) == [s EXCEPT !.end_input = TRUE]

set_error(s) == [s EXCEPT !.error = TRUE]

\* The n bytes of a stream that start at position i.
Bytes(i, n) == [j \in 1 .. n |-> i + j - 1]

\* The buffer holds exactly the bytes between the two counters, in order, and
\* no more than the capacity.
StreamOK(s) ==
    /\ s.bytes_written = s.bytes_read + Len(s.buffer)
    /\ Len(s.buffer) <= s.capacity
    /\ \A j \in 1 .. Len(s.buffer) : s.buffer[j] = s.bytes_read + j - 1
=============================================================================
