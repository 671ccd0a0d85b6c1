------------------------ MODULE MCStreamReassembler -------------------------
(***************************************************************************)
(* The loops of stream_reassembler.cc as they are written, one iteration   *)
(* per call, to check the definitions of StreamReassembler against.        *)
(***************************************************************************)
EXTENDS StreamReassemblerSpec

without(buffer, k) == Restrict(buffer, DOMAIN buffer \ {k})

RECURSIVE merge_forward(_, _, _, _)
merge_forward(buffer, count, index, data) ==
    LET ks == {k \in DOMAIN buffer : k >= index}
        k == Min(ks)
    IN  IF ks # {} /\ repeated_interval(index, Len(data), k, Len(buffer[k]))
          THEN merge_forward(without(buffer, k), count - Len(buffer[k]), index, data)
          ELSE [buffer |-> buffer, count |-> count]

RECURSIVE send_loop(_, _)
send_loop(r, count) ==
    LET k == Min(DOMAIN r.buffer)
        skip == IF k < r.expected THEN r.expected - k ELSE 0
        rest == SubSeq(r.buffer[k], skip + 1, Len(r.buffer[k]))
        data == SubSeq(rest, 1, Stream!min(Len(rest), Stream!remaining_capacity(r.output)))
    IN  IF DOMAIN r.buffer = {} \/ k > r.expected
          THEN [r |-> r, count |-> count]
        ELSE IF k + Len(r.buffer[k]) > r.expected
          THEN send_loop([r EXCEPT !.output = Stream!write(@, data),
                                   !.expected = @ + Len(data),
                                   !.buffer = without(@, k)], count - Len(data))
          ELSE send_loop([r EXCEPT !.buffer = without(@, k)], count)

\* insert, with the trimming of merge, in the order of the source.
insert_loop(buffer0, count0, index, data) ==
    LET forward == merge_forward(buffer0, count0, index, data)
        buffer == forward.buffer
        next == {k \in DOMAIN buffer : k >= index}
        front == IF next # {} /\ Min(next) < index + Len(data)
                   THEN SubSeq(data, 1, Min(next) - index) ELSE data
        prev == {k \in DOMAIN buffer : k < index}
        end == IF prev = {} THEN 0 ELSE Max(prev) + Len(buffer[Max(prev)])
        at == IF end > index THEN end ELSE index
        new == IF end > index THEN SubSeq(front, end - index + 1, Len(front)) ELSE front
    IN  IF (next # {} /\ Min(next) = index) \/ (end > index /\ end > index + Len(front))
          THEN forward
          ELSE [buffer |-> [k \in DOMAIN buffer \union {at} |->
                               IF k \in DOMAIN buffer THEN buffer[k] ELSE new],
                count |-> forward.count + Len(new)]

push_loop(r, count, data, index) ==
    LET inserted == insert_loop(r.buffer, count, index, data)
        sent == send_loop([r EXCEPT !.buffer = inserted.buffer], inserted.count)
        after == IF index + Len(data) > r.expected THEN sent ELSE [r |-> r, count |-> count]
    IN  IF after.r.expected = after.r.eof_index
          THEN [after EXCEPT !.r.output = Stream!end_input(@)]
          ELSE after

\* In every reachable state and for every substring, the definitions by sets of
\* keys compute what the loops of merge (stream_reassembler.cc:24-60) and
\* send_to_bytestream (70-94) compute, the counter included.
LoopsAgree ==
    \A index \in 0 .. StreamLength : \A n \in 0 .. StreamLength - index :
        LET data == Stream!Bytes(index, n)
        IN  push_loop(reassembler, unassembled_bytes, data, index)
              = [r |-> push_substring(reassembler, data, index, FALSE),
                 count |-> unassembled_after(unassembled_bytes, reassembler, data, index)]
=============================================================================
