------------------------- MODULE StreamReassembler --------------------------
(***************************************************************************)
(* The methods of class StreamReassembler (stream_reassembler.hh, .cc) as  *)
(* operators on a record.  The map _reassemble_buffer is a function from   *)
(* stream indices to byte sequences.  The loops over the map are given by  *)
(* the set of keys they visit; MCStreamReassembler compares the result     *)
(* with the loops as they are written.  The counter _unassembled_bytes,    *)
(* which no method reads to decide anything, is kept apart                 *)
(* (unassembled_after).                                                    *)
(***************************************************************************)
EXTENDS Integers, Sequences, FiniteSetsExt, Functions

CONSTANT SizeT     \* size_t arithmetic is modulo SizeT, 2^64 in the code

ASSUME SizeTAssumption == SizeT \in Nat \ {0}

Stream == INSTANCE ByteStream

\* Mutant: _eof_index starts at 0, which is a stream index.
new_reassembler_eof_zero(capacity) ==
    [buffer |-> [k \in {} |-> <<>>], expected |-> 0, eof_index |-> 0,
     output |-> Stream!new_stream(capacity)]

\* StreamReassembler::StreamReassembler: _eof_index(-1)
new_reassembler(capacity) ==
    [buffer |-> [k \in {} |-> <<>>], expected |-> 0, eof_index |-> SizeT - 1,
     output |-> Stream!new_stream(capacity)]

\* index + size, as size_t computes it.
end_of(index, size) == (index + size) % SizeT

repeated_interval(left_begin, left_length, right_begin, right_length) ==
    end_of(right_begin, right_length) <= end_of(left_begin, left_length)

------------------------------------------------------------------------------
(* merge and insert: the substring data at index against the map.          *)

\* Mutant: an entry is dropped when it merely starts within the new substring.
repeated_by_start(buffer, index, data) ==
    {k \in DOMAIN buffer : k >= index /\ k < end_of(index, Len(data))}

\* The entries the forward loop erases: from lower_bound(index) on, as long as
\* the entry lies within the new substring.
repeated(buffer, index, data) ==
    {k \in DOMAIN buffer : k >= index /\
        \A j \in index .. k : j \in DOMAIN buffer =>
            repeated_interval(index, Len(data), j, Len(buffer[j]))}

later(buffer, index) == {k \in DOMAIN buffer : k >= index}
earlier(buffer, index) == {k \in DOMAIN buffer : k < index}

\* Mutant: the new substring is not cut at the start of the next entry.
cut_front_not(buffer, index, data) == data

\* Merge forward: the new substring stops where the next entry starts.
cut_front(buffer, index, data) ==
    LET next == later(buffer, index)
    IN  IF next # {} /\ Min(next) < end_of(index, Len(data))
          THEN SubSeq(data, 1, Min(next) - index)
          ELSE data

\* Merge backward: where the entry before index ends.
previous_end(buffer, index) ==
    LET k == Max(earlier(buffer, index)) IN end_of(k, Len(buffer[k]))

\* The substring merge leaves to be stored, and at which index; none when the
\* map already holds all of it.
trimmed(buffer, index, data) ==
    LET front == cut_front(buffer, index, data)
        end == previous_end(buffer, index)
    IN  IF earlier(buffer, index) = {} \/ end <= index
          THEN [index |-> index, data |-> front]
          ELSE [index |-> end, data |-> SubSeq(front, end - index + 1, Len(front))]

\* merge returns false.
held(buffer, index, data) ==
    \/ index \in DOMAIN buffer
    \/ /\ earlier(buffer, index) # {}
       /\ previous_end(buffer, index) > index
       /\ previous_end(buffer, index)
             > end_of(index, Len(cut_front(buffer, index, data)))

insert(buffer, index, data) ==
    LET kept == Restrict(buffer, DOMAIN buffer \ repeated(buffer, index, data))
        new == trimmed(kept, index, data)
    IN  IF held(kept, index, data) \/ new.index \in DOMAIN kept
          THEN kept
          ELSE [k \in DOMAIN kept \union {new.index} |->
                   IF k = new.index THEN new.data ELSE kept[k]]

------------------------------------------------------------------------------
(* send_to_bytestream and push_substring.                                  *)

\* The stream indices whose bytes the map holds, and the byte at one of them.
stored(buffer) == UNION {k .. k + Len(buffer[k]) - 1 : k \in DOMAIN buffer}
byte_at(buffer, i) ==
    LET k == CHOOSE k \in DOMAIN buffer : i \in k .. k + Len(buffer[k]) - 1
    IN  buffer[k][i - k + 1]

\* Mutant: the free space of the output stream is ignored.
next_expected_unbounded(r) ==
    CHOOSE e \in r.expected .. r.expected + Cardinality(stored(r.buffer)) :
        /\ \A i \in r.expected .. e - 1 : i \in stored(r.buffer)
        /\ e \notin stored(r.buffer)

\* _expected after the loop: past the bytes stored without a gap from _expected
\* on, as far as the output stream has room.
next_expected(r) ==
    LET room == Stream!remaining_capacity(r.output)
    IN  CHOOSE e \in r.expected .. r.expected + room :
            /\ \A i \in r.expected .. e - 1 : i \in stored(r.buffer)
            /\ e = r.expected + room \/ e \notin stored(r.buffer)

send_to_bytestream(r) ==
    LET e == next_expected(r)
        data == [j \in 1 .. e - r.expected |-> byte_at(r.buffer, r.expected + j - 1)]
    IN  [r EXCEPT !.output = Stream!write(@, data),
                  !.expected = e,
                  !.buffer = Restrict(@, {k \in DOMAIN @ : k > e})]

push_substring(r, data, index, eof) ==
    LET r1 == IF eof THEN [r EXCEPT !.eof_index = end_of(index, Len(data))] ELSE r
        r2 == IF end_of(index, Len(data)) > r.expected
                THEN send_to_bytestream([r1 EXCEPT !.buffer = insert(@, index, data)])
                ELSE r1
    IN  IF r2.expected = r2.eof_index
          THEN [r2 EXCEPT !.output = Stream!end_input(@)]
          ELSE r2

\* _unassembled_bytes after push_substring(data, index), when it was n before.
unassembled_after(n, r, data, index) ==
    LET gone == repeated(r.buffer, index, data)
        kept == Restrict(r.buffer, DOMAIN r.buffer \ gone)
        added == IF held(kept, index, data) THEN 0 ELSE Len(trimmed(kept, index, data).data)
        sent == next_expected([r EXCEPT !.buffer = insert(@, index, data)]) - r.expected
    IN  IF end_of(index, Len(data)) > r.expected
          THEN n - MapThenSumSet(LAMBDA k : Len(r.buffer[k]), gone) + added - sent
          ELSE n
=============================================================================
