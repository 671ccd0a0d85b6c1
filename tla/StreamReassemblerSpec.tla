----------------------- MODULE StreamReassemblerSpec ------------------------
(***************************************************************************)
(* A StreamReassembler fed with substrings of one stream in any order,     *)
(* with any overlaps and repetitions, and drained by a reader.             *)
(***************************************************************************)
EXTENDS StreamReassembler

CONSTANTS
    Capacity,         \* capacity of the reassembler and its output stream
    StreamLength,     \* length of the stream the substrings are taken from
    MaxUnassembled    \* bound on the _unassembled_bytes counter

ASSUME ReassemblerAssumption ==
    Capacity \in Nat /\ StreamLength \in Nat /\ MaxUnassembled \in Nat /\ StreamLength < SizeT - 1

VARIABLES
    reassembler,
    unassembled_bytes,
    offered             \* the indices that arrived while in the window

vars == <<reassembler, unassembled_bytes, offered>>

Init ==
    /\ reassembler = new_reassembler(Capacity)
    /\ unassembled_bytes = 0
    /\ offered = {}

\* One past the last byte there is room for: what the reader has taken plus the
\* capacity.
WindowEnd == reassembler.output.bytes_read + Capacity

PushSubstring(index, n, eof) ==
    LET data == Stream!Bytes(index, n)
        count == unassembled_after(unassembled_bytes, reassembler, data, index)
    IN  /\ count <= MaxUnassembled
        /\ reassembler' = push_substring(reassembler, data, index, eof)
        /\ unassembled_bytes' = count
        /\ offered' = offered \union {i \in index .. index + n - 1 : i < WindowEnd}

\* The owner reads n bytes of the assembled stream.
Read(n) ==
    /\ n <= Stream!buffer_size(reassembler.output)
    /\ reassembler' = [reassembler EXCEPT !.output = Stream!pop_output(@, n)]
    /\ UNCHANGED <<unassembled_bytes, offered>>

Next ==
    \/ \E index \in 0 .. StreamLength : \E n \in 0 .. StreamLength - index :
          \E eof \in BOOLEAN :
             /\ eof => index + n = StreamLength
             /\ PushSubstring(index, n, eof)
    \/ \E n \in 1 .. Capacity : Read(n)

Spec == Init /\ [][Next]_vars

------------------------------------------------------------------------------

\* The output stream is a prefix of the real stream, whatever order, overlap or
\* repetition the substrings arrived with: send_to_bytestream skips, cuts and
\* concatenates entries without displacing a byte, and never overruns the
\* capacity.
OutputIsPrefix ==
    /\ Stream!StreamOK(reassembler.output)
    /\ reassembler.expected = reassembler.output.bytes_written

\* The entries of the map are pairwise disjoint, hold the stream's bytes, and
\* lie beyond what was assembled: the trimming in merge leaves no overlap.  The
\* counter behind unassembled_bytes() never falls below them, so that it cannot
\* underflow and empty() is never true too early.  It may exceed them:
\* send_to_bytestream takes off what it writes and erases the whole entry.
StoredOnce ==
    LET buffer == reassembler.buffer
    IN  /\ \A k \in DOMAIN buffer :
              /\ k > reassembler.expected
              /\ \A j \in 1 .. Len(buffer[k]) : buffer[k][j] = k + j - 1
              /\ \A l \in DOMAIN buffer : k < l => k + Len(buffer[k]) <= l
        /\ unassembled_bytes >= Cardinality(stored(buffer))

\* No byte is lost: one that arrived while there was room for it is assembled
\* or still stored, although merge erases, cuts and refuses entries and
\* send_to_bytestream drops what exceeds the capacity.
NothingInWindowLost ==
    offered \subseteq (0 .. reassembler.expected - 1) \union stored(reassembler.buffer)

\* The output stream is ended exactly when every byte is assembled and a
\* substring marked eof was seen, in whichever order the two happen.
EndedAtEof ==
    reassembler.output.end_input <=>
        reassembler.expected = StreamLength /\ reassembler.eof_index = StreamLength

=============================================================================
