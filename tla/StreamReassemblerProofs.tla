---------------------- MODULE StreamReassemblerProofs -----------------------
(***************************************************************************)
(* What a StreamReassembler promises its owner, for every capacity and     *)
(* every stream, in whatever order, overlap and repetition the substrings  *)
(* arrive: proofs of the properties of StreamReassemblerSpec.              *)
(***************************************************************************)
EXTENDS StreamReassemblerSpec, StreamReassemblerTheorems

\* The inductive invariant: between two calls the map and the output are in order
\* (AtRest), the counter covers the map, and what was offered lies in the window
\* and is not lost.
IInv ==
    /\ AtRest(reassembler, StreamLength, Capacity)
    /\ unassembled_bytes \in Int
    /\ unassembled_bytes >= Cardinality(stored(reassembler.buffer))
    /\ offered \subseteq Int
    /\ \A i \in offered : i < WindowEnd
    /\ NothingInWindowLost

LEMMA ReassemblerInit == Init => IInv
<1> SUFFICES ASSUME Init PROVE IInv
  OBVIOUS
<1>1. AtRest(reassembler, StreamLength, Capacity)
  BY NewAtRest, ReassemblerAssumption DEF Init
<1>2. stored(reassembler.buffer) = {}
  <2>1. reassembler.buffer = [k \in {} |-> <<>>]
    BY DEF Init, new_reassembler
  <2> QED
    BY <2>1, EmptyMap, ReassemblerAssumption
<1>3. Cardinality(stored(reassembler.buffer)) = 0 /\ unassembled_bytes = 0 /\ offered = {}
  BY <1>2, FS_EmptySet DEF Init
<1> QED
  BY <1>1, <1>3 DEF IInv, NothingInWindowLost

\* push_substring: what was offered and is now in the window is kept.
LEMMA PushStep ==
    ASSUME IInv, NEW index \in 0 .. StreamLength, NEW n \in 0 .. StreamLength - index,
           NEW eof \in BOOLEAN, eof => index + n = StreamLength, PushSubstring(index, n, eof)
    PROVE  IInv'
<1> DEFINE r == reassembler
           t == reassembler'
           data == Stream!Bytes(index, n)
<1>1. /\ StreamLength \in Nat /\ Capacity \in Nat /\ StreamLength < SizeT - 1
      /\ index \in Nat /\ n \in Nat /\ index + n < SizeT /\ index + n <= StreamLength
  BY ReassemblerAssumption, SizeTAssumption
<1>2. IsPiece(data, index, n)
  BY <1>1, BytesArePiece
<1>3. /\ t = push_substring(r, data, index, eof)
      /\ unassembled_bytes' = unassembled_after(unassembled_bytes, r, data, index)
      /\ offered' = offered \union {i \in index .. index + n - 1 : i < WindowEnd}
  BY DEF PushSubstring
<1>4. AtRest(r, StreamLength, Capacity)
  BY DEF IInv
<1> HIDE DEF data
<1>5. Pushed(r, t, data, index, n, eof, StreamLength, Capacity)
  BY <1>1, <1>2, <1>3, <1>4, PushAssembles
<1>6. unassembled_bytes' \in Int /\ unassembled_bytes' >= Cardinality(stored(t.buffer))
  BY <1>1, <1>2, <1>3, <1>4, CounterCovers DEF IInv
<1>7. /\ AtRest(t, StreamLength, Capacity) /\ t.output.bytes_read = r.output.bytes_read
      /\ t.expected >= r.expected
      /\ \A i \in stored(r.buffer) \union (index .. index + n - 1) :
            i < r.output.bytes_read + Capacity => i < t.expected \/ i \in stored(t.buffer)
  BY <1>5 DEF Pushed
<1>8. WindowEnd' = WindowEnd /\ WindowEnd = r.output.bytes_read + Capacity
  BY <1>7 DEF WindowEnd
<1>9. r.expected \in Nat /\ t.expected \in Nat
  BY <1>1, <1>4, <1>7, RestNumbers
<1>10. offered' \subseteq Int /\ \A i \in offered' : i < WindowEnd'
  <2> DEFINE now == {i \in index .. index + n - 1 : i < WindowEnd}
  <2>1. now \subseteq Int /\ \A i \in now : i < WindowEnd
    BY <1>1
  <2>2. offered \subseteq Int /\ \A i \in offered : i < WindowEnd
    BY DEF IInv
  <2> HIDE DEF now
  <2>3. offered' = offered \union now
    BY <1>3 DEF now
  <2> QED
    BY <1>8, <2>1, <2>2, <2>3
<1>11. ASSUME NEW i \in offered'
       PROVE  i \in (0 .. t.expected - 1) \union stored(t.buffer)
  <2>1. i < WindowEnd /\ i \in Int
    BY <1>8, <1>10
  <2>2. CASE i \in 0 .. r.expected - 1
    BY <1>7, <1>9, <2>2
  <2>3. CASE i \in stored(r.buffer) \union (index .. index + n - 1)
    <3>1. i < t.expected \/ i \in stored(t.buffer)
      BY <1>7, <1>8, <2>1, <2>3
    <3>2. i >= 0
      <4>1. CASE i \in stored(r.buffer)
        BY <1>1, <1>4, <4>1, StoredBelow DEF AtRest, Assembling
      <4>2. CASE i \in index .. index + n - 1
        BY <1>1, <4>2
      <4> QED
        BY <2>3, <4>1, <4>2
    <3> QED
      BY <1>9, <2>1, <3>1, <3>2
  <2>4. i \in 0 .. r.expected - 1 \/ i \in stored(r.buffer) \union (index .. index + n - 1)
    BY <1>3 DEF IInv, NothingInWindowLost
  <2> QED
    BY <2>2, <2>3, <2>4
<1>12. NothingInWindowLost'
  BY <1>11 DEF NothingInWindowLost
<1> QED
  BY <1>6, <1>7, <1>10, <1>12 DEF IInv

\* Reading only moves the window on.
LEMMA ReadStep ==
    ASSUME IInv, NEW n \in 1 .. Capacity, Read(n)
    PROVE  IInv'
<1> DEFINE r == reassembler
           t == reassembler'
           o == Stream!pop_output(r.output, n)
<1>1. StreamLength \in Nat /\ Capacity \in Nat /\ n \in Nat
  BY ReassemblerAssumption
<1>2. AtRest(r, StreamLength, Capacity) /\ IsOutput(r.output, Capacity) /\ r.output.bytes_read \in Nat
  BY <1>1, RestNumbers, Zenon DEF IInv
<1>3. /\ n <= Stream!buffer_size(r.output) /\ t = [r EXCEPT !.output = o]
      /\ UNCHANGED <<unassembled_bytes, offered>>
  BY DEF Read
<1>4. /\ IsOutput(o, Capacity) /\ o.bytes_written = r.output.bytes_written
      /\ o.bytes_read = r.output.bytes_read + n /\ o.end_input = r.output.end_input
  BY <1>1, <1>2, <1>3, ReadInOrder
<1> HIDE DEF o
<1>5. r = [buffer |-> r.buffer, expected |-> r.expected, eof_index |-> r.eof_index,
           output |-> r.output]
  BY <1>2 DEF AtRest, Assembling
<1>6. t = [buffer |-> r.buffer, expected |-> r.expected, eof_index |-> r.eof_index, output |-> o]
  BY <1>3, <1>5
<1>7. AtRest(t, StreamLength, Capacity)
  BY <1>2, <1>4, <1>6 DEF AtRest, Assembling
<1>8. \A i \in offered' : i < WindowEnd'
  <2>1. WindowEnd' = WindowEnd + n /\ WindowEnd \in Nat
    BY <1>1, <1>2, <1>4, <1>6 DEF WindowEnd
  <2> QED
    BY <1>1, <1>3, <2>1 DEF IInv
<1>9. t.buffer = r.buffer /\ t.expected = r.expected
  BY <1>6
<1> QED
  BY <1>3, <1>7, <1>8, <1>9 DEF IInv, NothingInWindowLost

LEMMA ReassemblerStep == IInv /\ [Next]_vars => IInv'
<1> SUFFICES ASSUME IInv, [Next]_vars PROVE IInv'
  OBVIOUS
<1>1. ASSUME NEW index \in 0 .. StreamLength, NEW n \in 0 .. StreamLength - index,
             NEW eof \in BOOLEAN, eof => index + n = StreamLength, PushSubstring(index, n, eof)
      PROVE  IInv'
  BY <1>1, PushStep
<1>2. ASSUME NEW n \in 1 .. Capacity, Read(n) PROVE IInv'
  BY <1>2, ReadStep
<1>3. CASE UNCHANGED vars
  BY <1>3 DEF vars, IInv, NothingInWindowLost, WindowEnd
<1> QED
  BY <1>1, <1>2, <1>3 DEF Next

\* Every reachable state satisfies the inductive invariant.
LEMMA ReassemblerInvariant == Spec => []IInv
BY ReassemblerInit, ReassemblerStep, PTL DEF Spec

------------------------------------------------------------------------------

\* send_to_bytestream never displaces a byte and never overruns the capacity: the
\* output is a prefix of the stream for every capacity and stream.
THEOREM OutputPrefix == Spec => []OutputIsPrefix
<1>1. IInv => OutputIsPrefix
  BY DEF IInv, AtRest, Assembling, IsOutput, OutputIsPrefix
<1> QED
  BY <1>1, ReassemblerInvariant, PTL

\* merge leaves disjoint entries that hold the stream's bytes and lie beyond
\* _expected, and the counter behind unassembled_bytes() never falls below them.
THEOREM EntriesDisjoint == Spec => []StoredOnce
<1>1. IInv => StoredOnce
  BY DEF IInv, AtRest, Assembling, IsMap, StoredOnce
<1> QED
  BY <1>1, ReassemblerInvariant, PTL

\* merge and send_to_bytestream lose no byte that arrived while there was room
\* for it.
THEOREM WindowKept == Spec => []NothingInWindowLost
<1>1. IInv => NothingInWindowLost
  BY DEF IInv
<1> QED
  BY <1>1, ReassemblerInvariant, PTL

\* push_substring ends the output exactly when the last byte is assembled and the
\* end is known, in whichever order the two happen.
THEOREM EndedExactly == Spec => []EndedAtEof
<1>1. IInv => EndedAtEof
  BY DEF IInv, AtRest, Assembling, IsOutput, EndedAtEof
<1> QED
  BY <1>1, ReassemblerInvariant, PTL
=============================================================================
