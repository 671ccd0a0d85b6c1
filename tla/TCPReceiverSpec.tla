-------------------------- MODULE TCPReceiverSpec ---------------------------
(***************************************************************************)
(* A TCPReceiver fed with the segments of one peer in any order, lost,     *)
(* repeated and re-cut at will, over a stream long enough for the sequence *)
(* numbers to wrap.                                                        *)
(***************************************************************************)
EXTENDS TCPReceiver

CONSTANTS
    Capacity,        \* receive capacity
    StreamLength,    \* length of the peer's stream
    PeerIsn,         \* the peer's initial sequence number
    MaxPayload       \* longest payload the peer sends

ASSUME ReceiverAssumption ==
    /\ Capacity \in Nat /\ StreamLength \in Nat /\ MaxPayload \in Nat
    /\ PeerIsn \in WrappingInt32
    /\ StreamLength < SizeT - 1

\* Nothing the peer may send lies half the sequence space ahead of the window:
\* the window field has 16 bits, sequence numbers have 32.
ASSUME WindowAssumption == 2 * (Capacity + 2) < Modulus

VARIABLE receiver

vars == <<receiver>>

Init == receiver = new_receiver(Capacity)

\* The segment with the n bytes at absolute number a (0 is the SYN, which comes
\* without payload; a = 0 without SYN is a keep-alive sent before any data).
Segment(a, n, syn, fin) ==
    [empty_segment EXCEPT !.seqno = wrap(a, PeerIsn), !.syn = syn, !.fin = fin,
                          !.payload = Stream!Bytes(a - 1, n)]

\* Old segments do not outlive half the sequence space.
Recent(a) == 2 * (stream_out(receiver).bytes_written - a) < Modulus

SegmentReceived(a, n, syn, fin) ==
    /\ Recent(a)
    /\ a = 0 => n = 0
    /\ syn => a = 0
    /\ fin => a + bit(syn) + n = StreamLength + 1
    /\ receiver' = segment_received(receiver, Segment(a, n, syn, fin))

\* The owner of the connection reads n bytes of the inbound stream.
Read(n) ==
    /\ n <= Stream!buffer_size(stream_out(receiver))
    /\ receiver' = [receiver EXCEPT !.reassembler.output = Stream!pop_output(@, n)]

\* Where a segment may start: at most a payload past the window.
Starts == 0 .. stream_out(receiver).bytes_written + Capacity + 2

Next ==
    \/ \E a \in Starts, n \in 0 .. MaxPayload, syn, fin \in BOOLEAN :
          a + n <= StreamLength + 1 /\ SegmentReceived(a, n, syn, fin)
    \/ \E n \in 1 .. Capacity : Read(n)

Spec == Init /\ [][Next]_vars

------------------------------------------------------------------------------

\* Every segment is put in its place, however often the 32-bit numbers have
\* wrapped, wherever it was cut and whenever it arrives: the inbound stream is
\* a prefix of what the peer wrote, and ends only when all of it is there.
InboundIsPrefix ==
    LET out == stream_out(receiver)
    IN  /\ Stream!StreamOK(out)
        /\ out.bytes_written = receiver.reassembler.expected
        /\ out.end_input => out.bytes_written = StreamLength

\* wrapping_integers.cc:26 promises "the 64-bit sequence number that wraps to
\* `n` and is closest to `checkpoint`".  With the ISN and the checkpoint that
\* segment_received unwraps with, whatever number a header holds, no absolute
\* number that wraps to it is nearer than the one found.
UnwrapIsClosest ==
    LET checkpoint == stream_out(receiver).bytes_written
    IN  \A n \in WrappingInt32, m \in 0 .. checkpoint + Modulus :
            wrap(m, receiver.isn) = n =>
                LET r == unwrap(n, receiver.isn, checkpoint)
                IN  /\ wrap(r, receiver.isn) = n
                    /\ distance(r, checkpoint) <= distance(m, checkpoint)

\* What is stored for later lies in the window the receiver has open or was
\* brought in by a segment that starts in it.
StoredNearWindow ==
    \A i \in stored(receiver.reassembler.buffer) :
        i < stream_out(receiver).bytes_read + Capacity + MaxPayload - 1

\* Neither the acknowledgment number nor the right edge of the advertised window
\* ever moves back, so that the peer may rely on an old advertisement.
WindowNeverShrinks ==
    [][/\ abs_ack(receiver') >= abs_ack(receiver)
       /\ abs_ack(receiver') + window_size(receiver')
            >= abs_ack(receiver) + window_size(receiver)]_vars
=============================================================================
