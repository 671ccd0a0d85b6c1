--------------------------- MODULE TCPSenderSpec ----------------------------
(***************************************************************************)
(* A TCPSender under any sequence of calls by its owner: the application   *)
(* writes and closes the stream, acknowledgments of every value and window *)
(* arrive, time passes, and the outbound queue is emptied now and then.    *)
(***************************************************************************)
EXTENDS TCPSender, TCPState

CONSTANTS
    Capacity,         \* capacity of the outbound stream
    Isn,              \* initial sequence number
    RetxTimeout,      \* initial retransmission timeout
    StreamLength,     \* bytes the application writes at most
    Windows,          \* window sizes the peer advertises
    MaxQueue,         \* bound on the outbound queue between two drains
    MaxRetx           \* bound on _retransmission_count

ASSUME SenderAssumption ==
    /\ Capacity \in Nat /\ Isn \in WrappingInt32 /\ StreamLength \in Nat
    /\ RetxTimeout \in 1 .. UInt - 1
    /\ Windows \subseteq Nat /\ MaxQueue \in Nat /\ MaxRetx \in Nat

VARIABLES
    sender,
    high_ack      \* the highest acknowledgment number accepted so far

vars == <<sender, high_ack>>

Init ==
    /\ sender = new_sender(Capacity, RetxTimeout, Isn)
    /\ high_ack = 0

\* The application writes the next n bytes of its stream.
Write(n) ==
    /\ sender.stream.bytes_written + n <= StreamLength
    /\ sender' = [sender EXCEPT !.stream = Stream!write(@, Stream!Bytes(@.bytes_written, n))]
    /\ UNCHANGED high_ack

EndInput ==
    /\ sender' = [sender EXCEPT !.stream = Stream!end_input(@)]
    /\ UNCHANGED high_ack

FillWindow ==
    /\ Len(sender.segments_out) < MaxQueue
    /\ sender' = fill_window(sender)
    /\ UNCHANGED high_ack

AckReceived(ackno, window) ==
    LET ack == received_ackno(sender, ackno)
    IN  /\ Len(sender.segments_out) < MaxQueue
        /\ sender' = ack_received(sender, ackno, window)
        /\ high_ack' = IF valid_ack(sender, ack) /\ ack > high_ack THEN ack ELSE high_ack

SendEmptySegment ==
    /\ Len(sender.segments_out) < MaxQueue
    /\ sender' = send_empty_segment(sender)
    /\ UNCHANGED high_ack

Tick(ms) ==
    /\ Len(sender.segments_out) < MaxQueue
    /\ sender.retransmission_count < MaxRetx
    /\ sender' = tick(sender, ms)
    /\ UNCHANGED high_ack

\* The owner takes every segment out of the queue.
Drain ==
    /\ sender' = [sender EXCEPT !.segments_out = <<>>]
    /\ UNCHANGED high_ack

Next ==
    \/ \E n \in 1 .. StreamLength : Write(n)
    \/ EndInput
    \/ FillWindow
    \/ \E ackno \in WrappingInt32, window \in Windows : AckReceived(ackno, window)
    \/ SendEmptySegment
    \/ \E ms \in 1 .. RetxTimeout : Tick(ms)
    \/ Drain

Spec == Init /\ [][Next]_vars

------------------------------------------------------------------------------

TypeOK ==
    /\ sender.isn \in WrappingInt32
    /\ sender.next_seqno \in Nat
    /\ sender.bytes_in_flight \in Nat
    /\ sender.window_size \in Nat
    /\ sender.state \in {"CLOSED", "SYN_SENT", "SYN_ACKED", "FIN_SENT"}
    /\ sender.retransmission_timeout \in 0 .. UInt - 1
    /\ sender.remaining_time \in 0 .. UInt - 1
    /\ sender.retransmission_count \in Nat
    /\ high_ack \in Nat

\* The outstanding segments are exactly the sequence numbers sent and not yet
\* acknowledged: they follow one another without a gap or an overlap, from
\* next_seqno - bytes_in_flight up to next_seqno, so the counter
\* _bytes_in_flight, updated one segment at a time, never drifts from the queue.
FlightAccounting ==
    LET q == sender.segments_outstanding
        una == sender.next_seqno - sender.bytes_in_flight
    IN  /\ q = <<>> => sender.bytes_in_flight = 0
        /\ \A i \in 1 .. Len(q) :
              /\ length_in_sequence_space(q[i].segment) > 0
              /\ q[i].seqno = IF i = 1 THEN una ELSE end_of(q[i - 1])
              /\ i = Len(q) => end_of(q[i]) = sender.next_seqno

\* No sequence number is dropped from the retransmission queue before the peer
\* has acknowledged it, whatever partial, stale or repeated acknowledgments
\* arrive.
NothingForgotten == sender.next_seqno - sender.bytes_in_flight <= high_ack

\* Each outstanding segment carries the bytes of the stream that belong to its
\* sequence number, which is what a retransmission sends long after the stream
\* was read.
PayloadsInPlace ==
    /\ Stream!StreamOK(sender.stream)
    /\ \A i \in 1 .. Len(sender.segments_outstanding) :
          LET o == sender.segments_outstanding[i]
          IN  /\ o.segment.seqno = wrap(o.seqno, sender.isn)
              /\ \A j \in 1 .. Len(o.segment.payload) : o.segment.payload[j] = o.seqno + j - 2

\* The FIN takes the one sequence number after the last byte, and nothing is
\* sent after it.
FinIsLast ==
    LET q == sender.segments_outstanding
    IN  /\ sender.state = "FIN_SENT" =>
              /\ Stream!eof(sender.stream)
              /\ sender.next_seqno = sender.stream.bytes_written + 2
        /\ \A i \in 1 .. Len(q) : q[i].segment.fin =>
              i = Len(q) /\ sender.state = "FIN_SENT"

\* The sender's private _state and the state TCPState derives from the counters
\* (tcp_state.cc:94-110) tell the same story; try_clean_shutdown acts on the
\* latter, fill_window on the former.
StatesAgree ==
    sender_summary(sender) \in
        CASE sender.state = "FIN_SENT" -> {"FIN_SENT", "FIN_ACKED"}
          [] OTHER -> {sender.state}

\* Whatever is unacknowledged is covered by a running timer that has not
\* expired.
TimerArmed ==
    /\ sender.segments_outstanding # <<>> => sender.alarm_run
    /\ sender.remaining_time > 0 => sender.remaining_time < sender.retransmission_timeout

\* New sequence numbers are sent only into the window: after any step that
\* advances next_seqno past the SYN, no more is in flight than the peer's last
\* window allows, or one number when that window is zero.
SendsWithinWindow ==
    [][sender'.next_seqno > sender.next_seqno /\ sender.next_seqno > 0 =>
          \/ sender'.bytes_in_flight <= sender'.window_size
          \/ sender'.window_size = 0 /\ sender'.bytes_in_flight = 1]_vars
=============================================================================
