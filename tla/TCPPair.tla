------------------------------ MODULE TCPPair -------------------------------
(***************************************************************************)
(* Two TCPConnections, a client that connects and a server that listens,   *)
(* with the rules by which TCPSpongeSocket drives them (_initialize_TCP,   *)
(* tcp_sponge_socket.cc:53-163), over a network that loses, delays,        *)
(* reorders and repeats segments.  Every rule runs on the one thread of    *)
(* its socket, so each is one step; what it leaves in segments_out goes to *)
(* the network with it (rule 4), where it may stay as long as it likes.    *)
(***************************************************************************)
EXTENDS TCPConnection, FiniteSetsExt, Functions

CONSTANTS
    Capacity,         \* recv_capacity and send_capacity
    RtTimeout,        \* rt_timeout
    ClientIsn, ServerIsn,
    ClientLength, ServerLength,   \* bytes each user writes at most
    Ticks,            \* milliseconds between two calls of tick
    MaxNet,           \* bound on the segments in the network at a time
    MaxRto            \* bound on the retransmission timeout

Endpoints == {"client", "server"}
Peer(e) == IF e = "client" THEN "server" ELSE "client"
Isn(e) == IF e = "client" THEN ClientIsn ELSE ServerIsn
Length(e) == IF e = "client" THEN ClientLength ELSE ServerLength

VARIABLES
    conn,         \* the TCPConnection of each endpoint
    listening,    \* the _listen flag of the server's adapter
    net           \* the segments in the network, each with its destination

vars == <<conn, listening, net>>

Init ==
    /\ conn = [e \in Endpoints |-> new_connection(Capacity, Capacity, RtTimeout, Isn(e))]
    /\ listening = TRUE
    /\ net = {}

\* e's connection becomes c, whose queue is sent to the network; rest is what the
\* network held before.
Transmit(e, c, rest) ==
    /\ conn' = [conn EXCEPT ![e] = [c EXCEPT !.segments_out = <<>>]]
    /\ net' = rest \union {[to |-> Peer(e), segment |-> seg] : seg \in Range(c.segments_out)}
    /\ Cardinality(net') <= MaxNet

\* TCPSpongeSocket::connect
Connect ==
    /\ state(conn["client"]).sender = "CLOSED"
    /\ Transmit("client", connect(conn["client"]), net)
    /\ UNCHANGED listening

\* The loops in connect and listen_and_accept have been left: _tcp_main runs.
Connected(e) ==
    state(conn[e]) \notin
        IF e = "client" THEN {State.LISTEN, State.SYN_SENT}
        ELSE {State.LISTEN, State.SYN_RCVD, State.SYN_SENT}

\* The adapter of a listening endpoint passes on a SYN, after which it listens no
\* more, and nothing else.
adapter_passes(e, seg) == e = "server" /\ listening => seg.syn /\ ~seg.rst

\* Rule 1, for a segment the adapter passes on.
SegmentReceived(e, m, rest) ==
    /\ m.to = e
    /\ conn[e].actived
    /\ adapter_passes(e, m.segment)
    /\ listening' = (listening /\ e # "server")
    /\ Transmit(e, segment_received(conn[e], m.segment), rest)

\* The network delivers a segment and may keep a copy.
Deliver(e) ==
    \E m \in net : \E rest \in {net, net \ {m}} : SegmentReceived(e, m, rest)

\* The guard of rule 2.
MayWrite(e) ==
    /\ Connected(e)
    /\ conn[e].actived
    /\ ~conn[e].sender.stream.end_input
    /\ Stream!remaining_capacity(conn[e].sender.stream) > 0

\* Rule 2, with bytes from the user.
Write(e) ==
    LET stream == conn[e].sender.stream
    IN  /\ MayWrite(e)
        /\ \E n \in 1 .. Stream!remaining_capacity(stream) :
              /\ stream.bytes_written + n <= Length(e)
              /\ Transmit(e, write(conn[e], Stream!Bytes(stream.bytes_written, n)), net)
        /\ UNCHANGED listening

\* Rule 2, when the user has ended the stream.
EndInput(e) ==
    /\ MayWrite(e)
    /\ Transmit(e, end_input_stream(write(conn[e], <<>>)), net)
    /\ UNCHANGED listening

\* Rule 3: what the user has taken leaves the inbound stream; no segment is sent.
Read(e) ==
    \E n \in 1 .. Stream!buffer_size(inbound_stream(conn[e])) :
        /\ conn' = [conn EXCEPT ![e].receiver.reassembler.output = Stream!pop_output(@, n)]
        /\ UNCHANGED <<listening, net>>

\* _tcp_loop.  The clocks of the two endpoints are independent.
Tick(e) ==
    /\ conn[e].actived
    /\ conn[e].sender.retransmission_timeout <= MaxRto
    /\ \E ms \in Ticks : Transmit(e, tick(conn[e], ms), net)
    /\ UNCHANGED listening

\* The network loses a segment, or the sender's LossyFdAdapter does not write it.
Lose == \E m \in net : net' = net \ {m} /\ UNCHANGED <<conn, listening>>

\* The receiver's LossyFdAdapter drops a segment once the adapter below has read
\* it, and has stopped listening for it.
DropRead(e) ==
    \E m \in net :
        /\ m.to = e
        /\ conn[e].actived
        /\ adapter_passes(e, m.segment)
        /\ listening' = (listening /\ e # "server")
        /\ net' = net \ {m}
        /\ UNCHANGED conn

User == Connect \/ \E e \in Endpoints : Write(e) \/ EndInput(e) \/ Read(e)

Next == User \/ Lose \/ \E e \in Endpoints : Deliver(e) \/ DropRead(e) \/ Tick(e)

Spec == Init /\ [][Next]_vars

------------------------------------------------------------------------------

Outbound(e) == conn[e].sender.stream
Inbound(e) == inbound_stream(conn[e])

Status(e) ==
    IF conn[e].actived THEN "open"
    ELSE IF Inbound(e).error THEN "reset" ELSE "clean"

Sent(e) == conn[e].sender.next_seqno
Unacked(e) == Sent(e) - conn[e].sender.bytes_in_flight
Received(e) ==
    IF conn[e].receiver.in_listen THEN 0 ELSE Receiver!abs_ack(conn[e].receiver)

\* What a sender has taken off its retransmission queue has reached the peer's
\* receiver, and nothing is acknowledged that was not sent, however late or
\* often acknowledgments arrive.
AckedIsReceived ==
    \A e \in Endpoints : Unacked(e) <= Received(Peer(e)) /\ Received(Peer(e)) <= Sent(e)

\* An endpoint that leaves without lingering, because it was the last to end its
\* stream, leaves no peer behind that still waits for an acknowledgment of its
\* own FIN: try_clean_shutdown clears _linger_after_streams_finish only when
\* the FIN still to be sent will acknowledge the peer's.
PassiveCloserIsDone ==
    \A e \in Endpoints :
        Status(e) = "clean" /\ ~conn[e].linger_after_streams_finish =>
            sender_summary(conn[Peer(e)].sender) \in {"FIN_ACKED", "ERROR"}

\* No segment is left behind in the sender's queue by a handler, except while
\* the peer's SYN is missing, when segment_received returns early; there the
\* next tick sends it.
NothingLeftInQueue ==
    \A e \in Endpoints :
        conn[e].actived /\ conn[e].sender.segments_out # <<>> =>
            receiver_summary(conn[e].receiver) = "LISTEN"

\* The pair of connections as the two users see it.
Streams == INSTANCE ReliableStreams WITH
    written  <- [e \in Endpoints |-> Outbound(e).bytes_written],
    ended    <- [e \in Endpoints |-> Outbound(e).end_input],
    arrived  <- [e \in Endpoints |-> Inbound(e).bytes_written],
    finished <- [e \in Endpoints |-> Inbound(e).end_input],
    status   <- [e \in Endpoints |-> Status(e)]

\* The pair implements two reliable streams: whatever the network does, each
\* user reads a prefix of what the other wrote, sees its end only after all of
\* it, and a connection that finishes without an error has carried both streams
\* completely.
ReliableStreams == Streams!Spec
=============================================================================
