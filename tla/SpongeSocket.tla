---------------------------- MODULE SpongeSocket -----------------------------
(***************************************************************************)
(* A TCPSpongeSocket between its owner's thread, which copies standard     *)
(* input and output (bidirectional_stream_copy), and the thread that runs  *)
(* the TCPConnection, with their two event loops and the pair of local     *)
(* sockets in between.  A poll reports what is ready at that moment; the   *)
(* callbacks that follow are separate steps, with the other thread's in    *)
(* between.  The peer is a TCPConnection at the far end of a network that  *)
(* keeps order and loses nothing.                                          *)
(***************************************************************************)
EXTENDS TCPConnection, LocalSocket, StreamCopy

CONSTANTS
    Capacity,         \* recv_capacity and send_capacity
    CopySize,         \* buffer_size of the copy's two streams
    PipeSize,         \* what a local socket holds
    RtTimeout, TickTime,
    OurIsn, PeerIsn,
    Uses              \* the uses to be looked at: [role |-> "connect" or "listen",
                      \* leaves |-> "wait" or "destroy", input |-> bytes on standard
                      \* input, peer |-> bytes the peer's user writes at most]

VARIABLES
    thread,           \* the part of the TCPSpongeSocket its thread works on
    owner,            \* the copy, and what the owner is doing
    pair,             \* the local sockets
    input, output,    \* bytes left on standard input, bytes on standard output
    peer,             \* the peer's TCPConnection
    to_peer, to_us,   \* segments under way
    killed,           \* how the process died, if it did
    was_reset         \* the peer has given up

vars == <<thread, owner, pair, input, output, peer, to_peer, to_us, killed, was_reset>>

\* _initialize_TCP, then TCPConnection::connect or set_listening(true).
new_thread(role) ==
    LET c == new_connection(Capacity, Capacity, RtTimeout, OurIsn)
    IN  [pc |-> "connect", role |-> role, listening |-> role = "listen",
         conn |-> IF role = "connect" THEN connect(c) ELSE c,
         outbound_shutdown |-> FALSE, inbound_shutdown |-> FALSE, data_eof |-> FALSE,
         rules |-> 1 .. 4, todo |-> <<>>]

Init ==
    /\ \E use \in Uses :
          LET p == new_connection(Capacity, Capacity, RtTimeout, PeerIsn)
              connecting == connect(p)
          IN  /\ thread = new_thread(use.role)
              /\ owner = [pc |-> "connect", use |-> use, abort |-> FALSE,
                          copy |-> new_copy(CopySize), todo |-> <<>>]
              /\ peer = IF use.role = "connect" THEN p
                        ELSE [connecting EXCEPT !.segments_out = <<>>]
              /\ input = use.input
              /\ to_us = IF use.role = "connect" THEN <<>> ELSE connecting.segments_out
    /\ pair = new_pair(PipeSize)
    /\ output = <<>>
    /\ to_peer = <<>>
    /\ killed = "no"
    /\ was_reset = FALSE

------------------------------------------------------------------------------
(* The thread: rules 1 from the network, 2 from the owner, 3 to the owner, *)
(* 4 to the network.                                                       *)

direction(r) == IF r \in {1, 2} THEN "In" ELSE "Out"

outbound_capacity(t) == Stream!remaining_capacity(t.conn.sender.stream)

\* Mutant: there is always interest in sending.
interest_sending(t, r) ==
    CASE r = 1 -> t.conn.actived
      [] r = 2 -> t.conn.actived /\ ~t.outbound_shutdown /\ outbound_capacity(t) > 0
      [] r = 3 -> \/ inbound_stream(t.conn).buffer # <<>>
                  \/ Stream!eof(inbound_stream(t.conn)) /\ ~t.inbound_shutdown
      [] r = 4 -> t.conn.actived

interest(t, r) ==
    CASE r = 1 -> t.conn.actived
      [] r = 2 -> t.conn.actived /\ ~t.outbound_shutdown /\ outbound_capacity(t) > 0
      [] r = 3 -> \/ inbound_stream(t.conn).buffer # <<>>
                  \/ /\ Stream!eof(inbound_stream(t.conn)) \/ inbound_stream(t.conn).error
                     /\ ~t.inbound_shutdown
      [] r = 4 -> t.conn.segments_out # <<>>

\* Only rule 2 has something to do when it is cancelled.
cancel(t, cancelled) ==
    LET t1 == [t EXCEPT !.rules = @ \ cancelled]
    IN  IF 2 \in cancelled
        THEN [t1 EXCEPT !.conn = end_input_stream(@), !.outbound_shutdown = TRUE]
        ELSE t1

set_up(t) == cancel(t, {r \in t.rules : defunct(direction(r), r = 2 /\ t.data_eof, FALSE)})

\* What poll reports for the descriptors of the rules: the network takes anything.
reported(r) ==
    CASE r = 1 -> IF to_us # <<>> THEN {"IN"} ELSE {}
      [] r \in {2, 3} -> revents(pair, "thread")
      [] r = 4 -> {"OUT"}

\* What wait_next_event has to do after poll, in order.
results(t) ==
    LET all == [r \in 1 .. 4 |->
                   [rule |-> r, what |-> IF r \in t.rules
                                         THEN outcome(direction(r), interest(t, r), reported(r))
                                         ELSE "skip"]]
    IN  SelectSeq(all, LAMBDA x : x.what # "skip")

\* The conditions of the loops in connect and listen_and_accept.
still_connecting(t) ==
    IF t.role = "connect" THEN state(t.conn) = State.SYN_SENT
    ELSE state(t.conn) \in {State.LISTEN, State.SYN_RCVD, State.SYN_SENT}

\* The end of _tcp_main: both directions are shut down at the owner's end, and
\* the connection is destroyed.
tcp_main_ends(t) ==
    /\ thread' = [t EXCEPT !.pc = "done", !.conn = destroy(@)]
    /\ pair' = shutdown(pair, "owner", SHUT_RDWR)
    /\ UNCHANGED owner

\* _tcp_loop, from the end of one wait_next_event to the callbacks of the next.
ThreadRound ==
    LET t == [thread EXCEPT !.conn = tick(@, 0)]
        ready == set_up(t)
    IN  /\ thread.pc \in {"connect", "main"}
        /\ thread.todo = <<>>
        /\ IF thread.pc = "main" /\ owner.abort THEN tcp_main_ends(thread)
           ELSE IF thread.pc = "connect" /\ ~still_connecting(t)
           THEN /\ thread' = [t EXCEPT !.pc = "main"]
                /\ owner' = [owner EXCEPT !.pc = "copy"]
                /\ UNCHANGED pair
           ELSE IF \A r \in ready.rules : ~interest(ready, r) THEN tcp_main_ends(ready)
           ELSE /\ thread' = [ready EXCEPT !.todo = results(ready)]
                /\ UNCHANGED <<owner, pair>>
        /\ thread' # thread
        /\ UNCHANGED <<input, output, peer, to_peer, to_us, killed, was_reset>>

\* Rule 1: the adapter passes a segment on, unless it listens for another.
rule1 ==
    LET seg == Head(to_us)
        passes == thread.listening => seg.syn /\ ~seg.rst
    IN  /\ thread' = [thread EXCEPT !.todo = Tail(@),
                         !.listening = @ /\ ~passes,
                         !.conn = IF passes THEN segment_received(@, seg) ELSE @]
        /\ to_us' = Tail(to_us)
        /\ UNCHANGED <<pair, to_peer, killed>>

\* Mutant: the end of the stream goes unnoticed.
rule2_endless ==
    LET limit == outbound_capacity(thread)
        data == read_bytes(pair, "thread", limit)
    IN  /\ thread' = [thread EXCEPT !.todo = Tail(@), !.conn = write(@, data)]
        /\ pair' = after_read(pair, "thread", limit)
        /\ UNCHANGED <<to_peer, to_us, killed>>

\* Rule 2.  The stream ends when nothing could be read.
rule2 ==
    LET limit == outbound_capacity(thread)
        data == read_bytes(pair, "thread", limit)
        ended == thread.data_eof \/ (limit > 0 /\ data = <<>>)
        c == write(thread.conn, data)
    IN  /\ thread' = [thread EXCEPT !.todo = Tail(@), !.data_eof = ended,
                         !.conn = IF ended THEN end_input_stream(c) ELSE c,
                         !.outbound_shutdown = @ \/ ended]
        /\ pair' = after_read(pair, "thread", limit)
        /\ killed' = IF \/ read_fails(pair, "thread")
                        \/ Stream!accepted(thread.conn.sender.stream, data) # Len(data)
                     THEN "exception" ELSE "no"
        /\ UNCHANGED <<to_peer, to_us>>

\* Mutant: all that was offered is taken for written.
rule3_popping_all ==
    LET data == inbound_stream(thread.conn).buffer
        left == Stream!pop_output(inbound_stream(thread.conn), Len(data))
        ended == Stream!eof(left) \/ left.error
        written == after_write(pair, "thread", data)
    IN  /\ thread' = [thread EXCEPT !.todo = Tail(@),
                         !.conn.receiver.reassembler.output = left,
                         !.inbound_shutdown = @ \/ ended]
        /\ pair' = IF ended THEN shutdown(written, "thread", SHUT_WR) ELSE written
        /\ UNCHANGED <<to_peer, to_us, killed>>

\* Rule 3.
rule3 ==
    LET data == inbound_stream(thread.conn).buffer
        n == write_count(pair, "thread", data)
        left == Stream!pop_output(inbound_stream(thread.conn), n)
        ended == Stream!eof(left) \/ left.error
        written == after_write(pair, "thread", data)
    IN  /\ thread' = [thread EXCEPT !.todo = Tail(@),
                         !.conn.receiver.reassembler.output = left,
                         !.inbound_shutdown = @ \/ ended]
        /\ pair' = IF ended THEN shutdown(written, "thread", SHUT_WR) ELSE written
        /\ killed' = IF write_breaks(pair, "thread", data) THEN "thread pipe"
                     ELSE IF write_fails(pair, "thread", data) THEN "exception" ELSE "no"
        /\ UNCHANGED <<to_peer, to_us>>

\* Rule 4.
rule4 ==
    LET c == [thread.conn EXCEPT !.segments_out = <<>>]
    IN  /\ thread' = [thread EXCEPT !.todo = Tail(@), !.conn = c]
        /\ to_peer' = to_peer \o thread.conn.segments_out
        /\ killed' = IF busy_wait(thread.conn.segments_out # <<>>, interest(thread', 4))
                     THEN "exception" ELSE "no"
        /\ UNCHANGED <<pair, to_us>>

ThreadStep ==
    /\ thread.todo # <<>>
    /\ LET r == Head(thread.todo).rule
       IN  \/ /\ Head(thread.todo).what = "cancel"
              /\ thread' = [cancel(thread, {r}) EXCEPT !.todo = Tail(@)]
              /\ UNCHANGED <<pair, to_peer, to_us, killed>>
           \/ /\ Head(thread.todo).what = "call"
              /\ \/ r = 1 /\ rule1
                 \/ r = 2 /\ rule2
                 \/ r = 3 /\ rule3
                 \/ r = 4 /\ rule4
    /\ UNCHANGED <<owner, input, output, peer, was_reset>>

\* Nothing is under way.  Only then does time pass.
quiet == to_peer = <<>> /\ to_us = <<>> /\ thread.conn.segments_out = <<>>

\* wait_next_event has timed out, or found nothing but hangups.
ThreadTick ==
    /\ quiet
    /\ thread.pc \in {"connect", "main"}
    /\ thread.todo = <<>>
    /\ results(set_up(thread)) = <<>>
    /\ thread' = [thread EXCEPT !.conn = tick(@, TickTime)]
    /\ thread' # thread
    /\ UNCHANGED <<owner, pair, input, output, peer, to_peer, to_us, killed, was_reset>>

------------------------------------------------------------------------------
(* The owner.                                                              *)

\* What poll may report of standard input: nothing yet, bytes, or the end, which
\* shows as readable or, for a pipe, as a hangup.
InputReports == IF input > 0 THEN {{}, {"IN"}} ELSE {{}, {"IN"}, {"HUP"}}

copy_results(o, on_input) ==
    LET report(r) == CASE r = 1 -> on_input
                       [] r \in {2, 3} -> revents(pair, "owner")
                       [] r = 4 -> {"OUT"}
        all == [r \in 1 .. 4 |->
                   [rule |-> r, what |-> IF r \in o.rules
                                         THEN outcome(copy_direction(r), copy_interest(o, r), report(r))
                                         ELSE "skip"]]
    IN  SelectSeq(all, LAMBDA x : x.what # "skip")

\* The loop of bidirectional_stream_copy.  When nothing is left to poll the owner
\* goes on to wait_until_closed.
OwnerRound ==
    LET ready == copy_cancel(owner.copy, copy_defunct(owner.copy))
    IN  /\ owner.pc = "copy"
        /\ owner.todo = <<>>
        /\ IF \A r \in ready.rules : ~copy_interest(ready, r)
           THEN /\ owner' = [owner EXCEPT !.copy = ready, !.pc = "join"]
                /\ pair' = shutdown(pair, "owner", SHUT_RDWR)
           ELSE /\ \E on_input \in InputReports :
                      owner' = [owner EXCEPT !.copy = ready, !.todo = copy_results(ready, on_input)]
                /\ owner' # owner
                /\ UNCHANGED pair
        /\ UNCHANGED <<thread, input, output, peer, to_peer, to_us, killed, was_reset>>

OwnerStep ==
    LET todo == Tail(owner.todo)
        r == Head(owner.todo).rule
        o == owner.copy
        out == o.outbound.buffer
        limit == Buf!remaining_capacity(o.inbound)
        data == read_bytes(pair, "owner", limit)
    IN  /\ owner.todo # <<>>
        /\ \/ /\ Head(owner.todo).what = "cancel"
              /\ owner' = [owner EXCEPT !.todo = todo, !.copy = copy_cancel(o, {r})]
              /\ UNCHANGED <<pair, input, output, killed>>
           \/ /\ Head(owner.todo).what = "call" /\ r = 1
              /\ \E n \in IF input = 0 THEN {0}
                          ELSE 1 .. least(input, Buf!remaining_capacity(o.outbound)) :
                    /\ owner' = [owner EXCEPT !.todo = todo,
                                    !.copy = copy_input(o, Buf!Bytes(owner.use.input - input, n))]
                    /\ input' = input - n
              /\ UNCHANGED <<pair, output, killed>>
           \/ /\ Head(owner.todo).what = "call" /\ r = 2
              /\ LET next == copy_to_socket(o, write_count(pair, "owner", out))
                     written == after_write(pair, "owner", out)
                 IN  /\ owner' = [owner EXCEPT !.todo = todo, !.copy = next]
                     /\ pair' = IF Buf!eof(next.outbound)
                                THEN shutdown(written, "owner", SHUT_WR) ELSE written
              /\ killed' = IF write_breaks(pair, "owner", out) THEN "owner pipe"
                           ELSE IF write_fails(pair, "owner", out) THEN "exception" ELSE "no"
              /\ UNCHANGED <<input, output>>
           \/ /\ Head(owner.todo).what = "call" /\ r = 3
              /\ owner' = [owner EXCEPT !.todo = todo, !.copy = copy_from_socket(o, data)]
              /\ pair' = after_read(pair, "owner", limit)
              /\ killed' = IF read_fails(pair, "owner") THEN "exception" ELSE "no"
              /\ UNCHANGED <<input, output>>
           \/ /\ Head(owner.todo).what = "call" /\ r = 4
              /\ owner' = [owner EXCEPT !.todo = todo,
                              !.copy = copy_output(o, Len(o.inbound.buffer))]
              /\ output' = output \o o.inbound.buffer
              /\ UNCHANGED <<pair, input, killed>>
        /\ UNCHANGED <<thread, peer, to_peer, to_us, was_reset>>

\* The owner's copy is left early, and the socket destroyed while connected.
OwnerDestroys ==
    /\ owner.pc = "copy" /\ owner.use.leaves = "destroy" /\ owner.todo = <<>>
    /\ owner' = [owner EXCEPT !.pc = "join", !.abort = TRUE]
    /\ UNCHANGED <<thread, pair, input, output, peer, to_peer, to_us, killed, was_reset>>

\* _tcp_thread.join()
OwnerJoins ==
    /\ owner.pc = "join" /\ thread.pc = "done"
    /\ owner' = [owner EXCEPT !.pc = "closed"]
    /\ UNCHANGED <<thread, pair, input, output, peer, to_peer, to_us, killed, was_reset>>

------------------------------------------------------------------------------
(* The peer.                                                               *)

peer_becomes(c) ==
    /\ peer' = [c EXCEPT !.segments_out = <<>>]
    /\ to_us' = IF thread.pc = "done" THEN <<>> ELSE to_us \o c.segments_out
    /\ UNCHANGED <<thread, owner, pair, input, output, killed>>

peer_stream == peer.sender.stream

\* The peer's user reads at once.
PeerReceives ==
    LET c == segment_received(peer, Head(to_peer))
    IN  /\ to_peer # <<>>
        /\ to_peer' = Tail(to_peer)
        /\ peer_becomes([c EXCEPT !.receiver.reassembler.output =
                            Stream!pop_output(@, Stream!buffer_size(@))])
        /\ UNCHANGED was_reset

\* The peer's user may write and end its stream.
peer_may_write ==
    /\ peer.actived
    /\ sender_summary(peer.sender) \notin {"CLOSED", "SYN_SENT"}
    /\ ~peer_stream.end_input

PeerWrites ==
    /\ peer_may_write
    /\ peer_stream.bytes_written < owner.use.peer
    /\ Stream!remaining_capacity(peer_stream) > 0
    /\ peer_becomes(write(peer, <<peer_stream.bytes_written>>))
    /\ UNCHANGED <<to_peer, was_reset>>

PeerEnds ==
    /\ peer_may_write
    /\ peer_becomes(end_input_stream(peer))
    /\ UNCHANGED <<to_peer, was_reset>>

\* The peer gives up: it was destroyed, or has retransmitted too often.
PeerResets ==
    /\ quiet
    /\ peer.actived
    /\ peer_becomes(unclean_shutdown(peer))
    /\ was_reset' = TRUE
    /\ UNCHANGED to_peer

PeerTicks ==
    /\ quiet
    /\ peer.actived
    /\ tick(peer, TickTime) # peer
    /\ peer_becomes(tick(peer, TickTime))
    /\ UNCHANGED <<to_peer, was_reset>>

\* What arrives for a thread that has ended is lost.
Unheard ==
    /\ thread.pc = "done" /\ to_us # <<>>
    /\ to_us' = <<>>
    /\ UNCHANGED <<thread, owner, pair, input, output, peer, to_peer, killed, was_reset>>

ThreadNext == ThreadRound \/ ThreadStep \/ ThreadTick
OwnerNext == OwnerRound \/ OwnerStep \/ OwnerDestroys \/ OwnerJoins
PeerNext ==
    PeerReceives \/ PeerWrites \/ PeerEnds \/ PeerResets \/ PeerTicks \/ Unheard

\* The owner has its thread back, or the process is dead.
Finished == owner.pc = "closed" \/ killed # "no"

\* Rounds of the loops that find nothing to do are left out: they change nothing.
\* What the peer does after the end is not followed.
Next ==
    \/ ~Finished /\ (ThreadNext \/ OwnerNext \/ PeerNext)
    \/ Finished /\ UNCHANGED vars

Spec == Init /\ [][Next]_vars

\* Until then some step is always possible (a deadlock would be an error), and
\* somebody takes one: both threads are scheduled again and again, the network
\* delivers, and the users end their streams.
Fairness == []<>Finished \/ []<><<TRUE>>_vars

FairSpec == Spec /\ Fairness

------------------------------------------------------------------------------

\* Unless the peer resets the connection, no callback of either loop throws or
\* writes to a pipe that is shut down, however stale the poll that called it: not
\* "busy wait detected" (eventloop.cc:136), not "accepted less than advertised
\* length" (tcp_sponge_socket.cc:103), no failing read or write.  After a reset
\* the one thing that can happen is a broken pipe.
KeepsRunning == killed # "no" => was_reset /\ killed \in {"owner pipe", "thread pipe"}

\* tcp_sponge_socket.cc:107 and :118: the end of the outbound stream is announced
\* by the callback of rule 2 and again when the rule is cancelled.  The connection
\* still sends one FIN, one sequence number past the last byte.
FinOnce == thread.conn.sender.next_seqno <= thread.conn.sender.stream.bytes_written + 2

\* Through two event loops, four buffers and partial writes the bytes keep their
\* order and none is lost: when standard output is closed it has all that the peer
\* wrote, and when the peer sees the end of its stream it has all of standard
\* input.
EndIsAll ==
    /\ output = Buf!Bytes(0, Len(output))
    /\ owner.copy.output_closed /\ ~was_reset /\ ~owner.abort =>
           peer_stream.end_input /\ Len(output) = peer_stream.bytes_written
    /\ inbound_stream(peer).end_input => inbound_stream(peer).bytes_written = owner.use.input

\* bidirectional_stream_copy returns and wait_until_closed, or the destructor, gets
\* its thread back: the two loops never wait for each other for ever.
Finishes == <>Finished

\* tcp_sponge_socket.hh:75: "When a connected socket is destructed, it will send a
\* RST".
ResetOnDestruct ==
    owner.pc = "closed" /\ owner.abort /\ ~was_reset /\ inbound_stream(thread.conn).error =>
        inbound_stream(peer).error \/ \E i \in DOMAIN to_peer : to_peer[i].rst
=============================================================================
