-------------------------- MODULE ReliableStreams ---------------------------
(***************************************************************************)
(* What a TCP connection promises its two users: each direction is a byte  *)
(* stream that arrives in order, without gap or repetition, and ends only  *)
(* after all of it has arrived; an endpoint finishes cleanly only when both*)
(* streams have arrived in full.  At any time an endpoint may be reset     *)
(* instead, and then its users know that they may have missed something.   *)
(* Modelled on the interface comments of tcp_connection.hh.                *)
(***************************************************************************)
EXTENDS Integers

CONSTANTS Endpoints, Peer(_)

VARIABLES
    written,      \* bytes each endpoint's user has written
    ended,        \* whether that user has ended its stream
    arrived,      \* bytes that have arrived at each endpoint
    finished,     \* whether the end of the stream has arrived there
    status        \* "open", "clean" or "reset"

vars == <<written, ended, arrived, finished, status>>

Init ==
    /\ written = [e \in Endpoints |-> 0]
    /\ ended = [e \in Endpoints |-> FALSE]
    /\ arrived = [e \in Endpoints |-> 0]
    /\ finished = [e \in Endpoints |-> FALSE]
    /\ status = [e \in Endpoints |-> "open"]

Write(e) ==
    /\ status[e] = "open" /\ ~ended[e]
    /\ \/ /\ written'[e] > written[e]
          /\ written' = [written EXCEPT ![e] = written'[e]]
          /\ UNCHANGED ended
       \/ ended' = [ended EXCEPT ![e] = TRUE] /\ UNCHANGED written
    /\ UNCHANGED <<arrived, finished, status>>

\* Some more of the peer's stream arrives, perhaps its end with it.
Arrive(e) ==
    /\ status[e] = "open" /\ ~finished[e]
    /\ \E n \in arrived[e] .. written[Peer(e)] :
          /\ arrived' = [arrived EXCEPT ![e] = n]
          /\ \/ UNCHANGED finished
             \/ /\ ended[Peer(e)] /\ n = written[Peer(e)]
                /\ finished' = [finished EXCEPT ![e] = TRUE]
    /\ UNCHANGED <<written, ended, status>>

Finish(e) ==
    /\ status[e] = "open"
    /\ finished[e] /\ finished[Peer(e)]
    /\ status' = [status EXCEPT ![e] = "clean"]
    /\ UNCHANGED <<written, ended, arrived, finished>>

Reset(e) ==
    /\ status[e] = "open"
    /\ status' = [status EXCEPT ![e] = "reset"]
    /\ UNCHANGED <<written, ended, arrived, finished>>

Next == \E e \in Endpoints : Write(e) \/ Arrive(e) \/ Finish(e) \/ Reset(e)

Spec == Init /\ [][Next]_vars
=============================================================================
