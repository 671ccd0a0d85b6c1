------------------------------ MODULE TCPState ------------------------------
(***************************************************************************)
(* The summaries of class TCPState (tcp_state.hh, tcp_state.cc): what the  *)
(* state of a sender, a receiver and a connection is called.  The strings  *)
(* of the code are replaced by the names of its constants.                 *)
(***************************************************************************)
EXTENDS Integers, Sequences

\* TCPState::state_summary(const TCPSender &)
sender_summary(s) ==
    IF s.stream.error THEN "ERROR"
    ELSE IF s.next_seqno = 0 THEN "CLOSED"
    ELSE IF s.next_seqno = s.bytes_in_flight THEN "SYN_SENT"
    ELSE IF ~(s.stream.end_input /\ s.stream.buffer = <<>>) THEN "SYN_ACKED"
    ELSE IF s.next_seqno < s.stream.bytes_written + 2 THEN "SYN_ACKED"
    ELSE IF s.bytes_in_flight > 0 THEN "FIN_SENT"
    ELSE "FIN_ACKED"

\* TCPState::state_summary(const TCPReceiver &)
receiver_summary(r) ==
    IF r.reassembler.output.error THEN "ERROR"
    ELSE IF r.in_listen THEN "LISTEN"
    ELSE IF r.reassembler.output.end_input THEN "FIN_RECV"
    ELSE "SYN_RECV"

summary(receiver, sender, linger, active) ==
    [receiver |-> receiver, sender |-> sender, linger |-> linger, active |-> active]

\* TCPState::TCPState(State): the official states.
State ==
    [LISTEN      |-> summary("LISTEN",   "CLOSED",    TRUE,  TRUE),
     SYN_RCVD    |-> summary("SYN_RECV", "SYN_SENT",  TRUE,  TRUE),
     SYN_SENT    |-> summary("LISTEN",   "SYN_SENT",  TRUE,  TRUE),
     ESTABLISHED |-> summary("SYN_RECV", "SYN_ACKED", TRUE,  TRUE),
     CLOSE_WAIT  |-> summary("FIN_RECV", "SYN_ACKED", FALSE, TRUE),
     LAST_ACK    |-> summary("FIN_RECV", "FIN_SENT",  FALSE, TRUE),
     CLOSING     |-> summary("FIN_RECV", "FIN_SENT",  TRUE,  TRUE),
     FIN_WAIT_1  |-> summary("SYN_RECV", "FIN_SENT",  TRUE,  TRUE),
     FIN_WAIT_2  |-> summary("SYN_RECV", "FIN_ACKED", TRUE,  TRUE),
     TIME_WAIT   |-> summary("FIN_RECV", "FIN_ACKED", TRUE,  TRUE),
     RESET       |-> summary("ERROR",    "ERROR",     FALSE, FALSE),
     CLOSED      |-> summary("FIN_RECV", "FIN_ACKED", FALSE, FALSE)]
=============================================================================
