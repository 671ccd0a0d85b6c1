----------------------------- MODULE StreamCopy ------------------------------
(***************************************************************************)
(* The rules of bidirectional_stream_copy, as operators on a record with   *)
(* its two ByteStreams, its flags and what its file descriptors remember:  *)
(* 1 standard input, 2 to the socket, 3 from the socket, 4 standard output.*)
(***************************************************************************)
EXTENDS EventLoop

Buf == INSTANCE ByteStream

new_copy(buffer_size) ==
    [outbound |-> Buf!new_stream(buffer_size), inbound |-> Buf!new_stream(buffer_size),
     outbound_shutdown |-> FALSE, inbound_shutdown |-> FALSE,
     input_eof |-> FALSE, socket_eof |-> FALSE, output_closed |-> FALSE,
     rules |-> 1 .. 4]

copy_direction(r) == IF r \in {1, 3} THEN "In" ELSE "Out"

copy_interest(o, r) ==
    CASE r = 1 -> ~o.outbound.error /\ Buf!remaining_capacity(o.outbound) > 0 /\ ~o.inbound.error
      [] r = 2 -> o.outbound.buffer # <<>> \/ (Buf!eof(o.outbound) /\ ~o.outbound_shutdown)
      [] r = 3 -> ~o.inbound.error /\ Buf!remaining_capacity(o.inbound) > 0 /\ ~o.outbound.error
      [] r = 4 -> o.inbound.buffer # <<>> \/ (Buf!eof(o.inbound) /\ ~o.inbound_shutdown)

\* The rules that the next call of wait_next_event cancels before it polls.
copy_defunct(o) ==
    {r \in o.rules : defunct(copy_direction(r),
                             IF r = 1 THEN o.input_eof ELSE IF r = 4 THEN o.output_closed
                             ELSE o.socket_eof,
                             r = 4 /\ o.output_closed)}

copy_cancel(o, cancelled) ==
    [o EXCEPT !.outbound = IF cancelled \cap {1, 2} # {} THEN Buf!end_input(@) ELSE @,
              !.inbound = IF cancelled \cap {3, 4} # {} THEN Buf!end_input(@) ELSE @,
              !.rules = @ \ cancelled]

\* Rule 1, with the bytes that were read: none at the end.
copy_input(o, data) ==
    [o EXCEPT !.outbound = IF data = <<>> THEN Buf!end_input(@) ELSE Buf!write(@, data),
              !.input_eof = (data = <<>>)]

\* Rule 2, when the socket has taken n bytes.  At the end it is shut down.
copy_to_socket(o, n) ==
    LET left == Buf!pop_output(o.outbound, n)
    IN  [o EXCEPT !.outbound = left, !.outbound_shutdown = @ \/ Buf!eof(left)]

\* Rule 3, likewise.
copy_from_socket(o, data) ==
    [o EXCEPT !.inbound = IF data = <<>> THEN Buf!end_input(@) ELSE Buf!write(@, data),
              !.socket_eof = (data = <<>>)]

\* Rule 4, when standard output has taken n bytes.  At the end it is closed.
copy_output(o, n) ==
    LET left == Buf!pop_output(o.inbound, n)
    IN  [o EXCEPT !.inbound = left, !.inbound_shutdown = @ \/ Buf!eof(left),
                  !.output_closed = @ \/ Buf!eof(left)]
=============================================================================
