------------------------------ MODULE EventLoop ------------------------------
(***************************************************************************)
(* EventLoop::wait_next_event (eventloop.cc): what one call makes of its   *)
(* rules.  A rule is given by its direction and what its file descriptor,  *)
(* its interest and poll say; the callbacks are their owner's.             *)
(***************************************************************************)
EXTENDS Naturals, Sequences

\* While the pollfds are set up, a rule at its end is cancelled.
defunct(direction, eof, closed) == (direction = "In" /\ eof) \/ closed

event(direction) == IF direction = "In" THEN "IN" ELSE "OUT"

\* What is done with a rule after poll.  Without interest nothing is asked for.
outcome(direction, interested, revents) ==
    IF ~interested THEN "skip"
    ELSE IF event(direction) \in revents THEN "call"
    ELSE IF "HUP" \in revents THEN "cancel"
    ELSE "skip"

\* A callback that neither used its descriptor nor lost its interest would be
\* called for ever.
busy_wait(served, interested) == ~served /\ interested
=============================================================================
