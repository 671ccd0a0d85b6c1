---------------------------- MODULE TCPPairLive -----------------------------
(***************************************************************************)
(* The pair of TCPPair on a network that is quick and mostly reliable:     *)
(* every segment is delivered before the next tick, except that up to      *)
(* MaxLosses segments are lost, at any moments; the clocks of the two      *)
(* endpoints advance together.  On such a network a connection must        *)
(* complete.                                                               *)
(***************************************************************************)
EXTENDS TCPPair

CONSTANT MaxLosses

VARIABLE losses

live_vars == <<conn, listening, net, losses>>

LiveInit == Init /\ losses = 0

DeliverOnce(e) ==
    /\ \E m \in net : SegmentReceived(e, m, net \ {m})
    /\ UNCHANGED losses

UserStep(A) == A /\ UNCHANGED losses

\* A segment for an endpoint that has finished is dropped and does not count.
DropLate ==
    /\ \E m \in net : ~conn[m.to].actived /\ net' = net \ {m}
    /\ UNCHANGED <<conn, listening, losses>>

LoseOne ==
    /\ losses < MaxLosses
    /\ losses' = losses + 1
    /\ Lose \/ \E e \in Endpoints : DropRead(e)

\* Both clocks advance, when the network has delivered everything.
TickBoth ==
    /\ net = {}
    /\ \E ms \in Ticks :
          LET c == [e \in Endpoints |-> tick(conn[e], ms)]
          IN  /\ conn' = [e \in Endpoints |-> [c[e] EXCEPT !.segments_out = <<>>]]
              /\ net' = UNION {{[to |-> Peer(e), segment |-> seg] :
                                   seg \in Range(c[e].segments_out)} : e \in Endpoints}
    /\ UNCHANGED <<listening, losses>>

LiveNext ==
    \/ UserStep(User)
    \/ \E e \in Endpoints : DeliverOnce(e)
    \/ LoseOne \/ DropLate \/ TickBoth

\* When the steps of the network, the clocks and the users can be taken.
CanConnect == state(conn["client"]).sender = "CLOSED"
CanDeliver(e) ==
    \E m \in net : m.to = e /\ conn[e].actived /\ adapter_passes(e, m.segment)
CanDrop == \E m \in net : ~conn[m.to].actived
CanTick == net = {} /\ \E e \in Endpoints, ms \in Ticks : tick(conn[e], ms) # conn[e]
CanWrite(e) == MayWrite(e) /\ conn[e].sender.stream.bytes_written < Length(e)
CanRead(e) == Stream!buffer_size(inbound_stream(conn[e])) > 0

\* Weak fairness of each step.  WF_v(A) is written out as
\* []<>~ENABLED <<A>>_v \/ []<><<A>>_v with the conditions above for the ENABLED
\* part, which TLC is very slow to evaluate for these actions.  The network, the
\* event loops and the users keep going: every socket's thread polls all its
\* rules in turn and ticks after each, and each user connects, writes, ends its
\* stream and reads in the end.
Fairness ==
    /\ []<>~CanConnect \/ []<><<UserStep(Connect)>>_live_vars
    /\ []<>~CanTick \/ []<><<TickBoth>>_live_vars
    /\ []<>~CanDrop \/ []<><<DropLate>>_live_vars
    /\ \A e \in Endpoints :
          /\ []<>~CanDeliver(e) \/ []<><<DeliverOnce(e)>>_live_vars
          /\ []<>~CanWrite(e) \/ []<><<UserStep(Write(e))>>_live_vars
          /\ []<>~MayWrite(e) \/ []<><<UserStep(EndInput(e))>>_live_vars
          /\ []<>~CanRead(e) \/ []<><<UserStep(Read(e))>>_live_vars

LiveSpec == LiveInit /\ [][LiveNext]_live_vars /\ Fairness

------------------------------------------------------------------------------

\* Every connection comes to a clean end at both endpoints, with everything
\* delivered and read: no lost segment, zero window, early return or order of
\* closing leaves the two waiting for each other, and none of the lost segments
\* turns into a reset.
EventuallyClean ==
    <>[](\A e \in Endpoints :
            /\ Status(e) = "clean"
            /\ Inbound(e).bytes_read = Outbound(Peer(e)).bytes_written)
=============================================================================
