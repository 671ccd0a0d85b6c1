-------------------------------- MODULE Lab7 --------------------------------
(***************************************************************************)
(* apps/lab7.cc and apps/bouncer.cc: two programs, each a TCP host behind  *)
(* a router of its own, whose routers meet on an Internet that is one UDP  *)
(* datagram per frame through the bouncer.  In each program the socket's   *)
(* thread and the network thread share a pair of datagram sockets.  The    *)
(* TCP connection is external: it sends a segment again until the other    *)
(* host has it, and is closed when each has all of the other's.            *)
(***************************************************************************)
EXTENDS Router

CONSTANTS
    Retransmit,       \* ticks after which a host sends a segment again
    MaxLosses,        \* bound on the UDP datagrams lost
    Goal              \* segments each host has to get across

Sites == {"client", "server"}
other(s) == CHOOSE t \in Sites : t # s

\* Addresses of 6 bits: the network, and the host in it.
ip(net, x) == 8 * net + x
N10 == 1
N172 == 2
N192 == 3

host_side == 1
internet_side == 2

network(s) == IF s = "client" THEN N192 ELSE N172
internet_ip(s) == ip(N10, IF s = "client" THEN 5 ELSE 6)
host_ip(s) == ip(network(s), 2)
gateway(s) == ip(network(s), 1)

\* The time of one tick: 50 ms.
Tick == 1

TTL == 4

VARIABLES
    state,        \* of each program: "new", "running", "exiting", "ended" or "failed"
    router,       \* Router of each program
    interface,    \* NetworkInterfaceAdapter::_interface of each program
    to_router,    \* frames in the socket pair, towards the router
    to_host,      \* and towards the host
    to_bouncer,   \* UDP datagrams on their way to the bouncer, by sender
    to_site,      \* and from it
    peers,        \* the programs whose address the bouncer has learned
    heard,        \* the datagrams each host has received
    timer,        \* ticks since each host last sent
    losses

vars == <<state, router, interface, to_router, to_host, to_bouncer, to_site, peers, heard, timer, losses>>

\* The routers that the three add_route calls can leave.
set_up_router(s) ==
    LET cabled == add_interface(add_interface(new_router,
                                              new_async(<<s, "router", "host side">>, gateway(s))),
                                new_async(<<s, "router", "internet side">>, internet_ip(s)))
        routes == <<<<ip(network(s), 0), NoHop, host_side>>,
                    <<ip(N10, 0), NoHop, internet_side>>,
                    <<ip(network(other(s)), 0), internet_ip(other(s)), internet_side>>>>
        add(rs, e) == UNION {add_route(r, e[1], 3, e[2], e[3] - 1) : r \in rs}
    IN  FoldLeft(add, {cabled}, routes)

Init ==
    /\ state = [s \in Sites |-> "new"]
    /\ router \in {[s \in Sites |-> IF s = "client" THEN c ELSE v] :
                      c \in set_up_router("client"), v \in set_up_router("server")}
    /\ interface = [s \in Sites |-> new_interface(<<s, "host">>, host_ip(s))]
    /\ to_router = [s \in Sites |-> <<>>]
    /\ to_host = [s \in Sites |-> <<>>]
    /\ to_bouncer = [s \in Sites |-> <<>>]
    /\ to_site = [s \in Sites |-> <<>>]
    /\ peers = {}
    /\ heard = [s \in Sites |-> {}]
    /\ timer = [s \in Sites |-> Retransmit]
    /\ losses = 0

------------------------------------------------------------------------------

\* A UDP datagram without a payload.
Hello == [type |-> "empty"]

\* The program starts: three empty datagrams tell the bouncer where it is.
Start(s) ==
    /\ state[s] = "new"
    /\ state' = [state EXCEPT ![s] = "running"]
    /\ to_bouncer' = [to_bouncer EXCEPT ![s] = <<Hello, Hello, Hello>>]
    /\ UNCHANGED <<router, interface, to_router, to_host, to_site, peers, heard, timer, losses>>

\* NetworkInterfaceAdapter::send_pending, after a call that left the interface i.
send_pending(s, i) ==
    /\ interface' = [interface EXCEPT ![s] = [i EXCEPT !.frames_out = <<>>]]
    /\ to_router' = [to_router EXCEPT ![s] = @ \o i.frames_out]

\* Nothing is under way to or in s's program, or anywhere.
idle(s) ==
    \/ state[s] \notin {"running", "exiting"}
    \/ /\ to_router[s] = <<>>
       /\ to_host[s] = <<>>
       /\ to_site[s] = <<>>
       /\ \A k \in {host_side, internet_side} : router[s].interfaces[k].frames_out = <<>>
Quiet == \A s \in Sites : idle(s) /\ to_bouncer[s] = <<>>

\* The server says nothing before it has heard from the client.
HasMore(s) == Cardinality(heard[other(s)]) < Goal /\ (s = "server" => heard[s] # {})

\* The segment of s that the other host does not have yet, wrapped in IP.
segment(s) ==
    [src |-> host_ip(s), dst |-> host_ip(other(s)), ttl |-> TTL, id |-> Cardinality(heard[other(s)])]

\* NetworkInterfaceAdapter::write.
HostWrite(s) ==
    /\ state[s] = "running"
    /\ Quiet
    /\ HasMore(s)
    /\ timer[s] = Retransmit
    /\ send_pending(s, send_datagram(interface[s], segment(s), gateway(s)))
    /\ timer' = [timer EXCEPT ![s] = 0]
    /\ UNCHANGED <<state, router, to_host, to_bouncer, to_site, peers, heard, losses>>

\* NetworkInterfaceAdapter::read.
HostRead(s) ==
    /\ to_host[s] # <<>>
    /\ state[s] \in {"running", "exiting"}
    /\ LET f == Head(to_host[s])
       IN  /\ send_pending(s, recv_frame(interface[s], f))
           /\ state' = [state EXCEPT ![s] = IF recv_frame(interface[s], f).threw THEN "failed" ELSE @]
           /\ heard' = [heard EXCEPT ![s] = @ \union received(interface[s], f)]
    /\ to_host' = [to_host EXCEPT ![s] = Tail(@)]
    /\ UNCHANGED <<router, to_bouncer, to_site, peers, timer, losses>>

------------------------------------------------------------------------------
\* The network thread.

from_to(r, k, f) == route([r EXCEPT !.interfaces[k] = async_recv_frame(@, f)])
pop(r, k) == [r EXCEPT !.interfaces[k].frames_out = Tail(@)]
failed(r) == \E i \in Range(r.interfaces) : i.threw


tick_router(r) == [r EXCEPT !.interfaces = [k \in DOMAIN @ |-> tick(@[k], Tick)]]

\* One wait_next_event and the ticks after it, from the router r: the rules whose
\* descriptor was ready when it was polled, in their order, one frame each.
network_thread(s, r, host_ready, internet_ready) ==
    LET out_host == r.interfaces[host_side].frames_out # <<>>
        out_internet == r.interfaces[internet_side].frames_out # <<>>
        r1 == IF host_ready THEN from_to(r, host_side, Head(to_router[s])) ELSE r
        r2 == IF out_host THEN pop(r1, host_side) ELSE r1
        r3 == IF out_internet THEN pop(r2, internet_side) ELSE r2
        r4 == IF internet_ready THEN from_to(r3, internet_side, Head(to_site[s])) ELSE r3
    IN  IF failed(r1) THEN r1 ELSE IF failed(r4) THEN r4 ELSE tick_router(r4)

NetworkEvent(s) ==
    LET r == router[s]
        host_ready == to_router[s] # <<>>
        internet_ready == to_site[s] # <<>>
        taken(k) == IF r.interfaces[k].frames_out = <<>> THEN <<>> ELSE <<Head(r.interfaces[k].frames_out)>>
        after == network_thread(s, r, host_ready, internet_ready)
    IN  /\ state[s] \in {"running", "exiting"}
        /\ \/ host_ready \/ internet_ready
           \/ \E i \in Range(r.interfaces) : i.frames_out # <<>>
        /\ router' = [router EXCEPT ![s] = after]
        /\ state' = [state EXCEPT ![s] = IF failed(after) THEN "failed"
                                         ELSE IF @ = "exiting" THEN "ended" ELSE @]
        /\ to_router' = [to_router EXCEPT ![s] = IF host_ready THEN Tail(@) ELSE @]
        /\ to_host' = [to_host EXCEPT ![s] = @ \o taken(host_side)]
        /\ to_bouncer' = [to_bouncer EXCEPT ![s] = @ \o taken(internet_side)]
        /\ to_site' = [to_site EXCEPT ![s] = IF internet_ready THEN Tail(@) ELSE @]
        /\ UNCHANGED <<interface, peers, heard, timer, losses>>

\* Nothing happens for the time of a tick, anywhere: the routers' poll times out,
\* and the sockets' threads tick.
Elapse ==
    LET live(s) == state[s] \in {"running", "exiting"}
        host(s) == tick(interface[s], Tick)
    IN  /\ Quiet
        /\ \E s \in Sites : live(s)
        /\ \A s \in Sites : state[s] = "running" /\ HasMore(s) => timer[s] < Retransmit
        /\ router' = [s \in Sites |-> IF live(s) THEN tick_router(router[s]) ELSE router[s]]
        /\ state' = [s \in Sites |-> IF state[s] = "exiting" THEN "ended" ELSE state[s]]
        /\ interface' = [s \in Sites |->
              IF live(s) THEN [host(s) EXCEPT !.frames_out = <<>>] ELSE interface[s]]
        /\ to_router' = [s \in Sites |-> IF live(s) THEN host(s).frames_out ELSE <<>>]
        /\ timer' = [s \in Sites |-> Min({Retransmit, timer[s] + 1})]
        /\ UNCHANGED <<to_host, to_bouncer, to_site, peers, heard, losses>>

\* The connection is closed: program_body sets exit_flag, which the network
\* thread looks at after its next event.
Close(s) ==
    /\ state[s] = "running"
    /\ \A t \in Sites : Cardinality(heard[t]) = Goal
    /\ state' = [state EXCEPT ![s] = "exiting"]
    /\ UNCHANGED <<router, interface, to_router, to_host, to_bouncer, to_site, peers, heard, timer, losses>>

------------------------------------------------------------------------------
\* The Internet.

\* Mutant: nothing is learned from an empty datagram.
learn_from_frames(s, payload) == IF payload = Hello THEN peers ELSE peers \union {s}

\* The addresses that the bouncer knows once it has received a datagram from s, and
\* whether it passes it on.
learn(s, payload) == peers \union {s}
passes_on(s, payload) == payload # Hello /\ other(s) \in peers

\* The bouncer's rule for s's port.
Bounce(s) ==
    /\ to_bouncer[s] # <<>>
    /\ peers' = learn(s, Head(to_bouncer[s]))
    /\ to_bouncer' = [to_bouncer EXCEPT ![s] = Tail(@)]
    /\ to_site' = IF passes_on(s, Head(to_bouncer[s])) /\ state[other(s)] \in {"running", "exiting"}
                  THEN [to_site EXCEPT ![other(s)] = Append(@, Head(to_bouncer[s]))]
                  ELSE to_site
    /\ UNCHANGED <<state, router, interface, to_router, to_host, heard, timer, losses>>

\* UDP loses datagrams.
Lose(s) ==
    /\ losses < MaxLosses
    /\ losses' = losses + 1
    /\ to_bouncer[s] # <<>>
    /\ to_bouncer' = [to_bouncer EXCEPT ![s] = Tail(@)]
    /\ UNCHANGED <<state, router, interface, to_router, to_host, to_site, peers, heard, timer>>

Finished == \A s \in Sites : state[s] = "ended"

Next ==
    \/ Elapse
    \/ \E s \in Sites :
          Start(s) \/ HostWrite(s) \/ HostRead(s) \/ NetworkEvent(s) \/ Close(s) \/ Bounce(s) \/ Lose(s)
    \/ Finished /\ UNCHANGED vars

Spec == Init /\ [][Next]_vars

\* Both programs are started, and as long as they have not ended something
\* happens: a thread runs, a datagram arrives, or time passes.
Fairness ==
    /\ \A s \in Sites : []<>(state[s] # "new")
    /\ \A s \in Sites : []<>(state[s] # "running" \/ ~ \A t \in Sites : Cardinality(heard[t]) = Goal)
    /\ []<>Finished \/ []<><<TRUE>>_vars

FairSpec == Spec /\ Fairness

------------------------------------------------------------------------------


\* A host hears the other host's segments and nothing else, each after two hops,
\* whichever caches they have waited in: no frame is routed back to its own
\* network, and none that the bouncer repeats is taken by the wrong interface.
HeardIntact ==
    \A s \in Sites : \A d \in heard[s] :
        d.src = host_ip(other(s)) /\ d.dst = host_ip(s) /\ d.ttl = TTL - 2

\* Both programs come to their end: the segments get across although the bouncer
\* drops what comes before it knows the other program, although UDP datagrams are
\* lost, and although three addresses in a row have to be asked for while each
\* interface holds one datagram and drops the others.
ProgramsEnd == <>Finished
=============================================================================
