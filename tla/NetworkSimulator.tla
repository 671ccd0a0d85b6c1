-------------------------- MODULE NetworkSimulator --------------------------
(***************************************************************************)
(* apps/network_simulator.cc: a router with seven interfaces, six hosts on *)
(* five of its networks, and the script's step "send, expect, simulate,    *)
(* check", here for any sender, destination and hop count and in any       *)
(* order.  A 32-bit address is abstracted to 6 bits: ip(net, x) keeps      *)
(* which network it is in and the bits that the routes tell apart.         *)
(***************************************************************************)
EXTENDS Router

CONSTANTS
    Senders,          \* the hosts that send
    Destinations,     \* addresses the hosts send to
    TTLs,             \* hop counts they send with
    MaxSends,         \* bound on the datagrams sent before one simulate()
    Rounds            \* 256: the rounds of simulate()

ip(net, x) == 8 * net + x

\* The networks, by the first bytes of their addresses: 0 stands for the rest
\* of the Internet.
N10 == 1
N172 == 2
N192 == 3
N198 == 4
N143 == 5
N128 == 6
N171 == 7

\* The interfaces by identifier, from default_id to mit5_id.
interface_ips ==
    <<ip(N171, 6), ip(N10, 1), ip(N172, 1), ip(N192, 1), ip(N198, 1), ip(N143, 2), ip(N128, 7)>>

Hosts == {"applesauce", "default_router", "cherrypie", "hs_router", "dm42", "dm43"}

Host(name) ==
    CASE name = "applesauce" -> [ip |-> ip(N10, 2), next_hop |-> ip(N10, 1)]
      [] name = "default_router" -> [ip |-> ip(N171, 1), next_hop |-> 0]
      [] name = "cherrypie" -> [ip |-> ip(N192, 2), next_hop |-> ip(N192, 1)]
      [] name = "hs_router" -> [ip |-> ip(N143, 1), next_hop |-> 0]
      [] name = "dm42" -> [ip |-> ip(N198, 2), next_hop |-> ip(N198, 1)]
      [] name = "dm43" -> [ip |-> ip(N198, 3), next_hop |-> ip(N198, 1)]

Route(prefix, len, hop, num) == [prefix |-> prefix, len |-> len, hop |-> hop, num |-> num]

Routes ==
    <<Route(0, 0, Host("default_router").ip, 0),
      Route(ip(N10, 0), 3, NoHop, 1),
      Route(ip(N172, 0), 3, NoHop, 2),
      Route(ip(N192, 0), 3, NoHop, 3),
      Route(ip(N198, 0), 3, NoHop, 4),
      Route(ip(N143, 0), 4, Host("hs_router").ip, 5),
      Route(ip(N143, 4), 5, Host("hs_router").ip, 5),
      Route(ip(N143, 6), 6, Host("hs_router").ip, 5),
      Route(ip(N128, 7), 3, ip(N128, 1), 6)>>

VARIABLES
    router,
    hosts,        \* by name: [interface, expecting_to_receive]
    round,        \* rounds of this simulate() so far
    threw,        \* whether a check has thrown
    sends         \* datagrams sent since the last check

vars == <<router, hosts, round, threw, sends>>

\* The routers that the constructor can leave.
Network ==
    LET cabled == FoldLeft(LAMBDA r, k : add_interface(r, new_async(<<"router", k>>, interface_ips[k])),
                           new_router, [k \in DOMAIN interface_ips |-> k])
        add(rs, e) == UNION {add_route(r, e.prefix, e.len, e.hop, e.num) : r \in rs}
    IN  FoldLeft(add, {cabled}, Routes)

Init ==
    /\ router \in Network
    /\ hosts = [h \in Hosts |-> [interface |-> new_async(<<"host", h>>, Host(h).ip),
                                 expecting_to_receive |-> <<>>]]
    /\ round = 0
    /\ threw = FALSE
    /\ sends = {}

------------------------------------------------------------------------------
\* Reference: what a reader of the routes expects, bit by bit.

Bit(n, b) == (n \div 2^b) % 2

Applies(e, dst) == \A b \in Width - e.len .. Width - 1 : Bit(e.prefix, b) = Bit(dst, b)

BestRoute(dst) ==
    CHOOSE e \in Range(Routes) :
        /\ Applies(e, dst)
        /\ \A other \in Range(Routes) : Applies(other, dst) => other.len <= e.len

\* The hosts on the wire of each interface.  eth1 and mit5 have none.
wire ==
    <<<<"default_router">>, <<"applesauce">>, <<>>, <<"cherrypie">>,
      <<"dm42", "dm43">>, <<"hs_router">>, <<>>>>

\* The hosts that a datagram to dst should reach, with its hop count one less.
Recipients(dst) ==
    LET e == BestRoute(dst)
    IN  {h \in Range(wire[e.num + 1]) : Host(h).ip = (IF e.hop = NoHop THEN dst ELSE e.hop)}

------------------------------------------------------------------------------

\* Host::send_to, and Host::expect at the recipient, as each block of the script
\* has it.
SendTo(name, dst, ttl) ==
    LET dgram == [src |-> Host(name).ip, dst |-> dst, ttl |-> ttl, id |-> Cardinality(sends)]
        on_arrival == [dgram EXCEPT !.ttl = @ - 1]
        expecting(h) == h \in Recipients(dst) /\ ttl >= 2
    IN  /\ round = 0
        /\ ~threw
        /\ Cardinality(sends) < MaxSends
        /\ hosts' = [h \in Hosts |->
              [interface |-> IF h = name
                             THEN send_datagram(hosts[h].interface, dgram, Host(h).next_hop)
                             ELSE hosts[h].interface,
               expecting_to_receive |-> IF expecting(h)
                                        THEN Append(hosts[h].expecting_to_receive, on_arrival)
                                        ELSE hosts[h].expecting_to_receive]]
        /\ sends' = sends \union {dgram}
        /\ UNCHANGED <<router, round, threw>>

\* Mutant: each frame goes to the first of the other stations only.
exchange_frames_unicast(x) ==
    [k \in DOMAIN x |->
        LET from == IF k = 1 THEN Tail(x) ELSE IF k = 2 THEN <<x[1]>> ELSE <<>>
            after == FoldLeft(async_recv_frame, x[k],
                              FlattenSeq([j \in DOMAIN from |-> from[j].frames_out]))
        IN  [after EXCEPT !.frames_out = SubSeq(@, Len(x[k].frames_out) + 1, Len(@))]]

\* The frames that wait when the exchange starts go to every other interface on
\* the wire; those that they cause wait for the next round.
exchange_frames(x) ==
    [k \in DOMAIN x |->
        LET arriving == FlattenSeq([j \in DOMAIN x |-> IF j = k THEN <<>> ELSE x[j].frames_out])
            after == FoldLeft(async_recv_frame, x[k], arriving)
        IN  [after EXCEPT !.frames_out = SubSeq(@, Len(x[k].frames_out) + 1, Len(@))]]

\* Network::simulate_physical_connections, from the router r and the interfaces hs
\* of the hosts: each wire is exchanged on its own.
simulate_physical_connections(r, hs) ==
    LET ends(k) == <<r.interfaces[k]>> \o [j \in DOMAIN wire[k] |-> hs[wire[k][j]]]
        after == [k \in DOMAIN wire |->
                    IF wire[k] = <<>> THEN ends(k) ELSE exchange_frames(ends(k))]
        place(h) == CHOOSE p \in UNION {{k} \X DOMAIN wire[k] : k \in DOMAIN wire} :
                       wire[p[1]][p[2]] = h
    IN  [router |-> [r EXCEPT !.interfaces = [k \in DOMAIN wire |-> after[k][1]]],
         interface |-> [h \in Hosts |-> after[place(h)[1]][place(h)[2] + 1]]]

\* One round of Network::simulate.  The first is taken when the script calls it.
Round ==
    LET after == simulate_physical_connections(route(router), [h \in Hosts |-> hosts[h].interface])
    IN  /\ round < Rounds
        /\ sends # {}
        /\ round' = round + 1
        /\ router' = after.router
        /\ hosts' = [h \in Hosts |-> [hosts[h] EXCEPT !.interface = after.interface[h]]]
        /\ UNCHANGED <<sends, threw>>

\* Host::check, by the datagrams left over: one received and not expected, or
\* expected and not received.
Unexpected(h) ==
    LET got == hosts[h].interface.datagrams_out
        due == hosts[h].expecting_to_receive
        times(s, d) == Cardinality({k \in DOMAIN s : s[k] = d})
    IN  \E d \in Range(got) : times(got, d) > times(due, d)
Missing(h) == \E d \in Range(hosts[h].expecting_to_receive) :
                 d \notin Range(hosts[h].interface.datagrams_out)

Check ==
    /\ round = Rounds
    /\ threw' = \E h \in Hosts : Unexpected(h) \/ Missing(h)
    /\ round' = 0
    /\ hosts' = [h \in Hosts |-> [hosts[h] EXCEPT !.interface.datagrams_out = <<>>,
                                                  !.expecting_to_receive = <<>>]]
    /\ sends' = {}
    /\ UNCHANGED router

Next ==
    \/ \E h \in Senders, dst \in Destinations, ttl \in TTLs : SendTo(h, dst, ttl)
    \/ Round
    \/ Check

Spec == Init /\ [][Next]_vars

------------------------------------------------------------------------------

Interfaces == Range(router.interfaces) \union {hosts[h].interface : h \in Hosts}

\* Whatever was sent before, and whichever addresses are already known, a
\* datagram never reaches a host it is not for, never twice, never with a wrong
\* hop count and never when its hop count was used up (Host::check).
NothingUnexpected == round = Rounds => \A h \in Hosts : ~Unexpected(h)

\* A datagram sent alone is delivered to its recipient within one simulate(),
\* over two hops whose Ethernet addresses may both have to be asked for first.
\* Two at a time may not be: only one waits for an address.
AloneArrives ==
    round = Rounds /\ Cardinality(sends) = 1 => \A h \in Hosts : ~Missing(h)

\* When simulate() ends nothing moves any more on the wires, so that a datagram of
\* one block is never taken for one of the next, and no call has thrown.
QuietAtCheck ==
    round = Rounds =>
        /\ \A k \in DOMAIN wire : wire[k] # <<>> => router.interfaces[k].frames_out = <<>>
        /\ \A k \in DOMAIN wire : router.interfaces[k].datagrams_out = <<>>
        /\ \A h \in Hosts : hosts[h].interface.frames_out = <<>>
        /\ \A i \in Interfaces : ~i.threw
=============================================================================
