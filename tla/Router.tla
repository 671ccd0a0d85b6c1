------------------------------- MODULE Router -------------------------------
(***************************************************************************)
(* Router (router.hh, router.cc): longest-prefix-match forwarding between  *)
(* network interfaces.  An address is a number of Width bits.              *)
(***************************************************************************)
EXTENDS NetworkInterface, Integers, FiniteSetsExt, SequencesExt

CONSTANTS
    Width,            \* 32: the bits of an address
    NoHop             \* nullopt: the network is attached directly

ASSUME WidthAssumption == Width \in Nat \ {0}

\* AsyncNetworkInterface: received datagrams wait in a queue for the owner.
new_async(eth, ip) == ("datagrams_out" :> <<>>) @@ new_interface(eth, ip)

async_recv_frame(i, f) ==
    [recv_frame(i, f) EXCEPT !.datagrams_out = @ \o SetToSeq(received(i, f))]

new_router == [interfaces |-> <<>>, forward_table |-> [len \in 0 .. Width |-> <<>>]]

add_interface(r, i) == [r EXCEPT !.interfaces = Append(@, i)]

\* For length 0 the shift is by the width of its operand, which is undefined:
\* the result is 0, or the operand on a machine that takes the count modulo 32.
get_mask(ip, len) == IF len = 0 THEN {0, ip} ELSE {ip \div 2^(Width - len)}

\* The routers that add_route can leave.
add_route(r, route_prefix, prefix_length, next_hop, interface_num) ==
    {[r EXCEPT !.forward_table[prefix_length] =
         put(@, mask, [num |-> interface_num, hop |-> next_hop])] :
        mask \in get_mask(route_prefix, prefix_length)}

\* The lengths at which the table holds the destination's prefix.  The loop
\* shifts the destination by one bit from each length to the next.
matches(r, dst) ==
    {len \in 0 .. Width : dst \div 2^(Width - len) \in DOMAIN r.forward_table[len]}

\* Mutant: the loop finds the shortest prefix.
lookup_shortest(r, dst) ==
    LET len == Min(matches(r, dst)) IN r.forward_table[len][dst \div 2^(Width - len)]

\* The loop starts at the longest prefix and ends at the first that matches.
lookup(r, dst) ==
    LET len == Max(matches(r, dst)) IN r.forward_table[len][dst \div 2^(Width - len)]

\* Mutant: the hop count is checked and not reduced.
route_one_datagram_kept(r, dgram) ==
    IF dgram.ttl < 2 \/ matches(r, dgram.dst) = {} THEN r
    ELSE LET found == lookup(r, dgram.dst)
         IN  [r EXCEPT !.interfaces[found.num + 1] =
                 send_datagram(@, dgram, IF found.hop = NoHop THEN dgram.dst ELSE found.hop)]

route_one_datagram(r, dgram) ==
    IF dgram.ttl < 2 \/ matches(r, dgram.dst) = {} THEN r
    ELSE LET found == lookup(r, dgram.dst)
             next_hop == IF found.hop = NoHop THEN dgram.dst ELSE found.hop
         IN  [r EXCEPT !.interfaces[found.num + 1] =
                 send_datagram(@, [dgram EXCEPT !.ttl = @ - 1], next_hop)]

\* Mutant: the datagrams stay in the queue.
route_keeping(r) ==
    LET drain(s, k) == FoldLeft(route_one_datagram, s, s.interfaces[k].datagrams_out)
    IN  FoldLeft(drain, r, [k \in 1 .. Len(r.interfaces) |-> k])

\* Every datagram received by every interface is routed.
route(r) ==
    LET drain(s, k) ==
            [FoldLeft(route_one_datagram, s, s.interfaces[k].datagrams_out) EXCEPT
                !.interfaces[k].datagrams_out = <<>>]
    IN  FoldLeft(drain, r, [k \in 1 .. Len(r.interfaces) |-> k])
=============================================================================
