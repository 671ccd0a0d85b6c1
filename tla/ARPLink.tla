------------------------------ MODULE ARPLink -------------------------------
(***************************************************************************)
(* Network interfaces on one Ethernet that loses, delays, reorders and     *)
(* repeats frames, each driven as TCPOverIPv4OverEthernetAdapter drives it *)
(* (tuntap_adapter.cc): after every call the queue of frames is sent.      *)
(***************************************************************************)
EXTENDS NetworkInterface, FiniteSetsExt

CONSTANTS
    Stations,         \* one interface each: positive numbers
    Datagrams,        \* what the stations send: [from, hop, id]
    Ticks,            \* milliseconds between two calls of tick
    MaxLink           \* bound on the frames on the link at a time

Eth(h) == <<"eth", h>>
Ip(h) == <<"ip", h>>

\* A mapping outlives the request that led to it (30000 and 5000 ms); a datagram
\* goes from a station to a station, and has a header, which a default-constructed
\* one lacks; no station has the broadcast address.
ASSUME LinkAssumption ==
    /\ RequestTime \in Nat /\ MappingTime \in Nat /\ RequestTime <= MappingTime
    /\ Ticks \subseteq Nat
    /\ \A d \in Datagrams : d.from \in Stations /\ d.hop \in Stations
    /\ DefaultDatagram \notin Datagrams
    /\ \A h \in Stations : Eth(h) # Broadcast

VARIABLES
    iface,        \* the interface of each station
    link,         \* the frames on the link
    handed,       \* datagrams passed to send_datagram so far
    sent,         \* how many frames each datagram was sent in
    delivered,    \* the datagrams recv_frame returned at each station
    since,        \* time since a station's last request for an address
    gap           \* the shortest time between two such requests

vars == <<iface, link, handed, sent, delivered, since, gap>>

\* Times beyond this are not told apart.
Long == RequestTime + 1

\* Frames of other equipment: payloads that do not parse, an unknown type.
Foreign ==
    {frame(Eth(0), Broadcast, type, Garbled) : type \in {"ARP", "IPv4", "other"}}

Init ==
    /\ iface = [h \in Stations |-> new_interface(Eth(h), Ip(h))]
    /\ link \in {{}} \union {{f} : f \in Foreign}
    /\ handed = {}
    /\ sent = [d \in Datagrams |-> 0]
    /\ delivered = [h \in Stations |-> {}]
    /\ since = [h \in Stations |-> [ip \in {Ip(g) : g \in Stations} |-> Long]]
    /\ gap = Long

Live(h) == ~iface[h].threw

\* h's interface becomes i after ms more milliseconds.  send_pending puts its
\* frames on the link, which held `rest`; a call that threw sends nothing.
Transmit(h, i, ms, rest) ==
    LET out == IF i.threw THEN <<>> ELSE i.frames_out
        times(f) == Cardinality({k \in 1 .. Len(out) : out[k] = f})
        elapsed == [ip \in DOMAIN since[h] |-> Min({Long, since[h][ip] + ms})]
        asked == {ip \in DOMAIN elapsed : times(arp_request(i, ip)) > 0}
    IN  /\ iface' = [iface EXCEPT ![h] = [i EXCEPT !.frames_out = <<>>]]
        /\ link' = rest \union Range(out)
        /\ Cardinality(link') <= MaxLink
        /\ sent' = [d \in Datagrams |->
                       sent[d] + Cardinality({k \in 1 .. Len(out) :
                                                 out[k].type = "IPv4" /\ out[k].payload = d})]
        /\ since' = [since EXCEPT ![h] =
                       [ip \in DOMAIN elapsed |-> IF ip \in asked THEN 0 ELSE elapsed[ip]]]
        /\ gap' = Min({gap} \union {elapsed[ip] : ip \in asked})

Send(d) ==
    /\ d \notin handed
    /\ Live(d.from)
    /\ handed' = handed \union {d}
    /\ Transmit(d.from, send_datagram(iface[d.from], d, Ip(d.hop)), 0, link)
    /\ UNCHANGED delivered

\* A frame reaches a station; copies of it may reach others, or the same later.
Receive(h, f, rest) ==
    /\ Live(h)
    /\ f.src # Eth(h)
    /\ delivered' = [delivered EXCEPT ![h] = @ \union received(iface[h], f)]
    /\ Transmit(h, recv_frame(iface[h], f), 0, rest)
    /\ UNCHANGED handed

Deliver(h) == \E f \in link : \E rest \in {link, link \ {f}} : Receive(h, f, rest)

Lose ==
    /\ \E f \in link : link' = link \ {f}
    /\ UNCHANGED <<iface, handed, sent, delivered, since, gap>>

Tick(h) ==
    /\ Live(h)
    /\ \E ms \in Ticks : Transmit(h, tick(iface[h], ms), ms, link)
    /\ UNCHANGED <<handed, delivered>>

Next ==
    \/ \E d \in Datagrams : Send(d)
    \/ Lose
    \/ \E h \in Stations : Deliver(h) \/ Tick(h)

Spec == Init /\ [][Next]_vars

------------------------------------------------------------------------------

\* A datagram leaves an interface in one frame at most: the one that waits for
\* an address is sent by the first reply and by no later one, and neither
\* repeated requests nor a mapping learned meanwhile send it again.
SentOnce == \A d \in Datagrams : sent[d] <= 1

\* A datagram is handed up only by the interface that was its next hop, however
\* late the reply that released it.
DeliveredToNextHop ==
    \A h \in Stations : \A d \in delivered[h] : d \in handed /\ d.hop = h /\ sent[d] > 0

\* tests/net_interface.cc, "pending mappings last five seconds": no station asks
\* for the same address twice within RequestTime, whether the request is
\* repeated by tick or made by the next datagram, and though a reply erases the
\* entry that says when it was made.  Nor is a mapping kept beyond its time.
TimesKept ==
    /\ gap >= RequestTime
    /\ \A h \in Stations :
          LET table == iface[h].arp_forward_table
          IN  \A ip \in DOMAIN table : table[ip].age <= MappingTime

\* network_interface.hh:75, on recv_frame: "If type is ARP reply, learn a mapping
\* from the "sender" fields."  It learns, and returns.
RecvFrameReturns == \A h \in Stations : Live(h)
=============================================================================
