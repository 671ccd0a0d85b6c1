----------------------------- MODULE AdapterWire -----------------------------
(***************************************************************************)
(* A server's adapter listens; a client and a stranger write segments to   *)
(* it, over UDP, over a TUN device, or in Ethernet frames.  One packet is  *)
(* on the wire at a time.  On the way it may be forwarded by a router, and *)
(* one bit of one packet may be flipped.  Devices other than UDP sockets   *)
(* are shared: whoever is attached can read a packet.                      *)
(***************************************************************************)
EXTENDS Adapters

CONSTANTS
    Segments,         \* what a connection may ask an adapter to write
    Endpoint,         \* Endpoint[x]: the Address of "client", "stranger", "server"
    Ethernet,         \* Ethernet[x]: its EthernetAddress
    MaxWrites,        \* bound: packets written
    Nothing           \* no packet, no result

VARIABLES
    layer,            \* "udp", "tun" or "ethernet"
    adapters,         \* adapters[x]
    wire,             \* the packet under way
    result,           \* what became of the packet read last
    heard,            \* the writers of what the server's adapter has returned
    router_up,        \* the router in between has not ended in an exception
    damaged,          \* a bit has been flipped
    writes

vars == <<layer, adapters, wire, result, heard, router_up, damaged, writes>>

Ends == {"client", "stranger", "server"}

\* CS144TCPSocket and its like: connect() knows both ends, listen_and_accept()
\* its own port.
Init ==
    /\ layer \in {"udp", "tun", "ethernet"}
    /\ adapters = [x \in Ends |->
                      IF x = "server"
                      THEN new_adapter(address(<<0, 0>>, Endpoint["server"].port), any_address, TRUE)
                      ELSE new_adapter(Endpoint[x], Endpoint["server"], FALSE)]
    /\ wire = Nothing
    /\ result = Nothing
    /\ heard = {}
    /\ router_up = TRUE
    /\ damaged = FALSE
    /\ writes = 0

serialized(x, seg) ==
    LET a == adapters[x]
        to == CHOOSE y \in Ends : Endpoint[y] = a.destination
    IN  CASE layer = "udp" -> udp_write(a, seg)
          [] layer = "tun" -> tun_write(a, seg)
          [] layer = "ethernet" -> eth_write(a, seg, Ethernet[x], Ethernet[to])

\* The adapter of x is given a segment to write.  The server has nowhere to write
\* to before it has heard from a peer.
Write(x, seg) ==
    /\ wire = Nothing
    /\ writes < MaxWrites
    /\ ~adapters[x].listening
    /\ wire' = [by |-> x, from |-> Endpoint[x], to |-> adapters[x].destination,
                segment |-> with_ports(adapters[x], seg), message |-> Nothing,
                bytes |-> serialized(x, seg), bit |-> 0]
    /\ result' = Nothing
    /\ writes' = writes + 1
    /\ UNCHANGED <<layer, adapters, heard, router_up, damaged>>

\* The interface of x tells or asks y something: an ARP message in a frame.
WriteARP(x, y, opcode) ==
    LET m == new_arp_message(opcode, Ethernet[x], Endpoint[x].ip,
                             IF opcode = OPCODE_REPLY THEN Ethernet[y] ELSE [k \in 1 .. 6 |-> 0],
                             Endpoint[y].ip)
        dst == IF opcode = OPCODE_REPLY THEN Ethernet[y] ELSE ETHERNET_BROADCAST
    IN  /\ wire = Nothing
        /\ layer = "ethernet"
        /\ writes < MaxWrites
        /\ x # y
        /\ wire' = [by |-> x, from |-> Endpoint[x], to |-> Endpoint[y],
                    segment |-> Nothing, message |-> m,
                    bytes |-> EthernetFrame_serialize(
                        [header |-> [dst |-> dst, src |-> Ethernet[x], type |-> TYPE_ARP],
                         payload |-> ARPMessage_serialize(m)]),
                    bit |-> 0]
        /\ result' = Nothing
        /\ writes' = writes + 1
        /\ UNCHANGED <<layer, adapters, heard, router_up, damaged>>

flip(byte, k) == IF bit_set(byte, k) THEN byte - 2^k ELSE byte + 2^k

\* Bit k (from 1, the most significant of the first byte) is flipped on the way.
Damage(k) ==
    /\ wire # Nothing
    /\ ~damaged
    /\ k \in 1 .. 8 * Len(wire.bytes)
    /\ wire' = [wire EXCEPT !.bit = k,
                            !.bytes[(k + 7) \div 8] = flip(@, (8 - (k % 8)) % 8)]
    /\ damaged' = TRUE
    /\ UNCHANGED <<layer, adapters, result, heard, router_up, writes>>

datagram_at == IF layer = "ethernet" THEN 14 ELSE 0

\* IPv4Header::serialize accepts only what a good header says.
serializes(h) == h.ver = 4 /\ h.hlen >= 5

\* A router takes the datagram out of the packet, and sends it on with a hop less.
\* Its serialisation throws where parsing had let a bad header through.
Forward ==
    LET frame == SubSeq(wire.bytes, 1, datagram_at)
        d == IPv4Datagram_parse(remove_prefix(wire.bytes, datagram_at))
    IN  /\ wire # Nothing
        /\ layer # "udp" /\ wire.message = Nothing
        /\ router_up
        /\ d.ok => d.header.ttl = 128
        /\ IF d.ok /\ serializes(d.header)
           THEN /\ wire' = [wire EXCEPT !.bytes =
                                frame \o IPv4Datagram_serialize([d EXCEPT !.header.ttl = @ - 1])]
                /\ router_up' = TRUE
           ELSE /\ wire' = Nothing
                /\ router_up' = ~d.ok
        /\ UNCHANGED <<layer, adapters, result, heard, damaged, writes>>

read(x) ==
    CASE layer = "udp" -> udp_read(adapters[x], wire.from, wire.bytes)
      [] layer = "tun" -> tun_read(adapters[x], wire.bytes)
      [] layer = "ethernet" -> eth_read(adapters[x], wire.bytes, Ethernet[x])

\* The ARP message that the interface of x takes out of the packet.
read_arp(x) ==
    LET f == EthernetFrame_parse(wire.bytes)
    IN  IF /\ layer = "ethernet"
           /\ f.header.dst \in {Ethernet[x], ETHERNET_BROADCAST}
           /\ f.header.type = TYPE_ARP
        THEN ARPMessage_parse(f.payload)
        ELSE Rejected

\* The adapter of x reads the packet.
Read(x) ==
    LET got == read(x)
    IN  /\ wire # Nothing
        /\ x # wire.by
        /\ layer = "udp" => Endpoint[x] = wire.to
        /\ adapters' = [adapters EXCEPT ![x] = got.adapter]
        /\ result' = [reader |-> x, packet |-> wire, segment |-> got.segment,
                      message |-> read_arp(x),
                      due |-> adapters[x].listening \/ adapters[x].destination = Endpoint[wire.by]]
        /\ heard' = IF x = "server" /\ got.segment.ok THEN heard \cup {wire.by} ELSE heard
        /\ wire' = Nothing
        /\ UNCHANGED <<layer, router_up, damaged, writes>>

Next ==
    \/ \E x \in Ends, seg \in Segments : Write(x, seg)
    \/ \E x, y \in Ends, opcode \in {OPCODE_REQUEST, OPCODE_REPLY} : WriteARP(x, y, opcode)
    \/ wire # Nothing /\ \E k \in 1 .. 8 * Len(wire.bytes) : Damage(k)
    \/ Forward
    \/ \E x \in Ends : Read(x)

Spec == Init /\ [][Next]_vars

------------------------------------------------------------------------------
Returned == result # Nothing /\ result.segment.ok

\* The bits of the field of an IPv4 header that gives its length.
header_length_bits == {8 * datagram_at + k : k \in 5 .. 8}

without_cksum(seg) == [header |-> [seg.header EXCEPT !.cksum = 0], payload |-> seg.payload]

\* TCPSegment::parse, pseudo_cksum: the parsers drop what the headers' parsers
\* return, so a bad IP version, checksum or TCP header length is no reason to
\* refuse a packet.  Still, a segment handed over is the one that was written,
\* whichever bit was flipped, even when a router gave the damaged header a good
\* checksum again.  The exception is the length of the IP header.
DamageCaught ==
    Returned =>
        \/ without_cksum(result.segment) = without_cksum(result.packet.segment)
        \/ layer # "udp" /\ result.packet.bit \in header_length_bits

\* read(): an undamaged packet to the reader, from the peer it is bound to, is
\* handed over.  A listening reader is handed a SYN without RST.
IntactArrives ==
    /\ result # Nothing
    /\ result.packet.message = Nothing /\ result.packet.bit = 0
    /\ result.due
    /\ result.packet.to = Endpoint[result.reader]
    => Returned \/ (result.reader = "server" /\ heard = {} /\ ~opens(result.packet.segment))

\* unwrap_tcp_in_ip, TCPOverUDPSocketAdapter::read: all that the server's adapter
\* ever hands over was written by one peer, to whom its own segments then go.
OneConversation ==
    /\ heard # {} =>
          \E p \in Ends :
              /\ heard = {p}
              /\ adapters["server"].destination = Endpoint[p]
              /\ ~adapters["server"].listening
    /\ Returned => Endpoint[result.packet.by] = adapters[result.reader].destination

\* ARPMessage::parse, ARPMessage::serialize (which throws on an unsupported
\* message): what an interface accepts it could send on, byte for byte as it came,
\* and an undamaged message is accepted as it was written.
ARPReadBack ==
    result # Nothing =>
        LET m == result.message
        IN  /\ m.ok => /\ supported(m.message)
                       /\ ARPMessage_serialize(m.message) = remove_prefix(result.packet.bytes, 14)
            /\ /\ result.packet.message # Nothing /\ result.packet.bit = 0
               /\ result.packet.to = Endpoint[result.reader]
               => m = [ok |-> TRUE, message |-> result.packet.message]
=============================================================================
