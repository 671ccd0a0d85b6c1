------------------------------ MODULE Adapters ------------------------------
(***************************************************************************)
(* The adapters between a TCPConnection and the datagrams that carry its   *)
(* segments (fd_adapter, tcp_over_ip, tuntap_adapter): over UDP, over IPv4 *)
(* in a TUN device, and over IPv4 in Ethernet frames in a TAP device.      *)
(* Reading yields a segment, or Rejected, and the adapter afterwards.      *)
(***************************************************************************)
EXTENDS Formats

\* Address: an IP address and a port.
address(ip, port) == [ip |-> ip, port |-> port]
any_address == address(<<0, 0>>, 0)

\* FdAdapterBase with its FdAdapterConfig.
new_adapter(source, destination, listening) ==
    [source |-> source, destination |-> destination, listening |-> listening]

\* seg with the port numbers of the connection.
with_ports(a, seg) ==
    [seg EXCEPT !.header.sport = a.source.port, !.header.dport = a.destination.port]

returns(a, seg) == [adapter |-> a, segment |-> seg]

opens(seg) == "syn" \in seg.header.flags /\ "rst" \notin seg.header.flags

------------------------------------------------------------------------------
\* TCPOverUDPSocketAdapter.

udp_write(a, seg) == TCPSegment_serialize(with_ports(a, seg), 0)

udp_read(a, from, b) ==
    LET seg == TCPSegment_parse(b, 0)
    IN  IF ~a.listening /\ from # a.destination THEN returns(a, Rejected)
        ELSE IF ~seg.ok \/ (a.listening /\ ~opens(seg)) THEN returns(a, Rejected)
        ELSE returns([a EXCEPT !.destination = from, !.listening = FALSE], seg)

------------------------------------------------------------------------------
\* TCPOverIPv4Adapter.

wrap_tcp_in_ip(a, seg) ==
    LET header == [new_ipv4_header EXCEPT
                      !.src = a.source.ip, !.dst = a.destination.ip,
                      !.len = 20 + 4 * seg.header.doff + Len(seg.payload)]
    IN  [header |-> header,
         payload |-> TCPSegment_serialize(with_ports(a, seg), pseudo_cksum(header))]

\* Mutant: the port of the sender is not looked at.
unwrap_tcp_in_ip_port(a, d) ==
    LET h == d.header
        seg == TCPSegment_parse(d.payload, pseudo_cksum(h))
    IN  IF ~a.listening /\ (h.dst # a.source.ip \/ h.src # a.destination.ip)
          THEN returns(a, Rejected)
        ELSE IF h.proto # PROTO_TCP \/ ~seg.ok \/ seg.header.dport # a.source.port
          THEN returns(a, Rejected)
        ELSE IF a.listening /\ ~opens(seg) THEN returns(a, Rejected)
        ELSE returns(new_adapter(address(h.dst, a.source.port), address(h.src, seg.header.sport),
                                 FALSE), seg)

\* A listening adapter takes the first SYN for its port, and with it the
\* addresses of both ends.  Later it takes what comes from there.
unwrap_tcp_in_ip(a, d) ==
    LET h == d.header
        seg == TCPSegment_parse(d.payload, pseudo_cksum(h))
    IN  IF ~a.listening /\ (h.dst # a.source.ip \/ h.src # a.destination.ip)
          THEN returns(a, Rejected)
        ELSE IF h.proto # PROTO_TCP \/ ~seg.ok \/ seg.header.dport # a.source.port
          THEN returns(a, Rejected)
        ELSE IF a.listening
          THEN IF opens(seg)
               THEN returns(new_adapter(address(h.dst, a.source.port),
                                        address(h.src, seg.header.sport), FALSE), seg)
               ELSE returns(a, Rejected)
        ELSE returns(a, IF seg.header.sport = a.destination.port THEN seg ELSE Rejected)

------------------------------------------------------------------------------
\* TCPOverIPv4OverTunFdAdapter.

tun_write(a, seg) == IPv4Datagram_serialize(wrap_tcp_in_ip(a, seg))

tun_read(a, b) ==
    LET d == IPv4Datagram_parse(b)
    IN  IF d.ok THEN unwrap_tcp_in_ip(a, d) ELSE returns(a, Rejected)

------------------------------------------------------------------------------
\* TCPOverIPv4OverEthernetAdapter, once its interface knows the next hop's
\* address: the interface puts a datagram into a frame, and takes one out of a
\* frame for its own address or for all.

ETHERNET_BROADCAST == [k \in 1 .. 6 |-> 255]

eth_write(a, seg, src, dst) ==
    EthernetFrame_serialize([header |-> [dst |-> dst, src |-> src, type |-> TYPE_IPv4],
                             payload |-> tun_write(a, seg)])

eth_read(a, b, ethernet_address) ==
    LET f == EthernetFrame_parse(b)
    IN  IF /\ f.header.dst \in {ethernet_address, ETHERNET_BROADCAST}
           /\ f.header.type = TYPE_IPv4
        THEN tun_read(a, f.payload)
        ELSE returns(a, Rejected)
=============================================================================
