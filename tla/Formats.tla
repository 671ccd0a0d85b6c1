------------------------------ MODULE Formats -------------------------------
(***************************************************************************)
(* The formats on the wire, to the byte: the network-order integers of     *)
(* NetParser and NetUnparser, the Internet checksum, and how TCP segments, *)
(* IPv4 datagrams, Ethernet frames and ARP messages are parsed and         *)
(* serialised.  A buffer is a sequence of bytes, a list of buffers their   *)
(* concatenation.  A 32-bit number is the pair of its 16-bit halves.       *)
(***************************************************************************)
EXTENDS Integers, Sequences, SequencesExt, FiniteSetsExt

\* Integers in network order; `at` is an offset from 0.
U16(n) == <<n \div 256, n % 256>>
U32(w) == U16(w[1]) \o U16(w[2])
u8(b, at) == b[at + 1]
u16(b, at) == 256 * b[at + 1] + b[at + 2]
u32(b, at) == <<u16(b, at), u16(b, at + 2)>>

\* What is left of a buffer without its first n bytes.
remove_prefix(b, n) == SubSeq(b, n + 1, Len(b))

\* string::resize, which fills up with zeros.
resize(b, n) == [k \in 1 .. n |-> IF k <= Len(b) THEN b[k] ELSE 0]

\* A bit of a number, and the bit field that holds the flags in `set`, of which
\* the i-th name stands for bit i - 1.
bit_set(n, k) == (n \div 2^k) % 2 = 1
pack(names, set) == MapThenSumSet(LAMBDA i : IF names[i] \in set THEN 2^(i - 1) ELSE 0, DOMAIN names)
unpack(names, n) == {names[i] : i \in {j \in DOMAIN names : bit_set(n, j - 1)}}

\* Mutant: the low byte of every word is left out of the sum.
InternetChecksum_high(initial_sum, data) ==
    LET sum == initial_sum +
               MapThenSumSet(LAMBDA i : IF i % 2 = 1 THEN 256 * data[i] ELSE 0, DOMAIN data)
    IN  IF sum = 0 THEN 65535 ELSE 65534 - ((sum - 1) % 65535)

\* InternetChecksum: the bytes as big-endian words, summed; the carries are added
\* in until the sum fits 16 bits, and it is complemented.
InternetChecksum(initial_sum, data) ==
    LET sum == initial_sum +
               MapThenSumSet(LAMBDA i : IF i % 2 = 1 THEN 256 * data[i] ELSE data[i], DOMAIN data)
    IN  IF sum = 0 THEN 65535 ELSE 65534 - ((sum - 1) % 65535)

Rejected == [ok |-> FALSE]

------------------------------------------------------------------------------
\* TCPHeader and TCPSegment.

flag_names == <<"fin", "syn", "rst", "psh", "ack", "urg">>

TCPHeader_serialize(h) ==
    resize(U16(h.sport) \o U16(h.dport) \o U32(h.seqno) \o U32(h.ackno) \o
           <<16 * h.doff, pack(flag_names, h.flags)>> \o U16(h.win) \o U16(h.cksum) \o U16(h.uptr),
           4 * h.doff)

TCPHeader_parse(b) ==
    [sport |-> u16(b, 0), dport |-> u16(b, 2), seqno |-> u32(b, 4), ackno |-> u32(b, 8),
     doff |-> u8(b, 12) \div 16, flags |-> unpack(flag_names, u8(b, 13) % 64),
     win |-> u16(b, 14), cksum |-> u16(b, 16), uptr |-> u16(b, 18)]

TCPSegment_serialize(seg, datagram_layer_checksum) ==
    LET zero == [seg.header EXCEPT !.cksum = 0]
        sum == InternetChecksum(datagram_layer_checksum, TCPHeader_serialize(zero) \o seg.payload)
    IN  TCPHeader_serialize([zero EXCEPT !.cksum = sum]) \o seg.payload

\* Mutant: the checksum is not looked at.
TCPSegment_parse_unchecked(b, datagram_layer_checksum) ==
    LET h == TCPHeader_parse(b)
    IN  IF Len(b) < 20 THEN Rejected
        ELSE IF h.doff >= 5 /\ Len(b) < 4 * h.doff THEN Rejected
        ELSE [ok |-> TRUE, header |-> h, payload |-> remove_prefix(b, Max({20, 4 * h.doff}))]

\* What TCPHeader::parse returns is not looked at: a header length below 5, which
\* is no error of the parser's, is taken for 5.
TCPSegment_parse(b, datagram_layer_checksum) ==
    LET h == TCPHeader_parse(b)
    IN  IF InternetChecksum(datagram_layer_checksum, b) # 0 \/ Len(b) < 20 THEN Rejected
        ELSE IF h.doff >= 5 /\ Len(b) < 4 * h.doff THEN Rejected
        ELSE [ok |-> TRUE, header |-> h, payload |-> remove_prefix(b, Max({20, 4 * h.doff}))]

------------------------------------------------------------------------------
\* IPv4Header and IPv4Datagram.

PROTO_TCP == 6

\* A default-constructed IPv4Header.
new_ipv4_header ==
    [ver |-> 4, hlen |-> 5, tos |-> 0, len |-> 0, id |-> 0, df |-> TRUE, mf |-> FALSE,
     offset |-> 0, ttl |-> 128, proto |-> PROTO_TCP, cksum |-> 0, src |-> <<0, 0>>, dst |-> <<0, 0>>]

IPv4Header_serialize(h) ==
    resize(<<16 * h.ver + h.hlen, h.tos>> \o U16(h.len) \o U16(h.id) \o
           U16((IF h.df THEN 16384 ELSE 0) + (IF h.mf THEN 8192 ELSE 0) + h.offset) \o
           <<h.ttl, h.proto>> \o U16(h.cksum) \o U32(h.src) \o U32(h.dst),
           4 * h.hlen)

IPv4Header_parse(b) ==
    [ver |-> u8(b, 0) \div 16, hlen |-> u8(b, 0) % 16, tos |-> u8(b, 1), len |-> u16(b, 2),
     id |-> u16(b, 4), df |-> bit_set(u16(b, 6), 14), mf |-> bit_set(u16(b, 6), 13),
     offset |-> u16(b, 6) % 8192, ttl |-> u8(b, 8), proto |-> u8(b, 9), cksum |-> u16(b, 10),
     src |-> u32(b, 12), dst |-> u32(b, 16)]

\* What IPv4Header::parse returns.
IPv4Header_result(b) ==
    LET h == IPv4Header_parse(b)
    IN  IF Len(b) < 20 THEN "PacketTooShort"
        ELSE IF Len(b) < 4 * h.hlen THEN "PacketTooShort"
        ELSE IF h.ver # 4 THEN "WrongIPVersion"
        ELSE IF h.hlen < 5 THEN "HeaderTooShort"
        ELSE IF Len(b) # h.len THEN "TruncatedPacket"
        ELSE IF InternetChecksum(0, SubSeq(b, 1, 4 * h.hlen)) # 0 THEN "BadChecksum"
        ELSE "NoError"

payload_length(h) == (h.len - 4 * h.hlen) % 65536

pseudo_cksum(h) == h.src[1] + h.src[2] + h.dst[1] + h.dst[2] + h.proto + payload_length(h)

IPv4Datagram_serialize(d) ==
    LET zero == [d.header EXCEPT !.cksum = 0]
        sum == InternetChecksum(0, IPv4Header_serialize(zero))
    IN  IPv4Header_serialize([zero EXCEPT !.cksum = sum]) \o d.payload

\* What IPv4Header::parse returned is not looked at, only whether the payload has
\* the length it should have.  The options are skipped once the header's other
\* checks have passed.
IPv4Datagram_parse(b) ==
    LET h == IPv4Header_parse(b)
        complete == IPv4Header_result(b) \in {"NoError", "BadChecksum"}
        payload == remove_prefix(b, IF complete THEN 4 * h.hlen ELSE 20)
    IN  IF Len(b) < 20 THEN Rejected
        ELSE IF Len(payload) # payload_length(h) THEN Rejected
        ELSE [ok |-> TRUE, header |-> h, payload |-> payload]

------------------------------------------------------------------------------
\* EthernetHeader and EthernetFrame.  An EthernetAddress is a sequence of 6 bytes.

TYPE_IPv4 == 2048
TYPE_ARP == 2054

EthernetHeader_serialize(h) == h.dst \o h.src \o U16(h.type)
EthernetHeader_parse(b) == [dst |-> SubSeq(b, 1, 6), src |-> SubSeq(b, 7, 12), type |-> u16(b, 12)]

EthernetFrame_serialize(f) == EthernetHeader_serialize(f.header) \o f.payload

\* A frame too short for a header is no error: its header stays all zero.
EthernetFrame_parse(b) ==
    LET none == [k \in 1 .. 6 |-> 0]
    IN  IF Len(b) < 14 THEN [header |-> [dst |-> none, src |-> none, type |-> 0], payload |-> b]
        ELSE [header |-> EthernetHeader_parse(b), payload |-> remove_prefix(b, 14)]

------------------------------------------------------------------------------
\* ARPMessage.

OPCODE_REQUEST == 1
OPCODE_REPLY == 2

supported(m) ==
    /\ m.hardware_type = 1
    /\ m.protocol_type = TYPE_IPv4
    /\ m.hardware_address_size = 6
    /\ m.protocol_address_size = 4
    /\ m.opcode \in {OPCODE_REQUEST, OPCODE_REPLY}

new_arp_message(opcode, sender_eth, sender_ip, target_eth, target_ip) ==
    [hardware_type |-> 1, protocol_type |-> TYPE_IPv4, hardware_address_size |-> 6,
     protocol_address_size |-> 4, opcode |-> opcode,
     sender_ethernet_address |-> sender_eth, sender_ip_address |-> sender_ip,
     target_ethernet_address |-> target_eth, target_ip_address |-> target_ip]

ARPMessage_serialize(m) ==
    U16(m.hardware_type) \o U16(m.protocol_type) \o
    <<m.hardware_address_size, m.protocol_address_size>> \o U16(m.opcode) \o
    m.sender_ethernet_address \o U32(m.sender_ip_address) \o
    m.target_ethernet_address \o U32(m.target_ip_address)

\* Mutant: the sizes and types are not looked at.
ARPMessage_parse_any(b) ==
    IF Len(b) < 28 THEN Rejected
    ELSE [ok |-> TRUE,
          message |-> [hardware_type |-> u16(b, 0), protocol_type |-> u16(b, 2),
              hardware_address_size |-> u8(b, 4), protocol_address_size |-> u8(b, 5),
              opcode |-> u16(b, 6),
              sender_ethernet_address |-> SubSeq(b, 9, 14), sender_ip_address |-> u32(b, 14),
              target_ethernet_address |-> SubSeq(b, 19, 24), target_ip_address |-> u32(b, 24)]]

ARPMessage_parse(b) ==
    LET m == [hardware_type |-> u16(b, 0), protocol_type |-> u16(b, 2),
              hardware_address_size |-> u8(b, 4), protocol_address_size |-> u8(b, 5),
              opcode |-> u16(b, 6),
              sender_ethernet_address |-> SubSeq(b, 9, 14), sender_ip_address |-> u32(b, 14),
              target_ethernet_address |-> SubSeq(b, 19, 24), target_ip_address |-> u32(b, 24)]
    IN  IF Len(b) < 28 THEN Rejected
        ELSE IF supported(m) THEN [ok |-> TRUE, message |-> m] ELSE Rejected
=============================================================================
