--------------------------- MODULE MCAdapterWire ----------------------------
(***************************************************************************)
(* Three segments: one that opens a connection, one with 9 bytes of data,  *)
(* and a reset that also says SYN.  In the second the words that a header  *)
(* length of 7 instead of 5 would skip sum to zero, and the acknowledgement*)
(* number then reads as the ports.  The stranger runs on the client's host.*)
(***************************************************************************)
EXTENDS AdapterWire

MCEndpoint == [client |-> address(<<49320, 50>>, 4097), stranger |-> address(<<49320, 50>>, 4098),
               server |-> address(<<44048, 100>>, 1234)]
MCEthernet == [client |-> <<2, 0, 0, 1, 1, 1>>, stranger |-> <<2, 0, 0, 1, 1, 1>>,
               server |-> <<6, 16, 9, 3, 7, 129>>]

segment(seqno, ackno, flags, payload) ==
    [header |-> [sport |-> 0, dport |-> 0, seqno |-> seqno, ackno |-> ackno, doff |-> 5,
                 flags |-> flags, win |-> 64000, cksum |-> 0, uptr |-> 0],
     payload |-> payload]

MCSegments ==
    {segment(<<65535, 1>>, <<0, 0>>, {"syn"}, <<>>),
     segment(<<60000, 196>>, <<4097, 1234>>, {"ack"}, <<0, 1, 255, 128, 64, 7, 0, 0, 9>>),
     segment(<<0, 0>>, <<0, 0>>, {"syn", "rst"}, <<>>)}
=============================================================================
