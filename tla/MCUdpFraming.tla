---------------------------- MODULE MCUdpFraming ----------------------------
(* An instance of UdpFraming for TLC: one address of each type, and        *)
(* payloads that are empty, that look like the header of a packet, and     *)
(* that fill the buffer of a receiver.                                     *)
EXTENDS UdpFraming

OneOfEach == {<<IPv4, 13, 10, 13, 10, 0, 1>>, <<DOMAINNAME, 1, 3, 13, 10>>,
              <<IPv6>> \o [i \in 1 .. 18 |-> 4]}
Digits == <<97, 48>>
Tricky == {<< >>, <<13, 10, 1>>, [i \in 1 .. MaxLength |-> IF i % 2 = 1 THEN 13 ELSE 10]}
=============================================================================
