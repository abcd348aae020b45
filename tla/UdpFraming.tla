----------------------------- MODULE UdpFraming -----------------------------
(***************************************************************************)
(* UDP datagrams as bytes of a TLS stream: the request that opens an       *)
(* association and the packets that follow it, however the stream is cut   *)
(* into reads, and the limit that a receiver sets to a packet that is not  *)
(* complete.                                                               *)
(*                                                                         *)
(* The sender is a ClientSession or a UDPForwardSession (to ServerSession) *)
(* or a ServerSession (to either of them); all receivers have one loop.    *)
(***************************************************************************)
EXTENDS Naturals, SequencesExt

CONSTANTS
  Addresses,   \* SOCKS5 addresses as bytes: type, address, port
  Payloads,    \* what the datagrams hold
  Password,    \* the hashed password, hexadecimal digits
  MaxLength,   \* MAX_LENGTH of session.h and service.h
  MaxPackets   \* bound: datagrams sent

Octet == 0 .. 255
CRLF == <<13, 10>>
IPv4 == 1
DOMAINNAME == 3
IPv6 == 4
UDP_ASSOCIATE == 3

Request(a) == Password \o CRLF \o <<UDP_ASSOCIATE>> \o a \o CRLF

VARIABLES
  sender,     \* "client", "forward" or "server"
  request,    \* the request that opens the stream
  status,     \* of the receiver
  wire,       \* the bytes of the stream that were not read yet
  buf,        \* udp_data_buf; the first read, when that was no request
  sent, delivered   \* history: datagrams as <<address, payload>>

vars == <<sender, request, status, wire, buf, sent, delivered>>

-----------------------------------------------------------------------------
(* data[i] of a std::string: the terminator at its end, nothing beyond it. *)
Byte(data, i) == IF i = Len(data) THEN 0 ELSE data[i + 1]

(* SOCKS5Address::parse: address_len, or 0 when there is no valid address. *)
AddressLen(data) ==
  LET n == Byte(data, 1) IN
  CASE Len(data) = 0                                                   -> 0
    [] Len(data) > 6  /\ data[1] = IPv4                                -> 7
    [] Len(data) > 18 /\ data[1] = IPv6                                -> 19
    [] Len(data) > 0 /\ data[1] = DOMAINNAME /\ n # 0 /\ Len(data) > n + 3 -> n + 4
    [] OTHER                                                           -> 0

(* data.substr(from, n).                                                   *)
Bytes(data, from, n) == SubSeq(data, from + 1, Min({from + n, Len(data)}))

PayloadLen(data) == Byte(data, AddressLen(data)) * 256 + Byte(data, AddressLen(data) + 1)

(* Mutant: the test of the payload's length is missing.                    *)
PacketLenUnchecked(data) ==
  LET a == AddressLen(data) IN
  IF a # 0 /\ Len(data) >= a + 4 /\ Bytes(data, a + 2, 2) = CRLF
  THEN Min({a + 4 + PayloadLen(data), Len(data)}) ELSE 0

(* UDPPacket::parse: udp_packet_len, or 0 when the packet is not valid.    *)
PacketLen(data) ==
  LET a == AddressLen(data) IN
  IF /\ a # 0
     /\ Len(data) >= a + 2
     /\ Len(data) >= a + 4 + PayloadLen(data)
     /\ Bytes(data, a + 2, 2) = CRLF
  THEN a + 4 + PayloadLen(data) ELSE 0

(* UDPPacket::generate and the like in ClientSession::udp_recv.            *)
Packet(d) == d[1] \o <<Len(d[2]) \div 256, Len(d[2]) % 256>> \o CRLF \o d[2]

(* TrojanRequest::parse: the bytes of a valid request, or 0.               *)
RequestLen(data) ==
  LET ends  == {i \in 0 .. Len(data) - 2 : Bytes(data, i, 2) = CRLF}
      first == CHOOSE i \in ends : \A j \in ends : i <= j
      rest  == SubSeq(data, first + 3, Len(data))
      a     == AddressLen(Tail(rest)) IN
  IF /\ ends # {}
     /\ rest # << >> /\ rest[1] = UDP_ASSOCIATE
     /\ a # 0 /\ Len(rest) >= a + 3 /\ Bytes(rest, a + 1, 2) = CRLF
  THEN first + 2 + a + 3 ELSE 0

(* The addresses are whole and valid, the password is one that SHA224 made *)
(* printable, and a length fits into the two bytes it has in a packet.     *)
ASSUME FramingAssumption ==
  /\ MaxLength \in Nat /\ MaxLength < 65536 /\ MaxPackets \in Nat
  /\ Password \in Seq(Octet) /\ 13 \notin Range(Password)
  /\ Addresses \subseteq Seq(Octet) /\ Payloads \subseteq Seq(Octet)
  /\ \A a \in Addresses : /\ a # << >> /\ AddressLen(a) = Len(a)
                          /\ Len(Request(a)) <= MaxLength /\ Len(a) + 3 <= MaxLength

-----------------------------------------------------------------------------
Status == {"HANDSHAKE", "FORWARD", "UDP_FORWARD", "DESTROY"}

(* A server replies from an endpoint, a forwarder sends to a name.         *)
Allowed(a) ==
  CASE sender = "client"  -> TRUE
    [] sender = "forward" -> a[1] = DOMAINNAME
    [] sender = "server"  -> a[1] # DOMAINNAME

Init ==
  /\ sender \in {"client", "forward", "server"}
  /\ IF sender = "server"
     THEN request = << >> /\ status = "UDP_FORWARD"
     ELSE /\ status = "HANDSHAKE"
          /\ \E a \in Addresses : Allowed(a) /\ request = Request(a)
  /\ wire = request
  /\ buf = << >> /\ sent = << >> /\ delivered = << >>

(* What async_receive_from leaves of a datagram in udp_read_buf; that of a *)
(* SOCKS5 client has a header before the payload.                          *)
Received(a, p) ==
  <<a, Bytes(p, 0, IF sender = "client" THEN MaxLength - 3 - Len(a) ELSE MaxLength)>>

Send ==
  /\ Len(sent) < MaxPackets
  /\ \E a \in Addresses, p \in Payloads :
       /\ Allowed(a)
       /\ sent' = Append(sent, Received(a, p))
       /\ wire' = wire \o Packet(Received(a, p))
  /\ UNCHANGED <<sender, request, status, buf, delivered>>

(* in_recv of ServerSession, first read: the request and what follows it,  *)
(* or a stranger, whose bytes go to the fallback server.                   *)
ReadRequest ==
  /\ status = "HANDSHAKE"
  /\ \E n \in 1 .. Min({MaxLength, Len(wire)}) :
       LET data == Bytes(wire, 0, n)  len == RequestLen(data) IN
       /\ status' = IF len # 0 THEN "UDP_FORWARD" ELSE "FORWARD"
       /\ buf' = Bytes(data, len, n - len)
       /\ wire' = Bytes(wire, n, Len(wire) - n)
  /\ UNCHANGED <<sender, request, sent, delivered>>

(* udp_sent, out_recv: a whole packet in the buffer goes out.              *)
Deliver ==
  /\ status = "UDP_FORWARD" /\ PacketLen(buf) # 0
  /\ LET a == AddressLen(buf)  len == PacketLen(buf) IN
     /\ delivered' = Append(delivered, <<Bytes(buf, 0, a), Bytes(buf, a + 4, PayloadLen(buf))>>)
     /\ buf' = Bytes(buf, len, Len(buf) - len)
  /\ UNCHANGED <<sender, request, status, wire, sent>>

(* Mutant: the limit one byte too low.                                     *)
TooLongEarly == Len(buf) >= MaxLength

TooLong == Len(buf) > MaxLength

Destroy ==
  /\ status = "UDP_FORWARD" /\ PacketLen(buf) = 0 /\ TooLong
  /\ status' = "DESTROY"
  /\ UNCHANGED <<sender, request, wire, buf, sent, delivered>>

Read ==
  /\ status = "UDP_FORWARD" /\ PacketLen(buf) = 0 /\ ~ TooLong
  /\ \E n \in 1 .. Min({MaxLength, Len(wire)}) :
       buf' = buf \o Bytes(wire, 0, n) /\ wire' = Bytes(wire, n, Len(wire) - n)
  /\ UNCHANGED <<sender, request, status, sent, delivered>>

Next == Send \/ ReadRequest \/ Deliver \/ Destroy \/ Read

Spec == Init /\ [][Next]_vars

-----------------------------------------------------------------------------
(* The datagrams come out as they went in, in order, wherever the reads    *)
(* cut the stream; no byte of one is left when all was read; and a sender  *)
(* is a stranger only when its request was split.                          *)
Framed ==
  /\ IsPrefix(delivered, sent)
  /\ status = "UDP_FORWARD" /\ wire = << >> /\ PacketLen(buf) = 0 =>
       buf = << >> /\ delivered = sent
  /\ status = "FORWARD" => Len(buf) < Len(request)

(* "UDP packet too long" ends an association only at a datagram whose      *)
(* packet is longer than MAX_LENGTH + 1, which a SOCKS5 client cannot send *)
(* (its own header is longer than the one of the packet); a server or a    *)
(* forwarder that fills its buffer can.                                    *)
CutIsLong ==
  status = "DESTROY" =>
    /\ sender # "client"
    /\ Len(Packet(sent[Len(delivered) + 1])) > MaxLength + 1

=============================================================================
