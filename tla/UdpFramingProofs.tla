-------------------------- MODULE UdpFramingProofs --------------------------
(***************************************************************************)
(* What TLAPS proves of UdpFraming, for any addresses, payloads, password  *)
(* and buffer size: parse inverts generate and calls every proper prefix   *)
(* invalid, datagrams come out as they went in, and only one that is       *)
(* longer than its receiver allows ends an association.                    *)
(***************************************************************************)
EXTENDS UdpFraming, SequenceTheorems, TLAPS

(* Names for what the lemmas speak of: a std::string, and its length.      *)
Text == Seq(Octet)
Size(s) == Len(s)

Datagram == {d \in Addresses \X Text : Size(d[2]) < 65536}

(* data begins as s does: one is a prefix of the other.                    *)
Agrees(data, s) == \A i \in 1 .. Size(data) : i <= Size(s) => data[i] = s[i]

-----------------------------------------------------------------------------
(* Strings and their parts.                                                *)

LEMMA TextFacts ==
  ASSUME NEW s \in Text
  PROVE  /\ Size(s) \in Nat /\ (s = << >> <=> Size(s) = 0)
         /\ \A i \in 1 .. Size(s) : s[i] \in Octet /\ s[i] \in Nat
<1>1. \A x \in Octet : x \in Nat
  BY DEF Octet
<1>2. Len(s) \in Nat /\ (s = << >> <=> Len(s) = 0) /\ \A i \in 1 .. Len(s) : s[i] \in Octet
  BY DEF Text
<1> QED
  BY <1>1, <1>2 DEF Size

LEMMA TextEqual ==
  ASSUME NEW s \in Text, NEW t \in Text, Size(s) = Size(t),
         \A i \in 1 .. Size(s) : s[i] = t[i]
  PROVE  s = t
BY SeqEqual DEF Text, Size

LEMMA ConcatFacts ==
  ASSUME NEW u \in Text, NEW v \in Text
  PROVE  /\ u \o v \in Text /\ Size(u \o v) = Size(u) + Size(v)
         /\ \A i \in 1 .. Size(u) : (u \o v)[i] = u[i]
         /\ \A i \in 1 .. Size(v) : (u \o v)[Size(u) + i] = v[i]
<1>1. /\ u \o v \in Seq(Octet) /\ Len(u \o v) = Len(u) + Len(v)
      /\ \A i \in 1 .. Len(u) : (u \o v)[i] = u[i]
  BY DEF Text
<1>2. \A i \in 1 .. Len(v) : (u \o v)[Len(u) + i] = v[i]
  BY DEF Text
<1> QED
  BY <1>1, <1>2 DEF Text, Size

LEMMA ConcatLaws ==
  /\ \A s \in Text : s \o << >> = s /\ << >> \o s = s
  /\ \A s, t, u \in Text : (s \o t) \o u = s \o (t \o u)
  /\ \A s, t, u \in Text : s \o t = s \o u => t = u
  /\ << >> \in Text
<1>1. \A s, t, u \in Text : s \o t = s \o u => t = u
  <2> SUFFICES ASSUME NEW s \in Text, NEW t \in Text, NEW u \in Text, s \o t = s \o u
               PROVE  t = u
    OBVIOUS
  <2>1. Size(t) = Size(u)
    <3>1. Size(s \o t) = Size(s) + Size(t) /\ Size(s \o u) = Size(s) + Size(u)
      BY ConcatFacts
    <3>2. Size(s) \in Nat /\ Size(t) \in Nat /\ Size(u) \in Nat
      BY TextFacts
    <3> QED
      BY <3>1, <3>2
  <2>2. \A i \in 1 .. Size(t) : t[i] = u[i]
    <3>1. \A i \in 1 .. Size(t) : (s \o t)[Size(s) + i] = t[i]
      BY ConcatFacts
    <3>2. \A i \in 1 .. Size(u) : (s \o u)[Size(s) + i] = u[i]
      BY ConcatFacts
    <3> QED
      BY <2>1, <3>1, <3>2
  <2> QED
    BY <2>1, <2>2, TextEqual
<1>2. \A s \in Text : s \o << >> = s /\ << >> \o s = s
  BY ConcatEmptySeq DEF Text
<1>3. \A s, t, u \in Text : (s \o t) \o u = s \o (t \o u)
  BY ConcatAssociative DEF Text
<1>4. << >> \in Text
  BY DEF Text
<1> QED
  BY <1>1, <1>2, <1>3, <1>4

LEMMA MinOfTwo ==
  ASSUME NEW x \in Int, NEW y \in Int
  PROVE  Min({x, y}) = IF x <= y THEN x ELSE y
<1> DEFINE m == IF x <= y THEN x ELSE y
<1>1. m \in {x, y} /\ \A z \in {x, y} : m <= z
  OBVIOUS
<1>2. \A n \in {x, y} : (\A z \in {x, y} : n <= z) => n = m
  OBVIOUS
<1> QED
  BY <1>1, <1>2 DEF Min

LEMMA BytesFacts ==
  ASSUME NEW data \in Text, NEW from \in Nat, NEW n \in Nat
  PROVE  /\ Bytes(data, from, n) \in Text /\ Size(Bytes(data, from, n)) <= n
         /\ from + n <= Size(data) => Size(Bytes(data, from, n)) = n
         /\ \A i \in 1 .. Size(Bytes(data, from, n)) :
              from + i \in 1 .. Size(data) /\ Bytes(data, from, n)[i] = data[from + i]
<1> DEFINE m == Min({from + n, Len(data)})
<1>0. data \in Seq(Octet)
  BY DEF Text
<1>1. m = IF from + n <= Len(data) THEN from + n ELSE Len(data)
  BY <1>0, MinOfTwo
<1>2. Bytes(data, from, n) = SubSeq(data, from + 1, m)
  BY DEF Bytes
<1> HIDE DEF m
<1>3. m \in Int /\ \A i \in from + 1 .. m : data[i] \in Octet
  BY <1>0, <1>1
<1>4. LET b == SubSeq(data, from + 1, m) IN
      /\ b \in Seq(Octet) /\ Len(b) <= n /\ (from + n <= Len(data) => Len(b) = n)
      /\ \A i \in 1 .. Len(b) : from + i \in 1 .. Len(data) /\ b[i] = data[from + i]
  BY <1>0, <1>1, <1>3, SubSeqProperties
<1> QED
  BY <1>2, <1>4 DEF Text, Size

(* A part that holds what s holds is s.                                    *)
LEMMA BytesAre ==
  ASSUME NEW data \in Text, NEW from \in Nat, NEW s \in Text,
         from + Size(s) <= Size(data), \A i \in 1 .. Size(s) : data[from + i] = s[i]
  PROVE  Bytes(data, from, Size(s)) = s
<1> DEFINE b == Bytes(data, from, Size(s))
<1>0. Size(s) \in Nat
  BY TextFacts
<1>1. /\ b \in Text /\ Size(b) = Size(s)
      /\ \A i \in 1 .. Size(b) : b[i] = data[from + i]
  BY <1>0, BytesFacts
<1> HIDE DEF b
<1>2. b = s
  <2>1. \A i \in 1 .. Size(b) : b[i] = s[i]
    BY <1>1
  <2> QED
    BY <1>1, <2>1, TextEqual
<1> QED
  BY <1>2 DEF b

(* A string is its first n bytes and the others.                           *)
LEMMA Cut ==
  ASSUME NEW data \in Text, NEW n \in 0 .. Size(data)
  PROVE  /\ Bytes(data, 0, n) \in Text /\ Size(Bytes(data, 0, n)) = n
         /\ Bytes(data, n, Size(data) - n) \in Text
         /\ Bytes(data, 0, n) \o Bytes(data, n, Size(data) - n) = data
<1> DEFINE u == Bytes(data, 0, n)  v == Bytes(data, n, Size(data) - n)
<1>0. n \in Nat /\ Size(data) \in Nat /\ Size(data) - n \in Nat /\ 0 \in Nat
  BY TextFacts
<1>1. /\ u \in Text /\ (0 + n <= Size(data) => Size(u) = n)
      /\ \A i \in 1 .. Size(u) : u[i] = data[0 + i]
  BY <1>0, BytesFacts
<1>2. /\ v \in Text
      /\ n + (Size(data) - n) <= Size(data) => Size(v) = Size(data) - n
      /\ \A i \in 1 .. Size(v) : v[i] = data[n + i]
  BY <1>0, BytesFacts
<1> HIDE DEF u, v
<1>3. Size(u) = n /\ Size(v) = Size(data) - n
  BY <1>0, <1>1, <1>2
<1>4. u \o v = data
  <2>1. /\ u \o v \in Text /\ Size(u \o v) = Size(u) + Size(v)
        /\ \A i \in 1 .. Size(u) : (u \o v)[i] = u[i]
        /\ \A i \in 1 .. Size(v) : (u \o v)[Size(u) + i] = v[i]
    BY <1>1, <1>2, ConcatFacts
  <2>2. ASSUME NEW i \in 1 .. Size(u \o v) PROVE (u \o v)[i] = data[i]
    <3>0. i \in Nat /\ 1 <= i /\ i <= Size(data)
      BY <1>0, <1>3, <2>1
    <3>1. CASE i <= n
      <4>1. i \in 1 .. Size(u) /\ 0 + i = i
        BY <1>3, <3>0, <3>1
      <4> QED
        BY <4>1, <1>1, <2>1
    <3>2. CASE i > n
      <4>1. i - n \in 1 .. Size(v) /\ Size(u) + (i - n) = i /\ n + (i - n) = i
        BY <1>0, <1>3, <3>0, <3>2
      <4> QED
        BY <4>1, <1>2, <2>1
    <3>3. i <= n \/ i > n
      BY <1>0, <3>0
    <3> QED
      BY <3>1, <3>2, <3>3
  <2>3. Size(u \o v) = Size(data)
    BY <1>0, <1>3, <2>1
  <2> QED
    BY <2>1, <2>2, <2>3, TextEqual
<1> QED
  BY <1>1, <1>2, <1>3, <1>4 DEF u, v

(* A whole of two strings agrees with the first.                           *)
LEMMA PrefixAgrees ==
  ASSUME NEW data \in Text, NEW w \in Text, NEW s \in Text, NEW r \in Text,
         data \o w = s \o r
  PROVE  Agrees(data, s)
<1>1. \A i \in 1 .. Size(data) : (data \o w)[i] = data[i]
  BY ConcatFacts
<1>2. \A i \in 1 .. Size(s) : (s \o r)[i] = s[i]
  BY ConcatFacts
<1>3. Size(s) \in Nat /\ Size(data) \in Nat
  BY TextFacts
<1>4. ASSUME NEW i \in 1 .. Size(data), i <= Size(s) PROVE data[i] = s[i]
  <2>1. i \in 1 .. Size(s)
    BY <1>3, <1>4
  <2> QED
    BY <1>1, <1>2, <2>1
<1> QED
  BY <1>4 DEF Agrees

LEMMA IsCRLF ==
  ASSUME NEW data \in Text, NEW i \in Nat
  PROVE  Bytes(data, i, 2) = CRLF
           <=> i + 2 <= Size(data) /\ data[i + 1] = 13 /\ data[i + 2] = 10
<1>1. CRLF \in Text /\ Size(CRLF) = 2 /\ CRLF[1] = 13 /\ CRLF[2] = 10
  BY DEF CRLF, Octet, Text, Size
<1>2. ASSUME Bytes(data, i, 2) = CRLF
      PROVE  i + 2 <= Size(data) /\ data[i + 1] = 13 /\ data[i + 2] = 10
  <2>1. \A k \in 1 .. Size(CRLF) : i + k \in 1 .. Size(data) /\ CRLF[k] = data[i + k]
    <3>1. \A k \in 1 .. Size(Bytes(data, i, 2)) :
            i + k \in 1 .. Size(data) /\ Bytes(data, i, 2)[k] = data[i + k]
      BY BytesFacts
    <3> QED
      BY <3>1, <1>2
  <2> QED
    BY <1>1, <2>1, TextFacts
<1>3. ASSUME i + 2 <= Size(data), data[i + 1] = 13, data[i + 2] = 10
      PROVE  Bytes(data, i, 2) = CRLF
  <2>1. \A k \in 1 .. Size(CRLF) : data[i + k] = CRLF[k]
    BY <1>1, <1>3
  <2>2. i + Size(CRLF) <= Size(data)
    BY <1>1, <1>3
  <2>3. Bytes(data, i, Size(CRLF)) = CRLF
    BY <1>1, <2>1, <2>2, BytesAre
  <2> QED
    BY <1>1, <2>3
<1> QED
  BY <1>2, <1>3

-----------------------------------------------------------------------------
(* The codecs.                                                             *)

(* SOCKS5Address::parse, type by type.                                     *)
AddressCases(data) ==
  /\ Size(data) = 0 => AddressLen(data) = 0
  /\ Size(data) > 0 /\ data[1] = IPv4 =>
       AddressLen(data) = IF Size(data) > 6 THEN 7 ELSE 0
  /\ Size(data) > 0 /\ data[1] = IPv6 =>
       AddressLen(data) = IF Size(data) > 18 THEN 19 ELSE 0
  /\ Size(data) = 1 /\ data[1] = DOMAINNAME => AddressLen(data) = 0
  /\ Size(data) > 1 /\ data[1] = DOMAINNAME =>
       AddressLen(data) = IF data[2] # 0 /\ Size(data) > data[2] + 3
                          THEN data[2] + 4 ELSE 0
  /\ Size(data) > 0 /\ data[1] \notin {IPv4, IPv6, DOMAINNAME} => AddressLen(data) = 0

LEMMA AddressIs == ASSUME NEW data \in Text PROVE AddressCases(data)
<1>0. Size(data) \in Nat
  BY TextFacts
<1>1. ASSUME Size(data) = 0 PROVE AddressLen(data) = 0
  BY <1>1 DEF AddressLen, Size
<1>2. ASSUME Size(data) > 0, data[1] = IPv4
      PROVE  AddressLen(data) = IF Size(data) > 6 THEN 7 ELSE 0
  BY <1>0, <1>2 DEF AddressLen, Size, IPv4, IPv6, DOMAINNAME
<1>3. ASSUME Size(data) > 0, data[1] = IPv6
      PROVE  AddressLen(data) = IF Size(data) > 18 THEN 19 ELSE 0
  BY <1>0, <1>3 DEF AddressLen, Size, IPv4, IPv6, DOMAINNAME
<1>4. ASSUME Size(data) = 1, data[1] = DOMAINNAME PROVE AddressLen(data) = 0
  <2>1. Byte(data, 1) = 0
    BY <1>4 DEF Byte, Size
  <2> QED
    BY <1>4, <2>1 DEF AddressLen, Size, IPv4, IPv6, DOMAINNAME
<1>5. ASSUME Size(data) > 1, data[1] = DOMAINNAME
      PROVE  AddressLen(data) = IF data[2] # 0 /\ Size(data) > data[2] + 3
                                THEN data[2] + 4 ELSE 0
  <2>1. Byte(data, 1) = data[2]
    BY <1>0, <1>5 DEF Byte, Size
  <2>2. data[2] \in Nat
    BY <1>0, <1>5, TextFacts
  <2> QED
    BY <1>0, <1>5, <2>1, <2>2 DEF AddressLen, Size, IPv4, IPv6, DOMAINNAME
<1>6. ASSUME Size(data) > 0, data[1] \notin {IPv4, IPv6, DOMAINNAME}
      PROVE  AddressLen(data) = 0
  BY <1>0, <1>6 DEF AddressLen, Size
<1> QED
  BY <1>1, <1>2, <1>3, <1>4, <1>5, <1>6 DEF AddressCases

(* What the addresses are like.                                            *)
LEMMA AddressFacts ==
  ASSUME NEW a \in Addresses
  PROVE  /\ a \in Text /\ Size(a) \in Nat /\ Size(a) >= 2
         /\ \/ a[1] = IPv4 /\ Size(a) = 7
            \/ a[1] = IPv6 /\ Size(a) = 19
            \/ a[1] = DOMAINNAME /\ a[2] \in Nat /\ a[2] # 0 /\ Size(a) = a[2] + 4
<1>1. a \in Text /\ a # << >> /\ AddressLen(a) = Size(a)
  BY FramingAssumption DEF Text, Size
<1>2. Size(a) \in Nat /\ Size(a) > 0 /\ \A i \in 1 .. Size(a) : a[i] \in Nat
  BY <1>1, TextFacts
<1>3. AddressCases(a)
  BY <1>1, AddressIs
<1>4. a[1] \in {IPv4, IPv6, DOMAINNAME}
  BY <1>1, <1>2, <1>3 DEF AddressCases
<1>5. CASE a[1] \in {IPv4, IPv6}
  BY <1>1, <1>2, <1>3, <1>5 DEF AddressCases
<1>6. CASE a[1] = DOMAINNAME
  <2>1. Size(a) > 1
    BY <1>1, <1>2, <1>3, <1>6 DEF AddressCases
  <2> QED
    BY <1>1, <1>2, <1>3, <1>6, <2>1 DEF AddressCases
<1> QED
  BY <1>1, <1>4, <1>5, <1>6

(* parse finds an address when all of it is there.                         *)
LEMMA AddressPrefix ==
  ASSUME NEW a \in Addresses, NEW data \in Text, Agrees(data, a)
  PROVE  AddressLen(data) = IF Size(data) >= Size(a) THEN Size(a) ELSE 0
<1>1. /\ Size(a) \in Nat /\ Size(a) >= 2
      /\ \/ a[1] = IPv4 /\ Size(a) = 7
         \/ a[1] = IPv6 /\ Size(a) = 19
         \/ a[1] = DOMAINNAME /\ a[2] \in Nat /\ a[2] # 0 /\ Size(a) = a[2] + 4
  BY AddressFacts
<1>2. Size(data) \in Nat /\ AddressCases(data)
  BY TextFacts, AddressIs
<1>3. /\ Size(data) >= 1 => data[1] = a[1]
      /\ Size(data) >= 2 => data[2] = a[2]
  BY <1>1, <1>2 DEF Agrees
<1>4. CASE Size(data) = 0
  BY <1>1, <1>2, <1>4 DEF AddressCases
<1>5. CASE Size(data) > 0 /\ a[1] = IPv4 /\ Size(a) = 7
  BY <1>1, <1>2, <1>3, <1>5 DEF AddressCases
<1>6. CASE Size(data) > 0 /\ a[1] = IPv6 /\ Size(a) = 19
  BY <1>1, <1>2, <1>3, <1>6 DEF AddressCases
<1>7. CASE /\ Size(data) > 0
           /\ a[1] = DOMAINNAME /\ a[2] \in Nat /\ a[2] # 0 /\ Size(a) = a[2] + 4
  BY <1>1, <1>2, <1>3, <1>7 DEF AddressCases
<1> QED
  BY <1>1, <1>2, <1>4, <1>5, <1>6, <1>7

(* UDPPacket::generate: the address, the length, CRLF and the payload.     *)
PacketIs(s, a, p) ==
  /\ s \in Text /\ Size(s) = Size(a) + 4 + Size(p)
  /\ \A i \in 1 .. Size(a) : s[i] = a[i]
  /\ s[Size(a) + 1] * 256 + s[Size(a) + 2] = Size(p)
  /\ s[Size(a) + 3] = 13 /\ s[Size(a) + 4] = 10
  /\ \A i \in 1 .. Size(p) : s[Size(a) + 4 + i] = p[i]

LEMMA PacketFacts ==
  ASSUME NEW d \in Datagram
  PROVE  PacketIs(Packet(d), d[1], d[2])
<1> DEFINE a == d[1]  p == d[2]
           hi == Size(p) \div 256  lo == Size(p) % 256
           length == <<hi, lo>>
<1>1. a \in Text /\ p \in Text /\ Size(a) \in Nat /\ Size(p) \in Nat /\ Size(p) < 65536
  BY AddressFacts, TextFacts DEF Datagram
<1>2. Packet(d) = ((a \o length) \o CRLF) \o p
  BY DEF Packet, Size
<1> HIDE DEF a, p
<1>3. hi \in Octet /\ lo \in Octet /\ hi * 256 + lo = Size(p)
  BY <1>1 DEF Octet
<1> HIDE DEF hi, lo
<1>4. length \in Text /\ Size(length) = 2 /\ length[1] = hi /\ length[2] = lo
  BY <1>3 DEF Text, Size
<1>5. CRLF \in Text /\ Size(CRLF) = 2 /\ CRLF[1] = 13 /\ CRLF[2] = 10
  BY DEF CRLF, Octet, Text, Size
<1> HIDE DEF length
<1> DEFINE u == a \o length  v == u \o CRLF  s == v \o p
<1>6. /\ u \in Text /\ Size(u) = Size(a) + 2
      /\ \A i \in 1 .. Size(a) : u[i] = a[i]
      /\ u[Size(a) + 1] = hi /\ u[Size(a) + 2] = lo
  <2>1. /\ u \in Text /\ Size(u) = Size(a) + Size(length)
        /\ \A i \in 1 .. Size(a) : u[i] = a[i]
        /\ \A i \in 1 .. Size(length) : u[Size(a) + i] = length[i]
    <3>1. a \in Text /\ length \in Text
      BY <1>1, <1>4
    <3> QED
      BY <3>1, ConcatFacts
  <2> HIDE DEF u
  <2> QED
    BY <1>4, <2>1
<1> HIDE DEF u
<1>7. /\ v \in Text /\ Size(v) = Size(a) + 4
      /\ \A i \in 1 .. Size(a) + 2 : v[i] = u[i]
      /\ v[Size(a) + 3] = 13 /\ v[Size(a) + 4] = 10
  <2>1. /\ v \in Text /\ Size(v) = Size(u) + Size(CRLF)
        /\ \A i \in 1 .. Size(u) : v[i] = u[i]
        /\ \A i \in 1 .. Size(CRLF) : v[Size(u) + i] = CRLF[i]
    BY <1>5, <1>6, ConcatFacts
  <2> HIDE DEF v
  <2>2. v[Size(u) + 1] = 13 /\ v[Size(u) + 2] = 10
    BY <1>5, <2>1
  <2> QED
    BY <1>1, <1>5, <1>6, <2>1, <2>2
<1> HIDE DEF v
<1>8. /\ s \in Text /\ Size(s) = Size(v) + Size(p)
      /\ \A i \in 1 .. Size(v) : s[i] = v[i]
      /\ \A i \in 1 .. Size(p) : s[Size(v) + i] = p[i]
  <2>1. v \in Text /\ p \in Text
    BY <1>1, <1>7
  <2> QED
    BY <2>1, ConcatFacts
<1> HIDE DEF s
<1>9. \A i \in 1 .. Size(a) : s[i] = a[i]
  BY <1>1, <1>6, <1>7, <1>8
<1>10. /\ s[Size(a) + 1] = hi /\ s[Size(a) + 2] = lo
       /\ s[Size(a) + 3] = 13 /\ s[Size(a) + 4] = 10
  BY <1>1, <1>6, <1>7, <1>8
<1>11. PacketIs(s, a, p)
  BY <1>1, <1>3, <1>7, <1>8, <1>9, <1>10 DEF PacketIs
<1> QED
  BY <1>2, <1>11 DEF a, p, s, v, u

(* UDPPacket::parse inverts generate, and whatever follows the packet does *)
(* not matter; every proper prefix of a packet is invalid.                 *)
LEMMA PacketPrefix ==
  ASSUME NEW d \in Datagram, NEW data \in Text, Agrees(data, Packet(d))
  PROVE  /\ Size(data) < Size(Packet(d)) => PacketLen(data) = 0
         /\ Size(data) >= Size(Packet(d)) =>
              /\ PacketLen(data) = Size(Packet(d)) /\ PacketLen(data) # 0
              /\ Bytes(data, 0, AddressLen(data)) = d[1]
              /\ Bytes(data, AddressLen(data) + 4, PayloadLen(data)) = d[2]
<1> DEFINE x == d[1]  p == d[2]  a == Size(x)  n == Size(p)  s == Packet(d)
<1>1. x \in Addresses /\ x \in Text /\ p \in Text /\ a \in Nat /\ n \in Nat /\ a >= 2
  BY AddressFacts, TextFacts DEF Datagram
<1>2. PacketIs(s, x, p) /\ Agrees(data, s)
  BY PacketFacts
<1>3. Size(data) \in Nat
  BY TextFacts
<1> HIDE DEF x, p, s
<1>4. /\ Size(s) = a + 4 + n
      /\ \A i \in 1 .. a : s[i] = x[i]
      /\ s[a + 1] * 256 + s[a + 2] = n /\ s[a + 3] = 13 /\ s[a + 4] = 10
      /\ \A i \in 1 .. n : s[a + 4 + i] = p[i]
  BY <1>2 DEF PacketIs
<1>5. \A i \in 1 .. Size(data) : i <= a + 4 + n => data[i] = s[i]
  BY <1>2, <1>4 DEF Agrees
<1>6. AddressLen(data) = IF Size(data) >= a THEN a ELSE 0
  <2>1. ASSUME NEW i \in 1 .. Size(data), i <= a PROVE data[i] = x[i]
    BY <1>1, <1>3, <1>4, <1>5, <2>1
  <2>2. Agrees(data, x)
    BY <2>1 DEF Agrees
  <2> QED
    BY <1>1, <2>2, AddressPrefix
<1> HIDE DEF a, n
<1>7. ASSUME Size(data) >= a + 2 PROVE PayloadLen(data) = n
  <2>1. AddressLen(data) = a
    BY <1>1, <1>3, <1>6, <1>7
  <2>2. data[a + 1] = s[a + 1] /\ data[a + 2] = s[a + 2]
    BY <1>1, <1>3, <1>5, <1>7
  <2>3. Byte(data, a) = data[a + 1] /\ Byte(data, a + 1) = data[(a + 1) + 1]
    BY <1>1, <1>3, <1>7 DEF Byte, Size
  <2>4. (a + 1) + 1 = a + 2
    BY <1>1
  <2> QED
    BY <1>4, <2>1, <2>2, <2>3, <2>4 DEF PayloadLen
<1>8. ASSUME Size(data) < a + 4 + n PROVE PacketLen(data) = 0
  <2>1. CASE Size(data) < a
    <3>1. AddressLen(data) = 0
      BY <1>1, <1>3, <1>6, <2>1
    <3> QED
      BY <3>1 DEF PacketLen
  <2>2. CASE Size(data) >= a /\ Size(data) < a + 2
    <3>1. AddressLen(data) = a /\ ~ (Size(data) >= a + 2)
      BY <1>1, <1>3, <1>6, <2>2
    <3> QED
      BY <3>1 DEF PacketLen, Size
  <2>3. CASE Size(data) >= a + 2
    <3>1. AddressLen(data) = a /\ PayloadLen(data) = n /\ ~ (Size(data) >= a + 4 + n)
      BY <1>1, <1>3, <1>6, <1>7, <1>8, <2>3
    <3> QED
      BY <3>1 DEF PacketLen, Size
  <2>4. Size(data) < a \/ (Size(data) >= a /\ Size(data) < a + 2) \/ Size(data) >= a + 2
    BY <1>1, <1>3
  <2> QED
    BY <2>1, <2>2, <2>3, <2>4
<1>9. ASSUME Size(data) >= a + 4 + n
      PROVE  /\ PacketLen(data) = a + 4 + n
             /\ Bytes(data, 0, AddressLen(data)) = x
             /\ Bytes(data, AddressLen(data) + 4, PayloadLen(data)) = p
  <2>1. Size(data) >= a + 2 /\ a # 0
    BY <1>1, <1>3, <1>9
  <2>2. AddressLen(data) = a /\ PayloadLen(data) = n
    BY <1>1, <1>3, <1>6, <1>7, <2>1
  <2>3. Bytes(data, a + 2, 2) = CRLF
    <3>1. data[a + 3] = 13 /\ data[a + 4] = 10
      BY <1>1, <1>3, <1>4, <1>5, <1>9
    <3>2. a + 2 \in Nat /\ (a + 2) + 2 <= Size(data) /\ (a + 2) + 1 = a + 3 /\ (a + 2) + 2 = a + 4
      BY <1>1, <1>3, <1>9
    <3>3. data[(a + 2) + 1] = 13 /\ data[(a + 2) + 2] = 10
      BY <3>1, <3>2
    <3> QED
      BY <3>2, <3>3, IsCRLF
  <2>4. PacketLen(data) = a + 4 + n
    <3>1. Len(data) >= a + 2 /\ Len(data) >= a + 4 + n
      BY <1>9, <2>1 DEF Size
    <3> QED
      BY <2>1, <2>2, <2>3, <3>1 DEF PacketLen
  <2>5. Bytes(data, 0, a) = x
    <3>1. 0 + a <= Size(data) /\ \A i \in 1 .. a : data[0 + i] = x[i]
      BY <1>1, <1>3, <1>4, <1>5, <1>9
    <3> QED
      BY <1>1, <3>1, BytesAre DEF a
  <2>6. Bytes(data, a + 4, n) = p
    <3>1. ASSUME NEW i \in 1 .. n PROVE data[a + 4 + i] = p[i]
      BY <1>1, <1>3, <1>4, <1>5, <1>9
    <3>2. a + 4 \in Nat /\ (a + 4) + n <= Size(data)
      BY <1>1, <1>3, <1>9
    <3> QED
      BY <1>1, <3>1, <3>2, BytesAre DEF n
  <2> QED
    BY <2>2, <2>4, <2>5, <2>6
<1> QED
  BY <1>1, <1>4, <1>8, <1>9 DEF s, x, p

(* TrojanRequest::generate.                                                *)
RequestIs(s, a) ==
  LET p == Size(Password) IN
  /\ s \in Text /\ Size(s) = p + Size(a) + 5
  /\ \A i \in 1 .. p : s[i] = Password[i]
  /\ s[p + 1] = 13 /\ s[p + 2] = 10 /\ s[p + 3] = UDP_ASSOCIATE
  /\ \A i \in 1 .. Size(a) : s[p + 3 + i] = a[i]
  /\ s[p + 3 + Size(a) + 1] = 13 /\ s[p + 3 + Size(a) + 2] = 10

LEMMA RequestFacts ==
  ASSUME NEW a \in Addresses
  PROVE  RequestIs(Request(a), a)
<1> DEFINE p == Size(Password)
           command == <<UDP_ASSOCIATE>>
           u == Password \o CRLF
           v == u \o command
           w == v \o a
           s == w \o CRLF
<1>1. Password \in Text /\ a \in Text /\ p \in Nat /\ Size(a) \in Nat
  <2>1. Password \in Text
    BY FramingAssumption DEF Text
  <2> QED
    BY <2>1, AddressFacts, TextFacts
<1>2. CRLF \in Text /\ Size(CRLF) = 2 /\ CRLF[1] = 13 /\ CRLF[2] = 10
  BY DEF CRLF, Octet, Text, Size
<1>3. command \in Text /\ Size(command) = 1 /\ command[1] = UDP_ASSOCIATE
  BY DEF UDP_ASSOCIATE, Octet, Text, Size
<1>4. Request(a) = s
  BY DEF Request
<1> HIDE DEF command, p
<1>5. /\ u \in Text /\ Size(u) = p + 2
      /\ \A i \in 1 .. p : u[i] = Password[i]
      /\ u[p + 1] = 13 /\ u[p + 2] = 10
  <2>1. /\ u \in Text /\ Size(u) = p + Size(CRLF)
        /\ \A i \in 1 .. p : u[i] = Password[i]
        /\ \A i \in 1 .. Size(CRLF) : u[p + i] = CRLF[i]
    BY <1>1, <1>2, ConcatFacts DEF p
  <2> HIDE DEF u
  <2> QED
    BY <1>2, <2>1
<1> HIDE DEF u
<1>6. /\ v \in Text /\ Size(v) = p + 3 /\ v[p + 3] = UDP_ASSOCIATE
      /\ \A i \in 1 .. p + 2 : v[i] = u[i]
  <2>1. /\ v \in Text /\ Size(v) = Size(u) + Size(command)
        /\ \A i \in 1 .. Size(u) : v[i] = u[i]
        /\ \A i \in 1 .. Size(command) : v[Size(u) + i] = command[i]
    BY <1>3, <1>5, ConcatFacts
  <2> HIDE DEF v
  <2>2. v[Size(u) + 1] = UDP_ASSOCIATE
    BY <1>3, <2>1
  <2> QED
    BY <1>1, <1>3, <1>5, <2>1, <2>2
<1> HIDE DEF v
<1>7. /\ w \in Text /\ Size(w) = p + 3 + Size(a)
      /\ \A i \in 1 .. p + 3 : w[i] = v[i]
      /\ \A i \in 1 .. Size(a) : w[p + 3 + i] = a[i]
  <2>1. /\ w \in Text /\ Size(w) = Size(v) + Size(a)
        /\ \A i \in 1 .. Size(v) : w[i] = v[i]
        /\ \A i \in 1 .. Size(a) : w[Size(v) + i] = a[i]
    BY <1>1, <1>6, ConcatFacts
  <2> HIDE DEF w
  <2> QED
    BY <1>6, <2>1
<1> HIDE DEF w
<1>8. /\ s \in Text /\ Size(s) = Size(w) + 2
      /\ \A i \in 1 .. Size(w) : s[i] = w[i]
      /\ s[Size(w) + 1] = 13 /\ s[Size(w) + 2] = 10
  <2>1. /\ s \in Text /\ Size(s) = Size(w) + Size(CRLF)
        /\ \A i \in 1 .. Size(w) : s[i] = w[i]
        /\ \A i \in 1 .. Size(CRLF) : s[Size(w) + i] = CRLF[i]
    BY <1>2, <1>7, ConcatFacts
  <2> HIDE DEF s
  <2> QED
    BY <1>2, <2>1
<1> HIDE DEF s
<1>9. \A i \in 1 .. p : s[i] = Password[i]
  BY <1>1, <1>5, <1>6, <1>7, <1>8
<1>10. s[p + 1] = 13 /\ s[p + 2] = 10 /\ s[p + 3] = UDP_ASSOCIATE
  BY <1>1, <1>5, <1>6, <1>7, <1>8
<1>11. \A i \in 1 .. Size(a) : s[p + 3 + i] = a[i]
  BY <1>1, <1>7, <1>8
<1>12. Size(s) = p + Size(a) + 5
  BY <1>1, <1>7, <1>8
<1>13. s[p + 3 + Size(a) + 1] = 13 /\ s[p + 3 + Size(a) + 2] = 10
  BY <1>1, <1>7, <1>8
<1>14. RequestIs(s, a)
  BY <1>8, <1>9, <1>10, <1>11, <1>12, <1>13 DEF RequestIs, p
<1> QED
  BY <1>4, <1>14 DEF s, w, v, u, command

(* The first CRLF of a request is the one behind the password.             *)
CRLFs(data)     == {i \in 0 .. Len(data) - 2 : Bytes(data, i, 2) = CRLF}
FirstCRLF(data) == CHOOSE i \in CRLFs(data) : \A j \in CRLFs(data) : i <= j

LEMMA PasswordEnds ==
  ASSUME NEW a \in Addresses, NEW data \in Text, Agrees(data, Request(a))
  PROVE  LET p == Size(Password) IN
         /\ Size(data) < p + 2 => CRLFs(data) = {}
         /\ Size(data) >= p + 2 => CRLFs(data) # {} /\ FirstCRLF(data) = p
<1> DEFINE p == Size(Password)  s == Request(a)  ends == CRLFs(data)
<1>1. /\ Password \in Text /\ p \in Nat /\ Size(data) \in Nat /\ Size(a) \in Nat
      /\ \A i \in 1 .. p : Password[i] # 13
  <2>1. Password \in Text /\ \A i \in 1 .. Len(Password) : Password[i] # 13
    BY FramingAssumption DEF Text, Range
  <2>2. p \in Nat /\ Size(data) \in Nat /\ Size(a) \in Nat
    BY <2>1, TextFacts, AddressFacts
  <2> QED
    BY <2>1, <2>2 DEF Size
<1>2. /\ Size(s) = p + Size(a) + 5 /\ \A i \in 1 .. p : s[i] = Password[i]
      /\ s[p + 1] = 13 /\ s[p + 2] = 10
  BY RequestFacts DEF RequestIs
<1>3. \A i \in 1 .. Size(data) : i <= Size(s) => data[i] = s[i]
  BY DEF Agrees
<1>4. \A i \in ends : i \in Nat /\ i + 2 <= Size(data) /\ data[i + 1] = 13
  <2> SUFFICES ASSUME NEW i \in ends
               PROVE  i \in Nat /\ i + 2 <= Size(data) /\ data[i + 1] = 13
    OBVIOUS
  <2>1. i \in Nat /\ Bytes(data, i, 2) = CRLF
    <3>1. i \in 0 .. Size(data) - 2 /\ Bytes(data, i, 2) = CRLF
      BY DEF Size, CRLFs
    <3> QED
      BY <3>1, <1>1
  <2> QED
    BY <2>1, IsCRLF
<1>5. \A i \in ends : i >= p
  <2> SUFFICES ASSUME NEW i \in ends, i < p PROVE FALSE
    BY <1>1, <1>4
  <2>1. i \in Nat /\ i + 2 <= Size(data) /\ data[i + 1] = 13
    BY <1>4
  <2> HIDE DEF ends, p, s
  <2>2. data[i + 1] = s[i + 1] /\ s[i + 1] = Password[i + 1]
    BY <1>1, <1>2, <1>3, <2>1
  <2>3. i + 1 \in 1 .. p
    BY <1>1, <2>1
  <2> QED
    BY <1>1, <2>1, <2>2, <2>3
<1>6. ASSUME Size(data) >= p + 2 PROVE p \in ends
  <2>1. data[p + 1] = 13 /\ data[p + 2] = 10
    <3> HIDE DEF p, s
    <3> QED
      BY <1>1, <1>2, <1>3, <1>6
  <2>2. Bytes(data, p, 2) = CRLF
    BY <1>1, <1>6, <2>1, IsCRLF
  <2>3. p \in 0 .. Size(data) - 2
    BY <1>1, <1>6
  <2> QED
    BY <2>2, <2>3 DEF Size, CRLFs
<1>7. ASSUME Size(data) >= p + 2 PROVE ends # {} /\ FirstCRLF(data) = p
  <2>1. FirstCRLF(data) = CHOOSE i \in ends : \A j \in ends : i <= j
    BY DEF FirstCRLF
  <2>2. p \in ends
    BY <1>6, <1>7
  <2> HIDE DEF ends, p
  <2>3. \A i \in ends : (\A j \in ends : i <= j) => i = p
    BY <1>1, <1>4, <1>5, <2>2
  <2> QED
    BY <1>5, <2>1, <2>2, <2>3
<1>8. ASSUME Size(data) < p + 2 PROVE ends = {}
  <2> SUFFICES ASSUME NEW i \in ends PROVE FALSE
    OBVIOUS
  <2>1. i \in Nat /\ i + 2 <= Size(data) /\ i >= p
    BY <1>4, <1>5
  <2> HIDE DEF p, ends
  <2> QED
    BY <1>1, <1>8, <2>1
<1> QED
  BY <1>7, <1>8

LEMMA RequestLenIs ==
  ASSUME NEW data
  PROVE  LET first == FirstCRLF(data)
             rest  == SubSeq(data, first + 3, Len(data))
             a     == AddressLen(Tail(rest)) IN
         RequestLen(data) =
           IF /\ CRLFs(data) # {}
              /\ rest # << >> /\ rest[1] = UDP_ASSOCIATE
              /\ a # 0 /\ Len(rest) >= a + 3 /\ Bytes(rest, a + 1, 2) = CRLF
           THEN first + 2 + a + 3 ELSE 0
BY Zenon DEF RequestLen, FirstCRLF, CRLFs

(* TrojanRequest::parse inverts generate, whatever follows the request;    *)
(* every proper prefix of a request is invalid.                            *)
LEMMA RequestPrefix ==
  ASSUME NEW a \in Addresses, NEW data \in Text, Agrees(data, Request(a))
  PROVE  RequestLen(data) = IF Size(data) >= Size(Request(a)) THEN Size(Request(a)) ELSE 0
<1> DEFINE p == Size(Password)  n == Size(a)  s == Request(a)
           first == FirstCRLF(data)
           rest  == SubSeq(data, first + 3, Len(data))
           found == AddressLen(Tail(rest))
<1>1. p \in Nat /\ n \in Nat /\ n >= 2 /\ Size(data) \in Nat
  <2>1. Password \in Text
    BY FramingAssumption DEF Text
  <2> QED
    BY <2>1, TextFacts, AddressFacts
<1>2. /\ Size(s) = p + n + 5 /\ s[p + 3] = UDP_ASSOCIATE
      /\ \A i \in 1 .. n : s[p + 3 + i] = a[i]
      /\ s[p + 3 + n + 1] = 13 /\ s[p + 3 + n + 2] = 10
  BY RequestFacts DEF RequestIs
<1>3. \A i \in 1 .. Size(data) : i <= Size(s) => data[i] = s[i]
  BY DEF Agrees
<1>4. RequestLen(data) =
        IF /\ CRLFs(data) # {}
           /\ rest # << >> /\ rest[1] = UDP_ASSOCIATE
           /\ found # 0 /\ Len(rest) >= found + 3 /\ Bytes(rest, found + 1, 2) = CRLF
        THEN first + 2 + found + 3 ELSE 0
  BY RequestLenIs
<1>5. /\ Size(data) < p + 2 => CRLFs(data) = {}
      /\ Size(data) >= p + 2 => CRLFs(data) # {} /\ first = p
  BY PasswordEnds
<1> HIDE DEF p, n, s
<1>6. CASE Size(data) < p + 2
  <2> HIDE DEF first, rest, found
  <2>1. RequestLen(data) = 0
    BY <1>4, <1>5, <1>6
  <2> QED
    BY <1>1, <1>2, <1>6, <2>1 DEF s
<1>7. CASE Size(data) >= p + 2
  <2>1. CRLFs(data) # {} /\ first = p
    BY <1>5, <1>7
  <2> HIDE DEF first
  <2>2. /\ rest \in Text /\ Size(rest) = Size(data) - p - 2
        /\ \A i \in 1 .. Size(rest) : rest[i] = data[p + 2 + i]
    <3> DEFINE r == SubSeq(data, p + 3, Len(data))
    <3>1. rest = r
      BY <2>1
    <3>2. data \in Seq(Octet) /\ Len(data) \in Nat /\ Len(data) >= p + 2
      BY <1>7 DEF Text, Size
    <3>3. \A i \in p + 3 .. Len(data) : data[i] \in Octet
      BY <1>1, <3>2
    <3>4. /\ r \in Seq(Octet)
          /\ Len(r) = IF p + 3 <= Len(data) THEN Len(data) - (p + 3) + 1 ELSE 0
          /\ \A i \in 1 .. Len(data) - (p + 3) + 1 : r[i] = data[(p + 3) + i - 1]
      BY <1>1, <3>2, <3>3, SubSeqProperties
    <3> HIDE DEF r, rest
    <3>5. Len(r) = Len(data) - p - 2
      BY <1>1, <3>2, <3>4
    <3>6. ASSUME NEW i \in 1 .. Len(r) PROVE r[i] = data[p + 2 + i]
      <4>1. i \in 1 .. Len(data) - (p + 3) + 1 /\ (p + 3) + i - 1 = p + 2 + i
        BY <1>1, <3>2, <3>5
      <4> QED
        BY <3>4, <4>1
    <3> QED
      BY <3>1, <3>4, <3>5, <3>6 DEF Text, Size
  <2> HIDE DEF rest
  <2>3. CASE Size(rest) = 0
    <3>1. RequestLen(data) = 0
      <4>1. rest = << >>
        BY <2>2, <2>3, TextFacts
      <4> QED
        BY <1>4, <4>1
    <3> QED
      BY <1>1, <1>2, <2>2, <2>3, <3>1 DEF s
  <2>4. CASE Size(rest) > 0
    <3> DEFINE t == Tail(rest)
    <3>1. rest # << >> /\ rest[1] = UDP_ASSOCIATE
      <4>1. rest # << >>
        BY <2>2, <2>4, TextFacts
      <4>2. rest[1] = data[p + 3] /\ data[p + 3] = s[p + 3]
        BY <1>1, <1>2, <1>3, <2>2, <2>4
      <4> QED
        BY <1>2, <4>1, <4>2
    <3>2. /\ t \in Text /\ Size(t) = Size(rest) - 1
          /\ \A i \in 1 .. Size(t) : t[i] = rest[i + 1]
      BY <2>2, <3>1, HeadTailProperties DEF Text, Size
    <3> HIDE DEF t
    <3>3. Agrees(t, a)
      <4>1. ASSUME NEW i \in 1 .. Size(t), i <= n PROVE t[i] = a[i]
        <5>1. i \in 1 .. n /\ p + 3 + i \in 1 .. Size(data) /\ p + 3 + i <= Size(s)
              /\ i + 1 \in 1 .. Size(rest) /\ p + 2 + (i + 1) = p + 3 + i
          BY <1>1, <1>2, <2>2, <3>2, <4>1
        <5> QED
          BY <1>2, <1>3, <2>2, <3>2, <5>1
      <4> QED
        BY <4>1 DEF Agrees, n
    <3>4. found = IF Size(t) >= n THEN n ELSE 0
      BY <3>2, <3>3, AddressPrefix DEF t, n
    <3> HIDE DEF found
    <3>5. CASE Size(data) < p + n + 5
      <4>1. CASE Size(t) < n
        BY <1>1, <1>4, <3>2, <3>4, <4>1, <1>2, <3>5, <2>2 DEF s
      <4>2. CASE Size(t) >= n
        <5>1. found = n /\ ~ (Size(rest) >= found + 3)
          BY <1>1, <2>2, <3>2, <3>4, <3>5, <4>2
        <5>2. RequestLen(data) = 0
          BY <1>4, <5>1 DEF Size
        <5> QED
          BY <1>1, <1>2, <3>5, <5>2 DEF s
      <4>3. Size(t) < n \/ Size(t) >= n
        BY <1>1, <2>2, <3>2
      <4> QED
        BY <4>1, <4>2, <4>3
    <3>6. CASE Size(data) >= p + n + 5
      <4>1. found = n /\ Size(rest) >= n + 3 /\ n # 0
        BY <1>1, <2>2, <3>2, <3>4, <3>6
      <4>2. Bytes(rest, n + 1, 2) = CRLF
        <5>1. /\ n + 2 \in 1 .. Size(rest) /\ n + 3 \in 1 .. Size(rest)
              /\ p + 2 + (n + 2) = p + 3 + n + 1 /\ p + 2 + (n + 3) = p + 3 + n + 2
              /\ p + 3 + n + 1 \in 1 .. Size(data) /\ p + 3 + n + 2 \in 1 .. Size(data)
              /\ p + 3 + n + 1 <= Size(s) /\ p + 3 + n + 2 <= Size(s)
          BY <1>1, <1>2, <2>2, <3>6, <4>1
        <5>2. rest[n + 2] = 13 /\ rest[n + 3] = 10
          BY <1>2, <1>3, <2>2, <5>1
        <5>3. n + 1 \in Nat /\ (n + 1) + 2 <= Size(rest) /\ (n + 1) + 1 = n + 2 /\ (n + 1) + 2 = n + 3
          BY <1>1, <2>2, <4>1
        <5>4. rest[(n + 1) + 1] = 13 /\ rest[(n + 1) + 2] = 10
          BY <5>2, <5>3
        <5> QED
          BY <2>2, <5>3, <5>4, IsCRLF
      <4>3. RequestLen(data) = first + 2 + found + 3
        <5>1. Len(rest) >= n + 3
          BY <4>1 DEF Size
        <5> QED
          BY <1>4, <2>1, <3>1, <4>1, <4>2, <5>1
      <4> QED
        BY <1>1, <1>2, <2>1, <3>6, <4>1, <4>3 DEF s
    <3>7. Size(data) < p + n + 5 \/ Size(data) >= p + n + 5
      BY <1>1
    <3> QED
      BY <3>5, <3>6, <3>7
  <2>5. Size(rest) = 0 \/ Size(rest) > 0
    BY <1>1, <1>7, <2>2
  <2> QED
    BY <2>3, <2>4, <2>5
<1>8. Size(data) < p + 2 \/ Size(data) >= p + 2
  BY <1>1
<1> QED
  BY <1>6, <1>7, <1>8

-----------------------------------------------------------------------------
(* What the stream holds: t[i] is what is left of it once i datagrams were *)
(* taken out. It replaces the recursive definition of all that was sent.   *)
Tails(t, s) ==
  /\ t \in [0 .. Size(s) -> Text]
  /\ t[Size(s)] = << >>
  /\ \A i \in 0 .. Size(s) - 1 : t[i] = Packet(s[i + 1]) \o t[i + 1]

Streamed(t) ==
  /\ status = "HANDSHAKE" => buf = << >> /\ delivered = << >> /\ wire = request \o t[0]
  /\ status \in {"UDP_FORWARD", "DESTROY"} => buf \o wire = t[Size(delivered)]

TypeInv ==
  /\ sender \in {"client", "forward", "server"} /\ status \in Status
  /\ request \in Text /\ wire \in Text /\ buf \in Text
  /\ sent \in Seq(Datagram) /\ delivered \in Seq(Datagram)

(* The header of a SOCKS5 client leaves less room for a payload.           *)
Fits(d) == sender = "client" => Size(d[2]) <= MaxLength - 3 - Size(d[1])

FramingInv ==
  /\ TypeInv
  /\ \A i \in 1 .. Size(sent) : Fits(sent[i])
  /\ Size(delivered) <= Size(sent)
  /\ \A i \in 1 .. Size(delivered) : delivered[i] = sent[i]
  /\ status = "HANDSHAKE" => \E a \in Addresses : request = Request(a)
  /\ status = "FORWARD" => Size(buf) < Size(request)
  /\ status = "DESTROY" =>
       /\ Size(delivered) < Size(sent) /\ sender # "client"
       /\ Size(Packet(sent[Size(delivered) + 1])) > MaxLength + 1
  /\ \E t : Tails(t, sent) /\ Streamed(t)

LEMMA SentFacts ==
  ASSUME NEW s \in Seq(Datagram)
  PROVE  /\ Size(s) \in Nat /\ \A i \in 1 .. Size(s) : s[i] \in Datagram
         /\ (s = << >> <=> Size(s) = 0)
BY DEF Size

LEMMA AppendFacts ==
  ASSUME NEW s \in Seq(Datagram), NEW d \in Datagram
  PROVE  /\ Append(s, d) \in Seq(Datagram) /\ Size(Append(s, d)) = Size(s) + 1
         /\ \A i \in 1 .. Size(s) : Append(s, d)[i] = s[i]
         /\ Append(s, d)[Size(s) + 1] = d
BY AppendProperties DEF Size

LEMMA PacketText ==
  ASSUME NEW d \in Datagram
  PROVE  /\ d[1] \in Addresses /\ d[2] \in Text /\ d = <<d[1], d[2]>>
         /\ Packet(d) \in Text /\ Size(Packet(d)) = Size(d[1]) + 4 + Size(d[2])
         /\ Size(d[1]) \in Nat /\ Size(d[2]) \in Nat
<1>1. d[1] \in Addresses /\ d[2] \in Text /\ d = <<d[1], d[2]>>
  BY DEF Datagram
<1>2. Size(d[1]) \in Nat /\ Size(d[2]) \in Nat
  BY <1>1, AddressFacts, TextFacts
<1>3. Packet(d) \in Text /\ Size(Packet(d)) = Size(d[1]) + 4 + Size(d[2])
  BY PacketFacts DEF PacketIs
<1> QED
  BY <1>1, <1>2, <1>3

(* A string that begins with all of s is s and what follows it.            *)
LEMMA SplitOff ==
  ASSUME NEW data \in Text, NEW s \in Text, NEW w \in Text, NEW r \in Text,
         data \o w = s \o r, Size(data) >= Size(s)
  PROVE  LET rest == Bytes(data, Size(s), Size(data) - Size(s)) IN
         rest \in Text /\ rest \o w = r
<1> DEFINE rest == Bytes(data, Size(s), Size(data) - Size(s))
<1>0. Size(data) \in Nat /\ Size(s) \in Nat
  BY TextFacts
<1>1. \A i \in 1 .. Size(data) : i <= Size(s) => data[i] = s[i]
  <2>1. Agrees(data, s)
    BY PrefixAgrees
  <2> QED
    BY <2>1 DEF Agrees
<1>2. Bytes(data, 0, Size(s)) = s
  <2>1. 0 + Size(s) <= Size(data) /\ \A i \in 1 .. Size(s) : data[0 + i] = s[i]
    BY <1>0, <1>1
  <2> QED
    BY <2>1, BytesAre
<1>3. rest \in Text /\ s \o rest = data
  <2>1. Size(s) \in 0 .. Size(data)
    BY <1>0
  <2>2. rest \in Text /\ Bytes(data, 0, Size(s)) \o rest = data
    BY <2>1, Cut
  <2> QED
    BY <1>2, <2>2
<1> HIDE DEF rest
<1>4. s \o (rest \o w) = s \o r
  <2>0. \A x, y, z \in Text : (x \o y) \o z = x \o (y \o z)
    BY ConcatLaws
  <2>1. (s \o rest) \o w = s \o (rest \o w)
    BY <1>3, <2>0, Zenon
  <2> QED
    BY <1>3, <2>1
<1>5. rest \o w \in Text
  BY <1>3, ConcatFacts
<1>6. rest \o w = r
  <2>0. \A x, y, z \in Text : x \o y = x \o z => y = z
    BY ConcatLaws
  <2> QED
    BY <1>4, <1>5, <2>0, Zenon
<1> QED
  BY <1>3, <1>6 DEF rest

(* What a receiver has before it: the next datagram, or nothing.           *)
LEMMA NextPacket ==
  ASSUME TypeInv, NEW t, Tails(t, sent), Size(delivered) <= Size(sent),
         buf \o wire = t[Size(delivered)]
  PROVE  LET k == Size(delivered)  d == sent[k + 1] IN
         /\ k = Size(sent) => Size(buf) = 0 /\ buf = << >> /\ PacketLen(buf) = 0
         /\ k < Size(sent) =>
              /\ d \in Datagram /\ t[k + 1] \in Text
              /\ buf \o wire = Packet(d) \o t[k + 1]
              /\ IF Size(buf) >= Size(Packet(d))
                 THEN /\ PacketLen(buf) = Size(Packet(d)) /\ PacketLen(buf) # 0
                      /\ Bytes(buf, 0, AddressLen(buf)) = d[1]
                      /\ Bytes(buf, AddressLen(buf) + 4, PayloadLen(buf)) = d[2]
                 ELSE PacketLen(buf) = 0
<1> DEFINE k == Size(delivered)  d == sent[k + 1]
<1>0. /\ k \in Nat /\ Size(sent) \in Nat /\ k <= Size(sent)
      /\ buf \in Text /\ wire \in Text /\ Size(buf) \in Nat /\ Size(wire) \in Nat
      /\ buf \o wire = t[k]
  BY SentFacts, TextFacts DEF TypeInv
<1>a. /\ t \in [0 .. Size(sent) -> Text] /\ t[Size(sent)] = << >>
      /\ \A i \in 0 .. Size(sent) - 1 : t[i] = Packet(sent[i + 1]) \o t[i + 1]
  BY DEF Tails
<1>b. \A i \in 1 .. Size(sent) : sent[i] \in Datagram
  BY SentFacts DEF TypeInv
<1> HIDE DEF k
<1>1. ASSUME k = Size(sent) PROVE Size(buf) = 0 /\ buf = << >> /\ PacketLen(buf) = 0
  <2>1. buf \o wire = << >>
    BY <1>0, <1>a, <1>1
  <2>2. Size(buf) + Size(wire) = Size(buf \o wire)
    BY <1>0, ConcatFacts
  <2>3. Size(<< >>) = 0
    BY ConcatLaws, TextFacts
  <2>4. Size(buf) = 0
    BY <1>0, <2>1, <2>2, <2>3
  <2>5. AddressLen(buf) = 0
    BY <1>0, <2>4, AddressIs DEF AddressCases
  <2>6. PacketLen(buf) = 0
    BY <2>5 DEF PacketLen
  <2> QED
    BY <1>0, <2>4, <2>6, TextFacts
<1>2. ASSUME k < Size(sent)
      PROVE  /\ d \in Datagram /\ t[k + 1] \in Text
             /\ buf \o wire = Packet(d) \o t[k + 1]
             /\ IF Size(buf) >= Size(Packet(d))
                THEN /\ PacketLen(buf) = Size(Packet(d)) /\ PacketLen(buf) # 0
                     /\ Bytes(buf, 0, AddressLen(buf)) = d[1]
                     /\ Bytes(buf, AddressLen(buf) + 4, PayloadLen(buf)) = d[2]
                ELSE PacketLen(buf) = 0
  <2>1. k \in 0 .. Size(sent) - 1 /\ k + 1 \in 0 .. Size(sent) /\ k + 1 \in 1 .. Size(sent)
    BY <1>0, <1>2
  <2>2. d \in Datagram /\ t[k + 1] \in Text /\ buf \o wire = Packet(d) \o t[k + 1]
    BY <1>0, <1>a, <1>b, <2>1
  <2> HIDE DEF d
  <2>3. Packet(d) \in Text /\ Size(Packet(d)) \in Nat /\ Size(Packet(d)) # 0
    <3>1. /\ Packet(d) \in Text /\ Size(Packet(d)) = Size(d[1]) + 4 + Size(d[2])
          /\ Size(d[1]) \in Nat /\ Size(d[2]) \in Nat
      BY <2>2, PacketText
    <3> QED
      BY <3>1
  <2>4. Agrees(buf, Packet(d))
    BY <1>0, <2>2, <2>3, PrefixAgrees
  <2>5. /\ Size(buf) < Size(Packet(d)) => PacketLen(buf) = 0
        /\ Size(buf) >= Size(Packet(d)) =>
             /\ PacketLen(buf) = Size(Packet(d)) /\ PacketLen(buf) # 0
             /\ Bytes(buf, 0, AddressLen(buf)) = d[1]
             /\ Bytes(buf, AddressLen(buf) + 4, PayloadLen(buf)) = d[2]
    BY <1>0, <2>2, <2>4, PacketPrefix
  <2> QED
    BY <1>0, <2>2, <2>3, <2>5
<1> QED
  BY <1>1, <1>2 DEF k

-----------------------------------------------------------------------------
(* FramingInv is inductive.                                                *)

LEMMA RequestText ==
  ASSUME NEW a \in Addresses
  PROVE  Request(a) \in Text /\ Size(Request(a)) \in Nat /\ Size(Request(a)) > 0
<1>1. Request(a) \in Text /\ Size(Request(a)) = Size(Password) + Size(a) + 5
  BY RequestFacts DEF RequestIs
<1>2. Password \in Text
  BY FramingAssumption DEF Text
<1>3. Size(Password) \in Nat /\ Size(a) \in Nat
  BY <1>2, TextFacts, AddressFacts
<1> QED
  BY <1>1, <1>3

LEMMA FramingInit == Init => FramingInv
<1> SUFFICES ASSUME Init PROVE FramingInv
  OBVIOUS
<1>1. << >> \in Seq(Datagram) /\ Size(<< >>) = 0 /\ << >> \in Text
  BY DEF Text, Size
<1>2. /\ sender \in {"client", "forward", "server"} /\ status \in {"HANDSHAKE", "UDP_FORWARD"}
      /\ status = "HANDSHAKE" => \E a \in Addresses : request = Request(a)
      /\ status = "UDP_FORWARD" => request = << >>
      /\ wire = request /\ buf = << >> /\ sent = << >> /\ delivered = << >>
  BY DEF Init
<1>3. request \in Text
  BY <1>1, <1>2, RequestText
<1>4. TypeInv
  BY <1>1, <1>2, <1>3 DEF TypeInv, Status
<1> DEFINE t == [i \in 0 .. 0 |-> << >>]
<1>5. Tails(t, sent) /\ t[0] = << >>
  BY <1>1, <1>2 DEF Tails
<1> HIDE DEF t
<1>6. Streamed(t)
  <2>1. request \o << >> = request /\ << >> \o << >> = << >>
    BY <1>1, <1>3, ConcatLaws
  <2>2. status = "HANDSHAKE" => buf = << >> /\ delivered = << >> /\ wire = request \o t[0]
    BY <1>2, <1>5, <2>1
  <2>3. status \in {"UDP_FORWARD", "DESTROY"} => buf \o wire = t[Size(delivered)]
    BY <1>1, <1>2, <1>5, <2>1
  <2> QED
    BY <2>2, <2>3 DEF Streamed
<1>7. \A i \in 1 .. Size(sent) : FALSE
  BY <1>1, <1>2
<1>8. Size(delivered) <= Size(sent) /\ \A i \in 1 .. Size(delivered) : FALSE
  BY <1>1, <1>2
<1> QED
  BY <1>2, <1>4, <1>5, <1>6, <1>7, <1>8 DEF FramingInv

(* What a sender reads is a datagram whose length fits.                    *)
LEMMA ReceivedFacts ==
  ASSUME NEW a \in Addresses, NEW p \in Payloads
  PROVE  Received(a, p) \in Datagram /\ Fits(Received(a, p))
<1> DEFINE room == IF sender = "client" THEN MaxLength - 3 - Len(a) ELSE MaxLength
           b == Bytes(p, 0, room)
<1>1. p \in Text /\ MaxLength \in Nat /\ MaxLength < 65536 /\ Len(a) \in Nat
  BY FramingAssumption, AddressFacts DEF Text, Size
<1>2. Len(a) + 3 <= MaxLength
  BY FramingAssumption
<1>3. room \in Nat /\ room <= MaxLength
  BY <1>1, <1>2
<1> HIDE DEF room
<1>4. b \in Text /\ Size(b) <= room
  BY <1>1, <1>3, BytesFacts
<1>5. Size(b) \in Nat
  BY <1>4, TextFacts
<1>6. Received(a, p) = <<a, b>>
  BY DEF Received, room
<1> HIDE DEF b
<1>7. Received(a, p) \in Datagram
  BY <1>1, <1>3, <1>4, <1>5, <1>6 DEF Datagram
<1>8. sender = "client" => room = MaxLength - 3 - Size(a)
  BY DEF room, Size
<1> QED
  BY <1>4, <1>6, <1>7, <1>8 DEF Fits

LEMMA SendStep == FramingInv /\ Send => FramingInv'
<1> SUFFICES ASSUME FramingInv, Send PROVE FramingInv'
  OBVIOUS
<1>1. PICK a \in Addresses, p \in Payloads :
        sent' = Append(sent, Received(a, p)) /\ wire' = wire \o Packet(Received(a, p))
  BY DEF Send
<1> DEFINE d == Received(a, p)  k == Size(sent)
<1>2. d \in Datagram /\ Fits(d)
  BY ReceivedFacts
<1>3. sent' = Append(sent, d) /\ wire' = wire \o Packet(d)
  BY <1>1
<1> HIDE DEF d
<1>4. UNCHANGED <<sender, request, status, buf, delivered>>
  BY DEF Send
<1>5. /\ TypeInv /\ Size(delivered) \in Nat /\ k \in Nat /\ Size(delivered) <= k
      /\ \A i \in 1 .. Size(delivered) : delivered[i] = sent[i]
      /\ \A i \in 1 .. k : Fits(sent[i])
  BY SentFacts DEF FramingInv, TypeInv
<1>6. /\ sent' \in Seq(Datagram) /\ Size(sent') = k + 1
      /\ \A i \in 1 .. k : sent'[i] = sent[i]
      /\ sent'[k + 1] = d
  BY <1>2, <1>3, <1>5, AppendFacts DEF TypeInv
<1>7. Packet(d) \in Text
  BY <1>2, PacketText
<1>8. wire' \in Text
  BY <1>3, <1>5, <1>7, ConcatFacts DEF TypeInv
<1>9. TypeInv'
  BY <1>4, <1>5, <1>6, <1>8 DEF TypeInv
<1>10. Size(delivered') = Size(delivered)
  BY <1>4
<1> HIDE DEF k
<1>0. k \in Nat /\ Size(delivered) \in Nat /\ Size(delivered) <= k
  BY <1>5
<1>11. (\A i \in 1 .. Size(sent) : Fits(sent[i]))'
  <2>1. ASSUME NEW i \in 1 .. k + 1 PROVE Fits(sent'[i])
    <3>1. CASE i \in 1 .. k
      BY <1>5, <1>6, <3>1
    <3>2. CASE i = k + 1
      BY <1>2, <1>6, <3>2
    <3> QED
      BY <1>0, <3>1, <3>2
  <2>2. \A i \in 1 .. k + 1 :
          sender' = "client" => Size(sent'[i][2]) <= MaxLength - 3 - Size(sent'[i][1])
    BY <1>4, <2>1 DEF Fits
  <2>3. \A i \in 1 .. Size(sent') :
          sender' = "client" => Size(sent'[i][2]) <= MaxLength - 3 - Size(sent'[i][1])
    BY <1>6, <2>2
  <2> QED
    BY <2>3 DEF Fits
<1>12. Size(delivered') <= Size(sent')
  BY <1>5, <1>6, <1>10
<1>13. \A i \in 1 .. Size(delivered') : delivered'[i] = sent'[i]
  BY <1>4, <1>5, <1>6, <1>10
<1>14. status' = "HANDSHAKE" => \E x \in Addresses : request' = Request(x)
  BY <1>4 DEF FramingInv
<1>15. status' = "FORWARD" => Size(buf') < Size(request')
  BY <1>4 DEF FramingInv
<1>16. status' = "DESTROY" =>
         /\ Size(delivered') < Size(sent') /\ sender' # "client"
         /\ Size(Packet(sent'[Size(delivered') + 1])) > MaxLength + 1
  <2> SUFFICES ASSUME status' = "DESTROY"
               PROVE  /\ Size(delivered') < Size(sent') /\ sender' # "client"
                      /\ Size(Packet(sent'[Size(delivered') + 1])) > MaxLength + 1
    OBVIOUS
  <2>1. /\ Size(delivered) < k /\ sender # "client"
        /\ Size(Packet(sent[Size(delivered) + 1])) > MaxLength + 1
    BY <1>4 DEF FramingInv, k
  <2>2. sent'[Size(delivered) + 1] = sent[Size(delivered) + 1]
    BY <1>5, <1>6, <2>1
  <2> QED
    BY <1>4, <1>5, <1>6, <1>10, <2>1, <2>2
<1>17. \E t : Tails(t, sent') /\ (Streamed(t))'
  <2>1. PICK t : Tails(t, sent) /\ Streamed(t)
    BY DEF FramingInv
  <2>2. /\ t \in [0 .. k -> Text] /\ t[k] = << >>
        /\ \A i \in 0 .. k - 1 : t[i] = Packet(sent[i + 1]) \o t[i + 1]
    BY <2>1 DEF Tails, k
  <2>0. PICK u : u = [i \in 0 .. k + 1 |-> IF i <= k THEN t[i] \o Packet(d) ELSE << >>]
    OBVIOUS
  <2>3. ASSUME NEW i \in 0 .. k PROVE u[i] = t[i] \o Packet(d)
    <3>1. i \in 0 .. k + 1 /\ i <= k
      BY <1>0
    <3> QED
      BY <2>0, <3>1
  <2>4. u[k + 1] = << >>
    BY <1>0, <2>0
  <2>5. u \in [0 .. k + 1 -> Text]
    <3>1. \A i \in 0 .. k : t[i] \o Packet(d) \in Text
      BY <1>7, <2>2, ConcatFacts
    <3>2. << >> \in Text
      BY ConcatLaws
    <3> QED
      BY <1>0, <2>0, <3>1, <3>2
  <2>6. ASSUME NEW i \in 0 .. k PROVE u[i] = Packet(sent'[i + 1]) \o u[i + 1]
    <3>1. CASE i = k
      <4>1. u[k] = << >> \o Packet(d)
        <5>1. k \in 0 .. k /\ t[k] = << >>
          BY <1>0, <2>2
        <5> QED
          BY <2>3, <5>1
      <4>2. \A x \in Text : x \o << >> = x /\ << >> \o x = x
        BY ConcatLaws
      <4> QED
        BY <1>6, <1>7, <2>4, <3>1, <4>1, <4>2
    <3>2. CASE i \in 0 .. k - 1
      <4>1. i + 1 \in 0 .. k /\ i + 1 \in 1 .. k
        BY <1>5, <3>2
      <4>2. /\ u[i] = (Packet(sent[i + 1]) \o t[i + 1]) \o Packet(d)
            /\ u[i + 1] = t[i + 1] \o Packet(d)
        BY <2>2, <2>3, <3>2, <4>1
      <4>3. t[i + 1] \in Text /\ sent'[i + 1] = sent[i + 1]
        BY <1>6, <2>2, <4>1
      <4>4. sent[i + 1] \in Datagram
        BY <1>5, <4>1, SentFacts DEF TypeInv, k
      <4>5. Packet(sent[i + 1]) \in Text
        BY <4>4, PacketText
      <4>6. \A x, y, z \in Text : (x \o y) \o z = x \o (y \o z)
        BY ConcatLaws
      <4>7. (Packet(sent[i + 1]) \o t[i + 1]) \o Packet(d)
              = Packet(sent[i + 1]) \o (t[i + 1] \o Packet(d))
        BY <1>7, <4>3, <4>5, <4>6
      <4> QED
        BY <4>2, <4>3, <4>7
    <3>3. i = k \/ i \in 0 .. k - 1
      BY <1>0
    <3> QED
      BY <3>1, <3>2, <3>3
  <2>7. Tails(u, sent')
    <3>1. \A i \in 0 .. (k + 1) - 1 : u[i] = Packet(sent'[i + 1]) \o u[i + 1]
      <4>1. (k + 1) - 1 = k
        BY <1>0
      <4> QED
        BY <2>6, <4>1
    <3> QED
      BY <1>6, <2>4, <2>5, <3>1 DEF Tails
  <2>8. \A x, y, z \in Text : (x \o y) \o z = x \o (y \o z)
    BY ConcatLaws
  <2>9. ASSUME status' = "HANDSHAKE"
        PROVE  buf' = << >> /\ delivered' = << >> /\ wire' = request' \o u[0]
    <3>1. buf = << >> /\ delivered = << >> /\ wire = request \o t[0]
      BY <1>4, <2>1, <2>9 DEF Streamed
    <3>2. 0 \in 0 .. k /\ t[0] \in Text /\ request \in Text
      BY <1>5, <2>2 DEF TypeInv
    <3>3. wire' = request \o (t[0] \o Packet(d))
      BY <1>3, <1>7, <2>8, <3>1, <3>2
    <3> QED
      BY <1>4, <2>3, <3>1, <3>2, <3>3
  <2>10. ASSUME status' \in {"UDP_FORWARD", "DESTROY"}
         PROVE  buf' \o wire' = u[Size(delivered')]
    <3>1. buf \o wire = t[Size(delivered)]
      BY <1>4, <2>1, <2>10 DEF Streamed
    <3>2. Size(delivered) \in 0 .. k /\ buf \in Text /\ wire \in Text
      BY <1>5 DEF TypeInv
    <3>3. buf \o wire' = (buf \o wire) \o Packet(d)
      BY <1>3, <1>7, <2>8, <3>2
    <3> QED
      BY <1>4, <1>10, <2>3, <3>1, <3>2, <3>3
  <2>11. (Streamed(u))'
    BY <2>9, <2>10 DEF Streamed
  <2> QED
    BY <2>7, <2>11
<1> QED
  BY <1>9, <1>11, <1>12, <1>13, <1>14, <1>15, <1>16, <1>17 DEF FramingInv

LEMMA ReadRequestStep == FramingInv /\ ReadRequest => FramingInv'
<1> SUFFICES ASSUME FramingInv, ReadRequest PROVE FramingInv'
  OBVIOUS
<1>1. PICK n \in 1 .. Min({MaxLength, Len(wire)}) :
        LET data == Bytes(wire, 0, n)  len == RequestLen(data) IN
        /\ status' = IF len # 0 THEN "UDP_FORWARD" ELSE "FORWARD"
        /\ buf' = Bytes(data, len, n - len)
        /\ wire' = Bytes(wire, n, Len(wire) - n)
  BY DEF ReadRequest
<1>2. /\ status = "HANDSHAKE"
      /\ UNCHANGED <<sender, request, sent, delivered>>
  BY DEF ReadRequest
<1>3. TypeInv
  BY DEF FramingInv
<1>4. PICK a \in Addresses : request = Request(a)
  BY <1>2 DEF FramingInv
<1>5. PICK t : Tails(t, sent) /\ Streamed(t)
  BY DEF FramingInv
<1>6. buf = << >> /\ delivered = << >> /\ wire = request \o t[0]
  BY <1>2, <1>5 DEF Streamed
<1>7. /\ request \in Text /\ Size(request) \in Nat /\ Size(request) > 0
  BY <1>4, RequestText
<1>8. Size(sent) \in Nat /\ Size(delivered) = 0 /\ t[0] \in Text
  <2>1. Size(sent) \in Nat /\ Size(delivered) = 0
    BY <1>3, <1>6, SentFacts DEF TypeInv
  <2> QED
    BY <1>5, <2>1 DEF Tails
<1>9. n \in Nat /\ n >= 1 /\ n <= Size(wire) /\ wire \in Text /\ Size(wire) \in Nat
  <2>1. MaxLength \in Nat /\ wire \in Text /\ Size(wire) \in Nat
    BY <1>3, FramingAssumption, TextFacts DEF TypeInv
  <2>2. Min({MaxLength, Size(wire)}) = IF MaxLength <= Size(wire) THEN MaxLength ELSE Size(wire)
    BY <2>1, MinOfTwo
  <2>3. n \in 1 .. Min({MaxLength, Size(wire)})
    BY DEF Size
  <2> QED
    BY <2>1, <2>2, <2>3
<1> DEFINE data == Bytes(wire, 0, n)  len == RequestLen(data)
<1>10. /\ data \in Text /\ Size(data) = n /\ wire' \in Text /\ data \o wire' = wire
  <2>1. n \in 0 .. Size(wire) /\ wire' = Bytes(wire, n, Size(wire) - n)
    BY <1>1, <1>9 DEF Size
  <2> QED
    BY <1>9, <2>1, Cut
<1>11. /\ status' = IF len # 0 THEN "UDP_FORWARD" ELSE "FORWARD"
       /\ buf' = Bytes(data, len, n - len)
  BY <1>1
<1> HIDE DEF data
<1>12. len = IF n >= Size(request) THEN Size(request) ELSE 0
  <2>1. data \o wire' = request \o t[0]
    BY <1>6, <1>10
  <2>2. Agrees(data, Request(a))
    BY <1>4, <1>7, <1>8, <1>10, <2>1, PrefixAgrees
  <2>3. RequestLen(data) =
          IF Size(data) >= Size(Request(a)) THEN Size(Request(a)) ELSE 0
    BY <1>10, <2>2, RequestPrefix
  <2> QED
    BY <1>4, <1>10, <2>3
<1> HIDE DEF len
<1>13. /\ buf' \in Text
       /\ status' = "UDP_FORWARD" => buf' \o wire' = t[0]
       /\ status' = "FORWARD" => Size(buf') < Size(request)
       /\ status' \in {"FORWARD", "UDP_FORWARD"}
  <2>1. CASE n >= Size(request)
    <3>1. len = Size(request) /\ status' = "UDP_FORWARD"
      BY <1>7, <1>11, <1>12, <2>1
    <3>2. buf' = Bytes(data, Size(request), Size(data) - Size(request))
      BY <1>10, <1>11, <3>1
    <3>3. data \o wire' = request \o t[0] /\ Size(data) >= Size(request)
      BY <1>6, <1>10, <2>1
    <3>4. buf' \in Text /\ buf' \o wire' = t[0]
      <4> DEFINE rest == Bytes(data, Size(request), Size(data) - Size(request))
      <4>1. data \in Text /\ request \in Text /\ wire' \in Text /\ t[0] \in Text
        BY <1>7, <1>8, <1>10
      <4>2. rest \in Text /\ rest \o wire' = t[0]
        BY <3>3, <4>1, SplitOff
      <4> QED
        BY <3>2, <4>2
    <3> QED
      BY <3>1, <3>4
  <2>2. CASE n < Size(request)
    <3>1. len = 0 /\ status' = "FORWARD" /\ buf' = Bytes(data, 0, n)
      BY <1>7, <1>9, <1>11, <1>12, <2>2
    <3>2. n \in Nat /\ 0 \in Nat
      BY <1>9
    <3>3. buf' \in Text /\ Size(buf') <= n
      BY <1>10, <3>1, <3>2, BytesFacts
    <3>4. Size(buf') \in Nat
      BY <3>3, TextFacts
    <3> QED
      BY <1>7, <1>9, <2>2, <3>1, <3>3, <3>4
  <2>3. n >= Size(request) \/ n < Size(request)
    BY <1>7, <1>9
  <2> QED
    BY <2>1, <2>2, <2>3
<1>14. TypeInv'
  BY <1>2, <1>3, <1>10, <1>13 DEF TypeInv, Status
<1>15. Tails(t, sent') /\ (Streamed(t))'
  BY <1>2, <1>5, <1>8, <1>13 DEF Streamed, Tails
<1>16. (\A i \in 1 .. Size(sent) : Fits(sent[i]))'
  BY <1>2 DEF FramingInv, Fits
<1>17. /\ Size(delivered') <= Size(sent')
       /\ \A i \in 1 .. Size(delivered') : delivered'[i] = sent'[i]
  BY <1>2 DEF FramingInv
<1> QED
  BY <1>2, <1>13, <1>14, <1>15, <1>16, <1>17 DEF FramingInv

LEMMA DeliverStep == FramingInv /\ Deliver => FramingInv'
<1> SUFFICES ASSUME FramingInv, Deliver PROVE FramingInv'
  OBVIOUS
<1> DEFINE k == Size(delivered)  d == sent[k + 1]
<1>1. /\ status = "UDP_FORWARD" /\ PacketLen(buf) # 0
      /\ delivered' = Append(delivered, <<Bytes(buf, 0, AddressLen(buf)),
                               Bytes(buf, AddressLen(buf) + 4, PayloadLen(buf))>>)
      /\ buf' = Bytes(buf, PacketLen(buf), Len(buf) - PacketLen(buf))
      /\ UNCHANGED <<sender, request, status, wire, sent>>
  BY DEF Deliver
<1>2. TypeInv /\ k <= Size(sent)
  BY DEF FramingInv
<1>3. PICK t : Tails(t, sent) /\ Streamed(t)
  BY DEF FramingInv
<1>4. buf \o wire = t[k]
  BY <1>1, <1>3 DEF Streamed
<1>5. /\ k \in Nat /\ Size(sent) \in Nat /\ buf \in Text /\ wire \in Text
      /\ Size(buf) \in Nat
  BY <1>2, SentFacts, TextFacts DEF TypeInv
<1>6. /\ k < Size(sent) /\ d \in Datagram /\ t[k + 1] \in Text
      /\ buf \o wire = Packet(d) \o t[k + 1]
      /\ PacketLen(buf) = Size(Packet(d)) /\ Size(buf) >= Size(Packet(d))
      /\ Bytes(buf, 0, AddressLen(buf)) = d[1]
      /\ Bytes(buf, AddressLen(buf) + 4, PayloadLen(buf)) = d[2]
  <2>1. k # Size(sent)
    BY <1>1, <1>2, <1>3, <1>4, NextPacket
  <2>2. k < Size(sent)
    BY <1>2, <1>5, <2>1
  <2>3. /\ d \in Datagram /\ t[k + 1] \in Text
        /\ buf \o wire = Packet(d) \o t[k + 1]
        /\ IF Size(buf) >= Size(Packet(d))
           THEN /\ PacketLen(buf) = Size(Packet(d)) /\ PacketLen(buf) # 0
                /\ Bytes(buf, 0, AddressLen(buf)) = d[1]
                /\ Bytes(buf, AddressLen(buf) + 4, PayloadLen(buf)) = d[2]
           ELSE PacketLen(buf) = 0
    BY <1>2, <1>3, <1>4, <2>2, NextPacket
  <2> QED
    BY <1>1, <2>2, <2>3
<1> HIDE DEF d
<1>7. Packet(d) \in Text /\ d = <<d[1], d[2]>>
  BY <1>6, PacketText
<1>8. delivered' = Append(delivered, d)
  BY <1>1, <1>6, <1>7
<1>9. buf' \in Text /\ buf' \o wire = t[k + 1]
  <2>1. buf' = Bytes(buf, Size(Packet(d)), Size(buf) - Size(Packet(d)))
    BY <1>1, <1>6 DEF Size
  <2> QED
    BY <1>5, <1>6, <1>7, <2>1, SplitOff
<1>10. /\ delivered' \in Seq(Datagram) /\ Size(delivered') = k + 1
       /\ \A i \in 1 .. k : delivered'[i] = delivered[i]
       /\ delivered'[k + 1] = d
  BY <1>2, <1>6, <1>8, AppendFacts DEF TypeInv
<1>11. TypeInv'
  BY <1>1, <1>2, <1>9, <1>10 DEF TypeInv
<1>12. Size(delivered') <= Size(sent')
  BY <1>1, <1>5, <1>6, <1>10
<1>13. \A i \in 1 .. Size(delivered') : delivered'[i] = sent'[i]
  <2>1. \A i \in 1 .. k : delivered[i] = sent[i]
    BY DEF FramingInv
  <2>2. delivered'[k + 1] = sent[k + 1]
    BY <1>10 DEF d
  <2> HIDE DEF k
  <2>3. ASSUME NEW i \in 1 .. k + 1 PROVE delivered'[i] = sent[i]
    <3>1. i \in 1 .. k \/ i = k + 1
      BY <1>5
    <3> QED
      BY <1>10, <2>1, <2>2, <3>1
  <2> QED
    BY <1>1, <1>10, <2>3
<1>14. Tails(t, sent') /\ (Streamed(t))'
  BY <1>1, <1>3, <1>9, <1>10 DEF Streamed, Tails
<1>15. (\A i \in 1 .. Size(sent) : Fits(sent[i]))'
  BY <1>1 DEF FramingInv, Fits
<1> QED
  BY <1>1, <1>11, <1>12, <1>13, <1>14, <1>15 DEF FramingInv

LEMMA DestroyStep == FramingInv /\ Destroy => FramingInv'
<1> SUFFICES ASSUME FramingInv, Destroy PROVE FramingInv'
  OBVIOUS
<1> DEFINE k == Size(delivered)  d == sent[k + 1]
<1>1. /\ status = "UDP_FORWARD" /\ PacketLen(buf) = 0 /\ Size(buf) > MaxLength
      /\ status' = "DESTROY"
      /\ UNCHANGED <<sender, request, wire, buf, sent, delivered>>
  BY DEF Destroy, TooLong, Size
<1>2. TypeInv /\ k <= Size(sent)
  BY DEF FramingInv
<1>3. PICK t : Tails(t, sent) /\ Streamed(t)
  BY DEF FramingInv
<1>4. buf \o wire = t[k]
  BY <1>1, <1>3 DEF Streamed
<1>5. /\ k \in Nat /\ Size(sent) \in Nat /\ Size(buf) \in Nat /\ MaxLength \in Nat
  BY <1>2, FramingAssumption, SentFacts, TextFacts DEF TypeInv
<1>6. k < Size(sent) /\ d \in Datagram /\ Size(buf) < Size(Packet(d))
  <2>1. k # Size(sent)
    <3>1. Size(buf) # 0
      BY <1>1, <1>5
    <3> QED
      BY <1>2, <1>3, <1>4, <3>1, NextPacket
  <2>2. k < Size(sent)
    BY <1>2, <1>5, <2>1
  <2>3. /\ d \in Datagram
        /\ IF Size(buf) >= Size(Packet(d)) THEN PacketLen(buf) # 0 ELSE TRUE
    BY <1>2, <1>3, <1>4, <2>2, NextPacket
  <2>4. Size(Packet(d)) \in Nat
    BY <2>3, PacketText, TextFacts
  <2> QED
    BY <1>1, <1>5, <2>2, <2>3, <2>4
<1>7. Fits(d)
  <2>1. k + 1 \in 1 .. Size(sent)
    BY <1>5, <1>6
  <2> QED
    BY <2>1 DEF FramingInv
<1> HIDE DEF d
<1>8. /\ Size(Packet(d)) = Size(d[1]) + 4 + Size(d[2])
      /\ Size(d[1]) \in Nat /\ Size(d[2]) \in Nat
  BY <1>6, PacketText
<1>9. Size(Packet(d)) > MaxLength + 1
  BY <1>1, <1>5, <1>6, <1>8
<1>10. sender # "client"
  BY <1>5, <1>7, <1>8, <1>9 DEF Fits
<1>11. TypeInv'
  BY <1>1, <1>2 DEF TypeInv, Status
<1>12. Tails(t, sent') /\ (Streamed(t))'
  BY <1>1, <1>3, <1>4 DEF Streamed, Tails
<1>13. (\A i \in 1 .. Size(sent) : Fits(sent[i]))'
  BY <1>1 DEF FramingInv, Fits
<1>14. /\ Size(delivered') <= Size(sent')
       /\ \A i \in 1 .. Size(delivered') : delivered'[i] = sent'[i]
  BY <1>1 DEF FramingInv
<1>15. /\ Size(delivered') < Size(sent') /\ sender' # "client"
       /\ Size(Packet(sent'[Size(delivered') + 1])) > MaxLength + 1
  BY <1>1, <1>6, <1>9, <1>10 DEF d
<1> QED
  BY <1>1, <1>11, <1>12, <1>13, <1>14, <1>15 DEF FramingInv

LEMMA ReadStep == FramingInv /\ Read => FramingInv'
<1> SUFFICES ASSUME FramingInv, Read PROVE FramingInv'
  OBVIOUS
<1>1. PICK n \in 1 .. Min({MaxLength, Len(wire)}) :
        buf' = buf \o Bytes(wire, 0, n) /\ wire' = Bytes(wire, n, Len(wire) - n)
  BY DEF Read
<1>2. status = "UDP_FORWARD" /\ UNCHANGED <<sender, request, status, sent, delivered>>
  BY DEF Read
<1>3. /\ TypeInv /\ buf \in Text /\ wire \in Text /\ Size(wire) \in Nat
      /\ MaxLength \in Nat
  BY FramingAssumption, TextFacts DEF FramingInv, TypeInv
<1>4. n \in 0 .. Size(wire)
  <2>1. Min({MaxLength, Size(wire)}) = IF MaxLength <= Size(wire) THEN MaxLength ELSE Size(wire)
    BY <1>3, MinOfTwo
  <2>2. n \in 1 .. Min({MaxLength, Size(wire)})
    BY DEF Size
  <2> QED
    BY <1>3, <2>1, <2>2
<1> DEFINE u == Bytes(wire, 0, n)
<1>5. u \in Text /\ wire' \in Text /\ u \o wire' = wire /\ buf' = buf \o u
  <2>1. wire' = Bytes(wire, n, Size(wire) - n)
    BY <1>1 DEF Size
  <2> QED
    BY <1>1, <1>3, <1>4, <2>1, Cut
<1> HIDE DEF u
<1>6. buf' \in Text
  BY <1>3, <1>5, ConcatFacts
<1>7. buf' \o wire' = buf \o wire
  <2>1. \A x, y, z \in Text : (x \o y) \o z = x \o (y \o z)
    BY ConcatLaws
  <2>2. u \in Text /\ wire' \in Text /\ buf \in Text
    BY <1>3, <1>5
  <2>3. (buf \o u) \o wire' = buf \o (u \o wire')
    BY <2>1, <2>2
  <2> QED
    BY <1>5, <2>3
<1>8. PICK t : Tails(t, sent) /\ Streamed(t)
  BY DEF FramingInv
<1>9. TypeInv'
  BY <1>2, <1>3, <1>5, <1>6 DEF TypeInv
<1>10. Tails(t, sent') /\ (Streamed(t))'
  BY <1>2, <1>7, <1>8 DEF Streamed, Tails
<1>11. (\A i \in 1 .. Size(sent) : Fits(sent[i]))'
  BY <1>2 DEF FramingInv, Fits
<1>12. /\ Size(delivered') <= Size(sent')
       /\ \A i \in 1 .. Size(delivered') : delivered'[i] = sent'[i]
  BY <1>2 DEF FramingInv
<1> QED
  BY <1>2, <1>9, <1>10, <1>11, <1>12 DEF FramingInv

LEMMA FramingInvariant == Spec => []FramingInv
<1>1. Init => FramingInv
  BY FramingInit
<1>2. FramingInv /\ [Next]_vars => FramingInv'
  <2> SUFFICES ASSUME FramingInv, [Next]_vars PROVE FramingInv'
    OBVIOUS
  <2>1. CASE Send
    BY <2>1, SendStep
  <2>2. CASE ReadRequest
    BY <2>2, ReadRequestStep
  <2>3. CASE Deliver
    BY <2>3, DeliverStep
  <2>4. CASE Destroy
    BY <2>4, DestroyStep
  <2>5. CASE Read
    BY <2>5, ReadStep
  <2>6. CASE UNCHANGED vars
    BY <2>6 DEF vars, FramingInv, TypeInv, Fits, Streamed, Tails
  <2> QED
    BY <2>1, <2>2, <2>3, <2>4, <2>5, <2>6 DEF Next
<1> QED
  BY <1>1, <1>2, PTL DEF Spec

(* Whatever the reads cut: datagrams come out as they went in, none is     *)
(* left when all was read, and only a request that was split is taken for  *)
(* a stranger.                                                             *)
THEOREM DatagramsFramed == Spec => []Framed
<1>1. FramingInv => Framed
  <2> SUFFICES ASSUME FramingInv PROVE Framed
    OBVIOUS
  <2>1. TypeInv /\ Size(delivered) <= Size(sent)
        /\ \A i \in 1 .. Size(delivered) : delivered[i] = sent[i]
    BY DEF FramingInv
  <2>2. Size(delivered) \in Nat /\ Size(sent) \in Nat
    BY <2>1, SentFacts DEF TypeInv
  <2>3. IsPrefix(delivered, sent)
    <3>1. /\ delivered \in Seq(Datagram) /\ sent \in Seq(Datagram)
          /\ Len(delivered) \in Nat /\ Len(sent) \in Nat /\ Len(delivered) <= Len(sent)
          /\ \A i \in 1 .. Len(delivered) : delivered[i] = sent[i]
      BY <2>1, <2>2 DEF TypeInv, Size
    <3> DEFINE b == SubSeq(delivered, 1, Len(delivered))  c == SubSeq(sent, 1, Len(delivered))
    <3>2. b = c
      BY <3>1
    <3> QED
      BY <3>1, <3>2 DEF IsPrefix
  <2>4. ASSUME status = "UDP_FORWARD", wire = << >>, PacketLen(buf) = 0
        PROVE  buf = << >> /\ delivered = sent
    <3>1. PICK t : Tails(t, sent) /\ Streamed(t)
      BY DEF FramingInv
    <3>2. buf \o wire = t[Size(delivered)]
      BY <2>4, <3>1 DEF Streamed
    <3>3. buf \o wire = buf /\ buf \in Text /\ Size(buf) \in Nat
      BY <2>1, <2>4, ConcatLaws, TextFacts DEF TypeInv
    <3>4. Size(delivered) = Size(sent)
      <4> SUFFICES ASSUME Size(delivered) < Size(sent) PROVE FALSE
        BY <2>1, <2>2
      <4> DEFINE k == Size(delivered)  d == sent[k + 1]
      <4>1. /\ d \in Datagram /\ t[k + 1] \in Text
            /\ buf \o wire = Packet(d) \o t[k + 1]
            /\ IF Size(buf) >= Size(Packet(d)) THEN PacketLen(buf) # 0 ELSE TRUE
        BY <2>1, <3>1, <3>2, NextPacket
      <4> HIDE DEF d, k
      <4>2. Packet(d) \in Text
        BY <4>1, PacketText
      <4>3. Size(buf) = Size(Packet(d)) + Size(t[k + 1])
        BY <3>3, <4>1, <4>2, ConcatFacts
      <4>4. Size(Packet(d)) \in Nat /\ Size(t[k + 1]) \in Nat
        BY <4>1, <4>2, TextFacts
      <4> QED
        BY <2>4, <4>1, <4>3, <4>4
    <3>5. buf = << >>
      BY <2>1, <3>1, <3>2, <3>4, NextPacket
    <3>6. delivered = sent
      <4>1. /\ delivered \in Seq(Datagram) /\ sent \in Seq(Datagram)
            /\ Len(delivered) = Len(sent)
            /\ \A i \in 1 .. Len(delivered) : delivered[i] = sent[i]
        BY <2>1, <3>4 DEF TypeInv, Size
      <4> QED
        BY <4>1, SeqEqual
    <3> QED
      BY <3>5, <3>6
  <2>5. status = "FORWARD" => Len(buf) < Len(request)
    BY DEF FramingInv, Size
  <2> QED
    BY <2>3, <2>4, <2>5 DEF Framed
<1> QED
  BY <1>1, FramingInvariant, PTL

(* "UDP packet too long" ends an association only at a datagram that is    *)
(* longer than its receiver allows, and a SOCKS5 client cannot send one.   *)
THEOREM OnlyLongIsCut == Spec => []CutIsLong
<1>1. FramingInv => CutIsLong
  BY DEF FramingInv, CutIsLong, Size
<1> QED
  BY <1>1, FramingInvariant, PTL

=============================================================================
