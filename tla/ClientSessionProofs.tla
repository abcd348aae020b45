------------------------ MODULE ClientSessionProofs ------------------------
(* Theorems about ClientSession, for all values of its constants: which    *)
(* operations are in flight; then what it relays: nothing is lost or       *)
(* reordered, the session is never forgotten, a closed client side is      *)
(* quiet, and Relay is implemented. At the end the same of ForwardSession, *)
(* whose handlers are those of ClientSession.                              *)
EXTENDS ForwardSession, AsioProofs

(* What in_sent starts in REQUEST: the read of the TCP connection, then    *)
(* for a UDP ASSOCIATE that of the datagrams.                              *)
LEMMA ConnectReadsSplit ==
  ASSUME NEW o, NEW u \in ConnectReads(o)
  PROVE  \E r \in Begin(o, "in_read", in_open,
                        IF is_udp THEN "CONNECT" \in StrayIn ELSE MoreUp(o)) :
           u \in IF is_udp THEN UdpAsyncRead(r) ELSE {r}
<1>1. CASE is_udp
  BY <1>1 DEF ConnectReads
<1>2. CASE ~ is_udp
  BY <1>2 DEF ConnectReads, InAsyncRead
<1> QED
  BY <1>1, <1>2

(* destroy() leaves an operation table.                                    *)
LEMMA DestroyType ==
  ASSUME Types, NEW o, IsOps(o, Kinds), Destroy(o)
  PROVE  /\ status' \in Status /\ in_open' \in BOOLEAN /\ udp_open' \in BOOLEAN
         /\ IsOps(ops', Kinds)
<1> DEFINE client == Cancel(o, InOps \cup UdpOps \cup {"resolve"})
           tunnel == Cancel(client, OutOps \cup {"timer"})
<1>1. IsOps(client, Kinds) /\ IsOps(tunnel, Kinds)
  BY CancelType
<1>2. \A s \in Begin(tunnel, "shutdown", TRUE, TRUE) :
         IsOps(Add(s, "timer", "waiting"), Kinds)
  <2> TAKE s \in Begin(tunnel, "shutdown", TRUE, TRUE)
  <2> HIDE DEF tunnel
  <2>1. "shutdown" \in Kinds /\ "timer" \in Kinds /\ "waiting" \in Phase
    BY DEF Kinds, OutOps, Phase
  <2>2. IsOps(s, Kinds)
    BY <1>1, <2>1, BeginType
  <2> QED
    BY <2>1, <2>2, AddType
<1>3. IsOps(ops', Kinds)
  BY <1>1, <1>2 DEF Destroy, CloseAll, Shutdown
<1> QED
  BY <1>3 DEF Destroy, CloseAll, Types, Status

(* Type correctness.                                                       *)
LEMMA TypeStep ==
  ASSUME Types, [Next]_vars
  PROVE  Types'
<1> USE DEF Types
<1>k. /\ \A k \in InOps \cup UdpOps \cup OutOps \cup {"resolve", "timer"} : k \in Kinds
      /\ \A k \in {"in_read", "in_write"} : k \in InOps
      /\ \A k \in {"udp_read", "udp_write"} : k \in UdpOps
      /\ \A k \in {"connect", "handshake", "out_read", "out_write", "shutdown"} : k \in OutOps
      /\ \A p \in {"waiting", "ready", "failed", "aborted"} : p \in Phase
  BY DEF Kinds, InOps, UdpOps, OutOps, Phase
<1>c. \A k \in Kinds : \A o \in Completed(ops, k) : IsOps(o, Kinds)
  BY CompletedType
<1>b. \A o, k, open, atOnce : IsOps(o, Kinds) /\ k \in Kinds =>
        \A r \in Begin(o, k, open, atOnce) : IsOps(r, Kinds)
  BY BeginType
<1>a. \A s \in Seq(Int), x \in Int : Append(s, x) \in Seq(Int)
  OBVIOUS
<1>1. CASE InRecvHandshake
  BY <1>1, <1>k, <1>c, <1>b, DestroyType DEF InRecvHandshake, InAsyncWrite, Status,
     uplink, downlink
<1>2. CASE InRecvRequest
  <2>1. PICK o \in Completed(ops, "in_read") :
       \/ Destroy(o) /\ UNCHANGED <<is_udp, out_write_buf>>
       \/ /\ status' = "INVALID"
          /\ out_write_buf' = <<Header>>
          /\ ops' \in InAsyncWrite(o)
          /\ UNCHANGED <<is_udp, in_open, udp_open>>
       \/ \E c \in Commands :
            /\ is_udp' = (c = "UDP_ASSOCIATE")
            /\ out_write_buf' = <<Header>>
            /\ \/ /\ udp_open' = is_udp'
                  /\ ops' \in InAsyncWrite(o)
                  /\ UNCHANGED <<status, in_open>>
               \/ c = "UDP_ASSOCIATE" /\ Destroy(o)
    BY <1>2 DEF InRecvRequest
  <2>2. IsOps(o, Kinds)
    BY <1>k, <1>c
  <2>3. IsOps(ops', Kinds) /\ status' \in Status /\ in_open' \in BOOLEAN /\ udp_open' \in BOOLEAN
    BY <2>1, <2>2, <1>k, <1>b, DestroyType DEF InAsyncWrite, Status
  <2>4. is_udp' \in BOOLEAN
    BY <2>1
  <2>5. out_write_buf' \in Seq(Int)
    <3>1. <<Header>> \in Seq(Int)
      BY DEF Header
    <3> QED
      BY <2>1, <3>1
  <2> QED
    BY <1>2, <2>3, <2>4, <2>5 DEF InRecvRequest, downlink
<1>3. CASE InRecvConnect
  BY <1>3, <1>k, <1>c, <1>b DEF InRecvConnect, Buffered, sockets, downlink, Stray
<1>4. CASE InRecvForward
  <2>1. IsOps(ops', Kinds)
    BY <1>4, <1>k, <1>c, <1>b DEF InRecvForward, OutAsyncWrite
  <2> QED
    BY <1>4, <2>1, <1>a DEF InRecvForward, conn, sockets, downlink
<1>5. CASE InRecvUdpForward
  BY <1>5, <1>k, <1>c, <1>b, DestroyType DEF InRecvUdpForward, uplink, downlink
<1>6. CASE Dropped
  BY <1>6, <1>k, RemoveType DEF Dropped, conn, sockets, uplink, downlink
<1>7. CASE InSentHandshake
  BY <1>7, <1>k, <1>c, <1>b DEF InSentHandshake, Status, sockets, uplink, downlink
<1>8. CASE InSentRequest
  <2>1. PICK o \in Completed(ops, "in_write") :
          \E r \in Begin(o, "in_read", in_open,
                      IF is_udp THEN "CONNECT" \in StrayIn ELSE MoreUp(o)) :
           \E u \in IF is_udp THEN UdpAsyncRead(r) ELSE {r} :
             ops' = Add(u, "resolve", "waiting")
    BY <1>8, ConnectReadsSplit DEF InSentRequest
  <2>2. PICK r \in Begin(o, "in_read", in_open,
                      IF is_udp THEN "CONNECT" \in StrayIn ELSE MoreUp(o)) :
           \E u \in IF is_udp THEN UdpAsyncRead(r) ELSE {r} :
             ops' = Add(u, "resolve", "waiting")
    BY <2>1
  <2>3. IsOps(r, Kinds)
    BY <1>k, <1>c, <1>b
  <2>4. IsOps(ops', Kinds)
    BY <2>2, <2>3, <1>k, <1>b, AddType DEF UdpAsyncRead
  <2> QED
    BY <1>8, <2>4 DEF InSentRequest, Status, sockets, uplink, downlink
<1>9. CASE InSentForward
  BY <1>9, <1>k, <1>c, <1>b DEF InSentForward, OutAsyncRead, conn, sockets, uplink, downlink
<1>10. CASE InSentInvalid
  BY <1>10, <1>k, <1>c, DestroyType DEF InSentInvalid, uplink, downlink
<1>11. CASE Resolved
  BY <1>11, <1>k, <1>b, RemoveType, DestroyType DEF Resolved, uplink, downlink
<1>12. CASE Connected
  BY <1>12, <1>k, <1>c, <1>b DEF Connected, conn, sockets, uplink, downlink
<1>13. CASE Established
  <2>1. PICK o \in Completed(ops, "handshake") :
          \E r \in OutAsyncRead(ReadReplaced(o)) : ops' \in OutAsyncWrite(r)
    BY <1>13 DEF Established
  <2>2. IsOps(ReadReplaced(o), Kinds)
    BY <1>k, <1>c, CancelType DEF ReadReplaced
  <2>3. IsOps(ops', Kinds)
    BY <2>1, <2>2, <1>k, <1>b DEF OutAsyncRead, OutAsyncWrite
  <2> QED
    BY <1>13, <2>3 DEF Established, FirstFlight, Status, sockets, downlink
<1>14. CASE OutRecvForward
  <2>1. IsOps(ops', Kinds)
    BY <1>14, <1>k, <1>c, <1>b DEF OutRecvForward, InAsyncWrite
  <2> QED
    BY <1>14, <2>1, <1>a DEF OutRecvForward, conn, sockets, uplink
<1>15. ASSUME NEW o, IsOps(o, Kinds), NEW buf \in Seq(Int), UdpSentWith(o, buf)
       PROVE  /\ udp_data_buf' \in Seq(Int) /\ to_client' \in Seq(Int)
              /\ status' \in Status /\ in_open' \in BOOLEAN /\ udp_open' \in BOOLEAN
              /\ IsOps(ops', Kinds)
  <2>1. CASE buf # << >>
    <3>1. IsOps(ops', Kinds)
      BY <2>1, <1>15, <1>k, <1>b DEF UdpSentWith, UdpAsyncWrite
    <3>2. Tail(buf) \in Seq(Int) /\ Head(buf) \in Int
      BY <2>1
    <3> QED
      BY <2>1, <1>15, <3>1, <3>2, <1>a DEF UdpSentWith, RestPackets
  <2>2. CASE buf = << >>
    BY <2>2, <1>15, <1>k, <1>b, DestroyType DEF UdpSentWith
  <2> QED
    BY <2>1, <2>2
<1>16. CASE OutRecvUdpForward
  <2>1. PICK o \in Completed(ops, "out_read"), n \in down_taken..MaxDown :
          /\ down_taken' = n
          /\ UdpSentWith(o, udp_data_buf \o
                            [i \in 1..(n - down_taken) |-> down_taken + i])
    BY <1>16 DEF OutRecvUdpForward
  <2>2. n \in Nat /\ n - down_taken \in Nat
    BY BoundsAssumption
  <2>3. [i \in 1..(n - down_taken) |-> down_taken + i] \in Seq(Int)
    BY <2>2
  <2>4. udp_data_buf \o [i \in 1..(n - down_taken) |-> down_taken + i] \in Seq(Int)
    BY <2>3
  <2> QED
    BY <2>1, <2>2, <2>4, <1>15, <1>16, <1>k, <1>c DEF OutRecvUdpForward, uplink
<1>17. CASE UdpSent
  BY <1>17, <1>15, <1>k, <1>c DEF UdpSent, uplink
<1>18. CASE OutSent
  BY <1>18, <1>k, <1>c, <1>b DEF OutSent, NextRead, InAsyncRead, UdpAsyncRead, conn, sockets, uplink,
     downlink
<1>19. CASE UdpRecvEmpty
  BY <1>19, <1>k, <1>c DEF UdpRecvEmpty, conn, sockets, downlink
<1>20. CASE UdpRecvBad
  BY <1>20, <1>k, <1>c, DestroyType DEF UdpRecvBad, uplink, downlink
<1>21. CASE UdpRecvConnect
  BY <1>21, <1>k, <1>c DEF UdpRecvConnect, Buffered, sockets, downlink
<1>22. CASE UdpRecvForward
  <2>1. IsOps(ops', Kinds)
    BY <1>22, <1>k, <1>c, <1>b DEF UdpRecvForward, OutAsyncWrite
  <2> QED
    BY <1>22, <2>1, <1>a DEF UdpRecvForward, conn, sockets, downlink
<1>23. CASE Fail
  <2>1. PICK k \in Kinds, p \in Phase : ops[p][k] > 0 /\ Destroy(Remove(ops, k, p))
    BY <1>23, <1>k DEF Fail
  <2> QED
    BY <2>1, <1>23, RemoveType, DestroyType DEF Fail, uplink, downlink
<1>24. CASE IgnoreAbort
  BY <1>24, <1>k, RemoveType DEF IgnoreAbort, conn, sockets, uplink, downlink
<1>25. CASE ShutdownDone
  BY <1>25, <1>k, <1>c, CancelType DEF ShutdownDone, conn, uplink, downlink
<1>26. CASE Perform
  <2>1. PICK k \in Kinds : ops["waiting"][k] > 0 /\
          ops' = Add(Remove(ops, k, "waiting"), k, "ready")
    BY <1>26 DEF Perform
  <2> QED
    BY <2>1, <1>26, <1>k, RemoveType, AddType DEF Perform, conn, sockets, uplink, downlink
<1>27. CASE UNCHANGED vars
  BY <1>27 DEF vars, conn, sockets, uplink, downlink
<1> QED
  BY <1>1, <1>2, <1>3, <1>4, <1>5, <1>6, <1>7, <1>8, <1>9, <1>10, <1>11, <1>12,
     <1>13, <1>14, <1>16, <1>17, <1>18, <1>19, <1>20, <1>21, <1>22, <1>23, <1>24,
     <1>25, <1>26, <1>27 DEF Next, Proceed

LEMMA TypeInit == Init => Types
<1> SUFFICES ASSUME Init PROVE Types
  OBVIOUS
<1>1. "in_read" \in Kinds
  BY DEF Kinds, InOps
<1>2. IsOps(ops, Kinds)
  BY <1>1, NoOpsType, BeginType DEF Init
<1>3. << >> \in Seq(Int)
  OBVIOUS
<1> QED
  BY <1>2, <1>3 DEF Init, Types, Status

(* Every reachable state is well typed: in particular no operation count   *)
(* ever becomes negative, so every handler that runs was started.          *)
LEMMA TypesAlways == Spec => []Types
<1>1. Init => Types
  BY TypeInit
<1>2. Types /\ [Next]_vars => Types'
  BY TypeStep
<1> QED
  BY <1>1, <1>2, PTL DEF Spec

-----------------------------------------------------------------------------
(* One operation in flight per direction.                                  *)

LEMMA KindsFacts ==
  /\ \A k \in {"in_read", "in_write"} : k \in InOps /\ k \notin UdpOps /\ k \in Kinds
  /\ \A k \in {"udp_read", "udp_write"} : k \in UdpOps /\ k \notin InOps /\ k \in Kinds
  /\ \A k \in {"connect", "handshake", "out_read", "out_write", "shutdown", "resolve", "timer"} :
       k \in Kinds /\ k \notin InOps /\ k \notin UdpOps
  /\ InOps = {"in_read", "in_write"} /\ UdpOps = {"udp_read", "udp_write"}
  /\ Kinds = {"in_read", "in_write", "udp_read", "udp_write", "connect", "handshake",
              "out_read", "out_write", "shutdown", "resolve", "timer"}
  /\ Phase = {"waiting", "ready", "failed", "aborted"}
BY DEF Kinds, InOps, UdpOps, OutOps, Phase

LEMMA KindsIn ==
  {"in_read", "in_write", "udp_read", "udp_write", "connect", "handshake",
   "out_read", "out_write", "shutdown", "resolve", "timer"} \subseteq Kinds
BY DEF Kinds, InOps, UdpOps, OutOps

LEMMA ChainPositive ==
  ASSUME Types, Live("resolve") > 0 \/ Live("connect") > 0 \/ Live("handshake") > 0
  PROVE  Chain # 0
<1>1. Live("resolve") \in Nat /\ Live("connect") \in Nat /\ Live("handshake") \in Nat
  BY KindsIn, OutstandingNat DEF Live, Types
<1>2. Live("resolve") + Live("connect") + Live("handshake") > 0
  BY <1>1
<1> QED
  BY <1>2 DEF Chain

LEMMA PhaseNat ==
  ASSUME NEW o, IsOps(o, Kinds), NEW k \in Kinds
  PROVE  /\ o["waiting"][k] \in Nat /\ o["ready"][k] \in Nat
         /\ o["failed"][k] \in Nat /\ o["aborted"][k] \in Nat
BY DEF IsOps, Phase

(* A step in which destroy() ran keeps the invariant: the client side is   *)
(* closed.                                                                 *)
LEMMA DestroyPump ==
  ASSUME Types, PumpInv, NEW o, Destroy(o)
  PROVE  PumpInv'
BY DEF PumpInv, ModeInv, PreludeInv, Destroy, CloseAll, Types

(* A step that leaves status, the sockets, is_udp and the outstanding      *)
(* operations alone keeps it, if no client read becomes ready.             *)
LEMMA SamePump ==
  ASSUME Types, PumpInv, UNCHANGED <<conn, in_open, udp_open, swallowed>>,
         in_open => \A k \in Kinds : Outstanding(ops', k) = Outstanding(ops, k),
         in_open => \A k \in InOps \cup UdpOps : ops'["failed"][k] = ops["failed"][k],
         status = "CONNECT" /\ in_open /\ (is_udp => "CONNECT" \notin StrayIn) =>
           \A k \in {"in_read", "udp_read"} : ops'["ready"][k] = ops["ready"][k]
  PROVE  PumpInv'
<1>1. SUFFICES ASSUME in_open
               PROVE  PreludeInv' /\ ((is_udp => "CONNECT" \notin StrayIn) => (RelayInv' /\ OneInFlight'))
  BY DEF PumpInv, ModeInv, conn
<1> USE KindsFacts DEF conn, Live
<1>2. \A S \in SUBSET Kinds : None(S) => None(S)'
  BY <1>1 DEF None
<1>3. PreludeInv'
  <2>1. /\ None(Kinds \ InOps) => None(Kinds \ InOps)'
        /\ None({"shutdown", "timer"}) => None({"shutdown", "timer"})'
    BY <1>2
  <2> QED
    BY <1>1, <2>1 DEF PumpInv, PreludeInv
<1>4. ASSUME is_udp => "CONNECT" \notin StrayIn PROVE RelayInv' /\ OneInFlight'
  <2>1. RelayInv /\ OneInFlight
    BY <1>1, <1>4 DEF PumpInv
  <2>2. OneInFlight'
    BY <1>1, <2>1 DEF OneInFlight
  <2>3. Chain' = Chain
    BY <1>1 DEF Chain
  <2>4. status = "CONNECT" => ConnectInv'
    <3>1. None({"in_write", "udp_write", "out_read", "out_write"}) =>
          None({"in_write", "udp_write", "out_read", "out_write"})'
      BY <1>2
    <3> QED
      BY <1>1, <1>4, <2>1, <2>3, <3>1 DEF RelayInv, ConnectInv, ReadsSettled
  <2> QED
    BY <2>1, <2>2, <2>3, <2>4 DEF RelayInv
<1> QED
  BY <1>3, <1>4

(* The facts Exchange gives about a handler of this session that takes an  *)
(* operation of kind a and starts one of kind b on an open socket.         *)
Exchanged(a, b) ==
  /\ Live(a) > 0
  /\ \A j \in Kinds :
       /\ Outstanding(ops', j) = IF j = a THEN Live(j) - 1
                                 ELSE IF j = b THEN Live(j) + 1 ELSE Live(j)
       /\ j \notin {a, b} => \A p \in Phase : ops'[p][j] = ops[p][j]

LEMMA ExchangedBy ==
  ASSUME IsOps(ops, Kinds), NEW a \in Kinds, NEW b \in Kinds, a # b,
         NEW open, NEW atOnce, NEW o \in Completed(ops, a),
         ops' \in Begin(o, b, open, atOnce)
  PROVE  /\ Exchanged(a, b)
         /\ \A j \in Kinds : open \/ j # b => ops'["failed"][j] = ops["failed"][j]
BY Exchange DEF Exchanged, Live

(* Before CONNECT there is one operation, on the client's socket.          *)
LEMMA PreludePump ==
  ASSUME Types, PumpInv, NEW a \in InOps, NEW b \in InOps, a # b,
         NEW atOnce, NEW o \in Completed(ops, a),
         ops' \in Begin(o, b, in_open, atOnce),
         status \in {"HANDSHAKE", "REQUEST"},
         status' \in {"HANDSHAKE", "REQUEST", "INVALID"},
         (udp_open' = udp_open /\ is_udp' = is_udp) \/ udp_open' = is_udp',
         in_open => (status' = "HANDSHAKE" \/ (status' = "REQUEST" /\ b = "in_read") => ~ is_udp'),
         UNCHANGED <<in_open, first_packet_recv, swallowed>>
  PROVE  PumpInv'
<1>0. /\ Exchanged(a, b)
      /\ \A j \in Kinds : in_open \/ j # b => ops'["failed"][j] = ops["failed"][j]
  <2>1. a \in Kinds /\ b \in Kinds
    BY DEF Kinds
  <2> QED
    BY <2>1, ExchangedBy DEF Types
<1> USE KindsFacts
<1>1. ModeInv'
  BY DEF ModeInv
<1>2. SUFFICES ASSUME in_open
               PROVE  PreludeInv' /\ RelayInv' /\ OneInFlight'
  BY <1>1 DEF PumpInv
<1>3. PreludeInv
  BY <1>2 DEF PumpInv
<1>4. Exchanged(a, b) /\ \A j \in Kinds : ops'["failed"][j] = ops["failed"][j]
  BY <1>0, <1>2
<1>5. RelayInv' /\ OneInFlight'
  BY DEF RelayInv, OneInFlight
<1>6. None(Kinds \ InOps)' /\ None({"shutdown", "timer"})'
  BY <1>3, <1>4 DEF None, Live, Exchanged, PreludeInv
<1>7. /\ (Live("in_read") + Live("in_write") = 1)'
      /\ b = "in_write" => Outstanding(ops', "in_read") = 0
  <2>1. Live("in_read") + Live("in_write") = 1 /\ Live("in_read") \in Nat /\ Live("in_write") \in Nat
    BY <1>3, OutstandingNat DEF PreludeInv, Live, Types
  <2> QED
    BY <2>1, <1>4 DEF Exchanged, Live
<1>8. (status = "HANDSHAKE" \/ (status = "REQUEST" /\ Live("in_read") > 0) => ~ is_udp)'
  BY <1>2, <1>7 DEF Live
<1> QED
  BY <1>2, <1>3, <1>4, <1>5, <1>6, <1>7, <1>8 DEF PreludeInv


(* In FORWARD and UDP_FORWARD a handler passes the turn of its direction   *)
(* from operation a to operation b.                                        *)
Turns == {<<"in_read", "out_write">>, <<"out_write", "in_read">>,
          <<"out_read", "in_write">>, <<"in_write", "out_read">>}
UdpTurns == {<<"udp_read", "out_write">>, <<"out_write", "udp_read">>,
             <<"out_read", "udp_write">>, <<"udp_write", "out_read">>}

LEMMA TurnPump ==
  ASSUME Types, PumpInv, NEW a \in Kinds, NEW b \in Kinds,
         \/ status = "FORWARD" /\ <<a, b>> \in Turns
         \/ status = "UDP_FORWARD" /\ <<a, b>> \in UdpTurns,
         NEW open, NEW atOnce, NEW o \in Completed(ops, a),
         ops' \in Begin(o, b, open, atOnce),
         b = "in_read" \/ b = "in_write" => open = in_open,
         b = "udp_read" \/ b = "udp_write" => open = udp_open,
         UNCHANGED <<conn, in_open, udp_open, swallowed>>
  PROVE  PumpInv'
<1>0. /\ Exchanged(a, b)
      /\ \A k \in Kinds : open \/ k # b => ops'["failed"][k] = ops["failed"][k]
  <2>1. a # b
    BY DEF Turns, UdpTurns
  <2> QED
    BY <2>1, ExchangedBy DEF Types
<1> USE KindsFacts DEF conn
<1>1. SUFFICES ASSUME in_open
               PROVE  PreludeInv' /\ ((is_udp => "CONNECT" \notin StrayIn) => (RelayInv' /\ OneInFlight'))
  BY DEF PumpInv, ModeInv
<1>2. a # b /\ PreludeInv /\ udp_open = is_udp
  BY <1>1 DEF PumpInv, PreludeInv, Turns, UdpTurns
<1>3. Exchanged(a, b)
  BY <1>0
<1>4. \A k \in InOps \cup UdpOps : ops'["failed"][k] = 0
  <2>1. \A k \in Kinds : open \/ k # b => ops'["failed"][k] = ops["failed"][k]
    BY <1>0
  <2>2. b \in InOps \cup UdpOps => open
    BY <1>1, <1>2 DEF PumpInv, ModeInv, Turns, UdpTurns
  <2> QED
    BY <2>1, <2>2, <1>2 DEF PreludeInv
<1>5. PreludeInv'
  <2>1. None({"shutdown", "timer"})'
    <3>1. \A k \in {"shutdown", "timer"} : k \notin {a, b}
      BY DEF Turns, UdpTurns
    <3> QED
      BY <1>2, <1>3, <3>1 DEF PreludeInv, None, Exchanged, Live
  <2> QED
    BY <1>2, <1>4, <2>1 DEF PreludeInv
<1>6. ASSUME is_udp => "CONNECT" \notin StrayIn PROVE RelayInv' /\ OneInFlight'
  <2>1. RelayInv /\ OneInFlight
    BY <1>1, <1>6 DEF PumpInv
  <2>2. Chain' = Chain
    <3>1. \A k \in {"resolve", "connect", "handshake"} : k \notin {a, b}
      BY DEF Turns, UdpTurns
    <3> QED
      BY <1>3, <3>1 DEF Chain, Exchanged, Live
  <2>3. RelayInv'
    BY <2>1, <2>2 DEF RelayInv
  <2>4. \A k \in Kinds : Live(k) \in Nat
    BY OutstandingNat DEF Live, Types
  <2>5. OneInFlight'
    <3>1. CASE status = "FORWARD" /\ <<a, b>> \in Turns
      BY <1>1, <1>3, <2>1, <2>4, <3>1 DEF OneInFlight, Turns, Exchanged, Live
    <3>2. CASE status = "UDP_FORWARD" /\ <<a, b>> \in UdpTurns
      BY <1>1, <1>3, <2>1, <2>4, <3>2 DEF OneInFlight, UdpTurns, Exchanged, Live
    <3> QED
      BY <3>1, <3>2
  <2> QED
    BY <2>3, <2>5
<1> QED
  BY <1>5, <1>6


(* resolve, connect, handshake: each handler starts the next step.         *)
LEMMA ChainPump ==
  ASSUME Types, PumpInv, NEW a \in Kinds, NEW b \in Kinds,
         <<a, b>> \in {<<"resolve", "connect">>, <<"connect", "handshake">>},
         NEW open, NEW atOnce, NEW o \in Completed(ops, a),
         ops' \in Begin(o, b, open, atOnce),
         a = "resolve" => ops["ready"]["in_read"] = 0 /\ ops["ready"]["udp_read"] = 0,
         UNCHANGED <<conn, in_open, udp_open, swallowed>>
  PROVE  PumpInv'
<1>0. /\ Exchanged(a, b)
      /\ \A k \in Kinds : open \/ k # b => ops'["failed"][k] = ops["failed"][k]
  <2>1. a # b
    OBVIOUS
  <2> QED
    BY <2>1, ExchangedBy DEF Types
<1> USE KindsFacts DEF conn
<1>1. SUFFICES ASSUME in_open
               PROVE  PreludeInv' /\ ((is_udp => "CONNECT" \notin StrayIn) => (RelayInv' /\ OneInFlight'))
  BY DEF PumpInv, ModeInv
<1>2. PreludeInv
  BY <1>1 DEF PumpInv
<1>3. status \notin {"HANDSHAKE", "REQUEST", "INVALID"}
  BY <1>0, <1>2, OutstandingNat DEF PreludeInv, None, Exchanged, Live
<1>4. PreludeInv'
  <2>1. None({"shutdown", "timer"})'
    BY <1>0, <1>2 DEF PreludeInv, None, Exchanged, Live
  <2> QED
    BY <1>0, <1>2, <1>3, <2>1 DEF PreludeInv
<1>5. ASSUME is_udp => "CONNECT" \notin StrayIn PROVE RelayInv' /\ OneInFlight'
  <2>1. RelayInv /\ OneInFlight
    BY <1>1, <1>5 DEF PumpInv
  <2>2. \A k \in Kinds : Live(k) \in Nat
    BY OutstandingNat DEF Live, Types
  <2>3. status = "CONNECT"
    <3>1. Chain # 0
      <4>1. Live("resolve") > 0 \/ Live("connect") > 0 \/ Live("handshake") > 0
        BY <1>0 DEF Exchanged
      <4> QED
        BY <4>1, ChainPositive
    <3> QED
      BY <1>2, <1>3, <2>1, <3>1 DEF RelayInv, Types, Status, PreludeInv
  <2>4. Chain' = Chain
    BY <1>0, <2>2 DEF Chain, Exchanged, Live
  <2>5. None({"in_write", "udp_write", "out_read", "out_write"})'
    BY <1>0, <2>1, <2>3 DEF RelayInv, ConnectInv, None, Exchanged, Live
  <2>6. ReadsSettled'
    <3>1. \A k \in {"in_read", "udp_read"} : ops'["ready"][k] = ops["ready"][k]
      BY <1>0 DEF Exchanged
    <3>2. ops["ready"]["in_read"] = 0 /\ ops["ready"]["udp_read"] = 0
      <4>1. CASE a = "resolve"
        BY <4>1
      <4>2. CASE a = "connect"
        BY <4>2, <1>0, <2>1, <2>2, <2>3
           DEF RelayInv, ConnectInv, ReadsSettled, Chain, Exchanged
      <4> QED
        BY <4>1, <4>2
    <3> QED
      BY <3>1, <3>2 DEF ReadsSettled
  <2>7. ConnectInv'
    BY <1>0, <2>1, <2>3, <2>4, <2>5, <2>6 DEF RelayInv, ConnectInv, Exchanged, Live
  <2> QED
    BY <2>3, <2>7 DEF RelayInv, OneInFlight
<1> QED
  BY <1>4, <1>5

(* The end of the handshake: no client read is outstanding but the one     *)
(* that watches the control connection of a UDP ASSOCIATE.                 *)
LEMMA EstablishedPump ==
  ASSUME Types, PumpInv, Established
  PROVE  PumpInv'
<1> DEFINE After(o) == IF first_packet_recv THEN o
                       ELSE Cancel(o, IF is_udp THEN UdpOps ELSE InOps)
<1>1. PICK o \in Completed(ops, "handshake") :
        \E r \in OutAsyncRead(After(o)) : ops' \in OutAsyncWrite(r)
  BY DEF Established, ReadReplaced
<1>2. PICK r \in OutAsyncRead(After(o)) : ops' \in OutAsyncWrite(r)
  BY <1>1
<1> DEFINE c == After(o)
<1>3. IsOps(o, Kinds) /\ IsOps(c, Kinds) /\ IsOps(r, Kinds)
  <2>1. IsOps(o, Kinds)
    BY CompletedType, KindsFacts DEF Types
  <2>2. IsOps(c, Kinds)
    BY <2>1, CancelType
  <2> QED
    BY <2>1, <2>2, <1>2, BeginType, KindsFacts DEF OutAsyncRead
<1>4. \A j \in Kinds :
        /\ Outstanding(o, j) = IF j = "handshake" THEN Live(j) - 1 ELSE Live(j)
        /\ o["failed"][j] = ops["failed"][j] /\ o["ready"][j] <= ops["ready"][j]
        /\ Live("handshake") > 0
  <2>1. "handshake" \in Kinds /\ IsOps(ops, Kinds)
    BY KindsIn DEF Types
  <2> QED
    BY <2>1, CompletedLive DEF Live
<1>5. \A j \in Kinds :
        /\ Outstanding(c, j) =
             IF ~ first_packet_recv /\ j \in (IF is_udp THEN UdpOps ELSE InOps)
             THEN o["ready"][j] + o["failed"][j] ELSE Outstanding(o, j)
        /\ c["failed"][j] = o["failed"][j] /\ c["ready"][j] = o["ready"][j]
  <2>1. CASE first_packet_recv
    BY <2>1
  <2>2. CASE ~ first_packet_recv
    <3> DEFINE S == IF is_udp THEN UdpOps ELSE InOps
    <3>1. c = Cancel(o, S)
      BY <2>2
    <3> HIDE DEF S, c
    <3>2. \A j \in Kinds :
            /\ Outstanding(c, j) = IF j \in S THEN o["ready"][j] + o["failed"][j] ELSE Outstanding(o, j)
            /\ c["failed"] = o["failed"] /\ c["ready"] = o["ready"]
      BY <1>3, <3>1, CancelLive
    <3> QED
      BY <2>2, <3>2 DEF S
  <2> QED
    BY <2>1, <2>2
<1> HIDE DEF c
<1>6. \A j \in Kinds :
        /\ Outstanding(r, j) = IF j = "out_read" THEN Outstanding(c, j) + 1 ELSE Outstanding(c, j)
        /\ j # "out_read" => r["failed"][j] = c["failed"][j]
  <2>1. PICK open, atOnce : r \in Begin(c, "out_read", open, atOnce)
    BY <1>2 DEF OutAsyncRead, c
  <2>2. "out_read" \in Kinds /\ IsOps(c, Kinds)
    BY <1>3, KindsIn
  <2> QED
    BY <2>1, <2>2, BeginStarts
<1>7. \A j \in Kinds :
        /\ Outstanding(ops', j) = IF j = "out_write" THEN Outstanding(r, j) + 1 ELSE Outstanding(r, j)
        /\ j # "out_write" => ops'["failed"][j] = r["failed"][j]
  <2>1. PICK open, atOnce : ops' \in Begin(r, "out_write", open, atOnce)
    BY <1>2 DEF OutAsyncWrite
  <2>2. "out_write" \in Kinds /\ IsOps(r, Kinds)
    BY <1>3, KindsIn
  <2> QED
    BY <2>1, <2>2, BeginStarts
<1>8. /\ status' = IF is_udp THEN "UDP_FORWARD" ELSE "FORWARD"
      /\ UNCHANGED <<is_udp, first_packet_recv, in_open, udp_open, swallowed>>
  BY DEF Established, sockets
<1>9. SUFFICES ASSUME in_open
               PROVE  PreludeInv' /\ ((is_udp => "CONNECT" \notin StrayIn) => (RelayInv' /\ OneInFlight'))
  BY <1>8 DEF PumpInv, ModeInv
<1> USE KindsFacts
<1>10. PreludeInv
  BY <1>9 DEF PumpInv
<1>11. \A k \in InOps \cup UdpOps : ops'["failed"][k] = 0 /\ o["failed"][k] = 0
  BY <1>4, <1>5, <1>6, <1>7, <1>10 DEF PreludeInv
<1>12. PreludeInv'
  <2>1. None({"shutdown", "timer"})'
    <3>1. \A k \in {"shutdown", "timer"} : Outstanding(o, k) = 0
      BY <1>4, <1>10 DEF PreludeInv, None
    <3>2. \A k \in {"shutdown", "timer"} : Outstanding(c, k) = 0
      BY <1>5, <3>1
    <3> QED
      BY <1>6, <1>7, <3>2 DEF None, Live
  <2> QED
    BY <1>8, <1>10, <1>11, <2>1 DEF PreludeInv
<1>13. ASSUME is_udp => "CONNECT" \notin StrayIn PROVE RelayInv' /\ OneInFlight'
  <2>1. RelayInv /\ OneInFlight
    BY <1>9, <1>13 DEF PumpInv
  <2>2. \A k \in Kinds : Live(k) \in Nat /\ o["ready"][k] \in Nat /\ ops["ready"][k] \in Nat
    <3>1. \A k \in Kinds : Live(k) \in Nat
      BY OutstandingNat DEF Live, Types
    <3>2. \A k \in Kinds : o["ready"][k] \in Nat /\ ops["ready"][k] \in Nat
      BY <1>3, PhaseNat DEF Types
    <3> QED
      BY <3>1, <3>2
  <2>3. status = "CONNECT"
    <3>1. Chain # 0
      BY <1>4, ChainPositive, KindsIn
    <3>2. status \notin {"HANDSHAKE", "REQUEST", "INVALID"}
      BY <1>4, <1>10, <2>2 DEF PreludeInv, None
    <3> QED
      BY <1>10, <2>1, <3>1, <3>2 DEF RelayInv, Types, Status, PreludeInv
  <2>4. ConnectInv
    BY <2>1, <2>3 DEF RelayInv
  <2>5. Live("resolve") = 0 /\ Live("connect") = 0 /\ Live("handshake") = 1
    BY <1>4, <2>2, <2>4 DEF ConnectInv, Chain
  <2>6. o["ready"]["in_read"] = 0 /\ o["ready"]["udp_read"] = 0
    BY <1>4, <2>2, <2>4, <2>5 DEF ConnectInv, ReadsSettled
  <2>7. /\ Outstanding(ops', "resolve") = 0 /\ Outstanding(ops', "connect") = 0
        /\ Outstanding(ops', "handshake") = 0
    BY <1>4, <1>5, <1>6, <1>7, <2>5
  <2>8. /\ Outstanding(ops', "out_read") = 1 /\ Outstanding(ops', "out_write") = 1
        /\ Outstanding(ops', "in_write") = 0 /\ Outstanding(ops', "udp_write") = 0
    <3>1. \A k \in {"in_write", "udp_write", "out_read", "out_write"} : Outstanding(o, k) = 0
      BY <1>4, <2>4 DEF ConnectInv, None
    <3>2. \A k \in {"in_write", "udp_write", "out_read", "out_write"} : Outstanding(c, k) = 0
      <4>1. \A k \in {"in_write", "udp_write"} : o["ready"][k] = 0
        <5>1. ASSUME NEW k \in Kinds, Outstanding(o, k) = 0 PROVE o["ready"][k] = 0
          BY <1>3, <5>1, PhaseNat DEF Outstanding
        <5> QED
          BY <3>1, <5>1
      <4> QED
        BY <1>5, <1>11, <3>1, <4>1
    <3> QED
      BY <1>6, <1>7, <3>2
  <2>9. /\ ~ is_udp => Outstanding(ops', "in_read") = 0
        /\ is_udp => Outstanding(ops', "in_read") = 1 /\ Outstanding(ops', "udp_read") = 0
    <3>1. CASE ~ is_udp
      BY <3>1, <1>4, <1>5, <1>6, <1>7, <1>11, <2>4, <2>6 DEF ConnectInv
    <3>2. CASE is_udp
      BY <3>2, <1>4, <1>5, <1>6, <1>7, <1>11, <2>4, <2>6 DEF ConnectInv
    <3> QED
      BY <3>1, <3>2
  <2>10. RelayInv'
    BY <1>8, <2>7 DEF RelayInv, Chain, Live
  <2>11. OneInFlight'
    BY <1>8, <2>4, <2>8, <2>9 DEF OneInFlight, ConnectInv, Live
  <2> QED
    BY <2>10, <2>11
<1> QED
  BY <1>12, <1>13


(* in_sent in REQUEST starts the reads of CONNECT and the chain.           *)
LEMMA RequestPump ==
  ASSUME Types, PumpInv, InSentRequest
  PROVE  PumpInv'
<1>1. PICK o \in Completed(ops, "in_write") :
        \E r \in Begin(o, "in_read", in_open,
                      IF is_udp THEN "CONNECT" \in StrayIn ELSE MoreUp(o)) :
          \E u \in IF is_udp THEN UdpAsyncRead(r) ELSE {r} :
            ops' = Add(u, "resolve", "waiting")
  BY ConnectReadsSplit DEF InSentRequest
<1>2. PICK r \in Begin(o, "in_read", in_open,
                      IF is_udp THEN "CONNECT" \in StrayIn ELSE MoreUp(o)) :
        \E u \in IF is_udp THEN UdpAsyncRead(r) ELSE {r} :
          ops' = Add(u, "resolve", "waiting")
  BY <1>1
<1>3. PICK u \in IF is_udp THEN UdpAsyncRead(r) ELSE {r} :
        ops' = Add(u, "resolve", "waiting")
  BY <1>2
<1>4. IsOps(o, Kinds) /\ IsOps(r, Kinds) /\ IsOps(u, Kinds)
  <2>1. IsOps(o, Kinds)
    BY CompletedType, KindsIn DEF Types
  <2>2. IsOps(r, Kinds)
    BY <2>1, BeginType, KindsIn
  <2>3. IsOps(u, Kinds)
    <3>1. CASE is_udp
      <4>1. PICK open, atOnce : u \in Begin(r, "udp_read", open, atOnce)
        BY <1>3, <3>1 DEF UdpAsyncRead
      <4> QED
        BY <2>2, <4>1, BeginType, KindsIn
    <3>2. CASE ~ is_udp
      BY <2>2, <1>3, <3>2
    <3> QED
      BY <3>1, <3>2
  <2> QED
    BY <2>1, <2>2, <2>3
<1>5. /\ status = "REQUEST" /\ status' = "CONNECT"
      /\ UNCHANGED <<is_udp, first_packet_recv, in_open, udp_open, swallowed>>
  BY DEF InSentRequest, sockets, uplink
<1>6. SUFFICES ASSUME in_open
               PROVE  PreludeInv' /\ ((is_udp => "CONNECT" \notin StrayIn) => (RelayInv' /\ OneInFlight'))
  BY <1>5 DEF PumpInv, ModeInv
<1>7. PreludeInv
  BY <1>6 DEF PumpInv
<1>8. \A j \in Kinds :
        /\ Outstanding(o, j) = IF j = "in_write" THEN Live(j) - 1 ELSE Live(j)
        /\ o["failed"][j] = ops["failed"][j] /\ Live("in_write") > 0
  <2>1. "in_write" \in Kinds /\ IsOps(ops, Kinds)
    BY KindsIn DEF Types
  <2> QED
    BY <2>1, CompletedLive DEF Live
<1>9. \A j \in Kinds :
        /\ Outstanding(r, j) = IF j = "in_read" THEN Outstanding(o, j) + 1 ELSE Outstanding(o, j)
        /\ r["failed"][j] = o["failed"][j]
  <2>1. PICK atOnce : r \in Begin(o, "in_read", in_open, atOnce)
    OBVIOUS
  <2>2. "in_read" \in Kinds /\ IsOps(o, Kinds)
    BY <1>4, KindsIn
  <2>3. \A j \in Kinds : r["failed"][j] = o["failed"][j]
    <3>1. \E p \in {"waiting", "ready"} : r = Add(o, "in_read", p)
      BY <1>6, <2>1 DEF Begin
    <3> QED
      BY <2>2, <3>1, AddFailed
  <2>4. \E open : r \in Begin(o, "in_read", open, atOnce)
    BY <2>1
  <2> QED
    BY <2>2, <2>3, <2>4, BeginStarts
<1>10. \A j \in Kinds :
        /\ Outstanding(u, j) = IF is_udp /\ j = "udp_read" THEN Outstanding(r, j) + 1
                               ELSE Outstanding(r, j)
        /\ u["failed"][j] = r["failed"][j]
  <2>1. CASE is_udp
    <3>1. udp_open
      BY <2>1, <1>7 DEF PreludeInv
    <3>2. PICK atOnce : u \in Begin(r, "udp_read", udp_open, atOnce)
      BY <1>3, <2>1 DEF UdpAsyncRead
    <3>3. "udp_read" \in Kinds /\ IsOps(r, Kinds)
      BY <1>4, KindsIn
    <3>4. \A j \in Kinds :
            /\ Outstanding(u, j) = IF j = "udp_read" THEN Outstanding(r, j) + 1 ELSE Outstanding(r, j)
            /\ u["failed"][j] = r["failed"][j]
      <4>1. \A j \in Kinds : u["failed"][j] = r["failed"][j]
        <5>1. \E p \in {"waiting", "ready"} : u = Add(r, "udp_read", p)
          BY <3>1, <3>2 DEF Begin
        <5> QED
          BY <3>3, <5>1, AddFailed
      <4>2. \E open : u \in Begin(r, "udp_read", open, atOnce)
        BY <3>2
      <4> QED
        BY <3>3, <4>1, <4>2, BeginStarts
    <3> QED
      BY <3>4, <2>1
  <2>2. CASE ~ is_udp
    BY <2>2, <1>3
  <2> QED
    BY <2>1, <2>2
<1>11. \A j \in Kinds :
        /\ Outstanding(ops', j) = IF j = "resolve" THEN Outstanding(u, j) + 1 ELSE Outstanding(u, j)
        /\ ops'["failed"][j] = u["failed"][j]
  <2>1. "resolve" \in Kinds /\ "waiting" \in Phase \ {"aborted"}
    BY KindsIn DEF Phase
  <2>2. \A j \in Kinds : ops'["failed"][j] = u["failed"][j]
    BY <1>3, <1>4, <2>1 DEF Add, IsOps, Phase
  <2> QED
    BY <1>3, <1>4, <2>1, <2>2, AddLive
<1>12. \A j \in Kinds : Live(j) \in Nat
  BY OutstandingNat DEF Live, Types
<1>13. Live("in_read") = 0 /\ Live("in_write") = 1 /\ None(Kinds \ InOps)
       /\ ~ first_packet_recv /\ ~ swallowed
  BY <1>5, <1>7, <1>8, <1>12, KindsIn DEF PreludeInv
<1> USE KindsFacts
<1>14. \A j \in Kinds \ InOps : Live(j) = 0
  BY <1>13 DEF None
<1>15. \A j \in Kinds : Outstanding(ops', j) =
         IF j \in {"in_read", "resolve"} \/ (is_udp /\ j = "udp_read") THEN 1 ELSE 0
  <2>1. \A j \in Kinds : Outstanding(o, j) = 0
    BY <1>8, <1>13, <1>14
  <2>2. \A j \in Kinds : Outstanding(r, j) = IF j = "in_read" THEN 1 ELSE 0
    BY <1>9, <2>1
  <2>3. \A j \in Kinds : Outstanding(u, j) =
          IF j = "in_read" \/ (is_udp /\ j = "udp_read") THEN 1 ELSE 0
    BY <1>10, <2>2
  <2> QED
    BY <1>11, <2>3
<1>16. PreludeInv'
  BY <1>5, <1>7, <1>8, <1>9, <1>10, <1>11, <1>15 DEF PreludeInv, None, Live
<1>17. RelayInv'
  <2>1. Chain' = 1
    BY <1>15 DEF Chain, Live
  <2>2. ReadsSettled'
    BY <1>15 DEF ReadsSettled, Live
  <2>3. None({"in_write", "udp_write", "out_read", "out_write"})'
    BY <1>15 DEF None, Live
  <2>4. ConnectInv'
    BY <1>5, <1>13, <1>15, <2>1, <2>2, <2>3 DEF ConnectInv, Live
  <2> QED
    BY <1>5, <2>4 DEF RelayInv
<1> QED
  BY <1>5, <1>16, <1>17 DEF OneInFlight

(* A client read whose handler starts nothing: the first packet goes to    *)
(* out_write_buf in CONNECT, and an empty datagram is dropped.             *)
LEMMA TakenPump ==
  ASSUME Types, PumpInv, NEW a \in {"in_read", "udp_read"}, ops' \in Completed(ops, a),
         \/ /\ status = "CONNECT" /\ swallowed' = swallowed
            /\ \/ first_packet_recv' = TRUE
               \/ a = "udp_read" /\ first_packet_recv' = first_packet_recv
         \/ /\ status = "UDP_FORWARD" /\ a = "udp_read" /\ swallowed' = TRUE
            /\ first_packet_recv' = first_packet_recv,
         a = "in_read" /\ is_udp => "CONNECT" \in StrayIn,
         UNCHANGED <<status, is_udp, in_open, udp_open>>
  PROVE  PumpInv'
<1>1. \A j \in Kinds :
        /\ Outstanding(ops', j) = IF j = a THEN Live(j) - 1 ELSE Live(j)
        /\ ops'["failed"][j] = ops["failed"][j] /\ ops'["ready"][j] <= ops["ready"][j]
        /\ ops'["ready"][j] \in Nat /\ ops["ready"][j] \in Nat
        /\ Live(a) > 0 /\ Live(j) \in Nat
  <2>1. a \in Kinds /\ IsOps(ops, Kinds)
    BY KindsIn DEF Types
  <2>2. IsOps(ops', Kinds)
    BY <2>1, CompletedType
  <2> QED
    BY <2>1, <2>2, CompletedLive, OutstandingNat, PhaseNat DEF Live
<1>2. SUFFICES ASSUME in_open
               PROVE  PreludeInv' /\ ((is_udp => "CONNECT" \notin StrayIn) => (RelayInv' /\ OneInFlight'))
  BY DEF PumpInv, ModeInv
<1> USE KindsFacts
<1>3. PreludeInv
  BY <1>2 DEF PumpInv
<1>4. PreludeInv'
  <2>1. None({"shutdown", "timer"})'
    BY <1>1, <1>3 DEF PreludeInv, None, Live
  <2> QED
    BY <1>1, <1>3, <2>1 DEF PreludeInv
<1>5. ASSUME is_udp => "CONNECT" \notin StrayIn PROVE RelayInv' /\ OneInFlight'
  <2>1. RelayInv /\ OneInFlight
    BY <1>2, <1>5 DEF PumpInv
  <2>2. Chain' = Chain
    BY <1>1 DEF Chain, Live
  <2>3. CASE status = "CONNECT"
    <3>1. ConnectInv
      BY <2>1, <2>3 DEF RelayInv
    <3>2. None({"in_write", "udp_write", "out_read", "out_write"})'
      BY <1>1, <3>1 DEF ConnectInv, None, Live
    <3>3. ReadsSettled'
      BY <1>1, <3>1 DEF ConnectInv, ReadsSettled, Live
    <3>4. CASE a = "in_read"
      <4>1. ~ is_udp /\ first_packet_recv' = TRUE
        BY <1>5, <2>3, <3>4
      <4>2. Outstanding(ops', "in_read") = 0 /\ Outstanding(ops', "udp_read") = 0
        BY <1>1, <3>1, <3>4, <4>1 DEF ConnectInv
      <4>3. ConnectInv'
        BY <2>2, <2>3, <3>1, <3>2, <3>3, <4>1, <4>2 DEF ConnectInv, Live
      <4> QED
        BY <2>3, <4>3 DEF RelayInv, OneInFlight
    <3>5. CASE a = "udp_read"
      <4>1. is_udp /\ Outstanding(ops', "udp_read") = 0 /\ Outstanding(ops', "in_read") = 1
        BY <1>1, <3>1, <3>5 DEF ConnectInv
      <4>2. ConnectInv'
        BY <2>2, <2>3, <3>1, <3>2, <3>3, <4>1 DEF ConnectInv, Live
      <4> QED
        BY <2>3, <4>2 DEF RelayInv, OneInFlight
    <3> QED
      BY <3>4, <3>5
  <2>4. CASE status = "UDP_FORWARD"
    <3>1. Live("udp_read") + Live("out_write") = 1 /\ Live("udp_read") > 0
      <4>1. is_udp
        BY <2>4 DEF PumpInv, ModeInv
      <4>2. Live("udp_read") + Live("out_write") = IF swallowed THEN 0 ELSE 1
        BY <1>2, <1>5, <2>1, <2>4, <4>1 DEF OneInFlight
      <4>3. Live("udp_read") > 0 /\ Live("udp_read") \in Nat /\ Live("out_write") \in Nat
        BY <1>1, <2>4
      <4> QED
        BY <4>2, <4>3
    <3>2. Outstanding(ops', "udp_read") + Outstanding(ops', "out_write") = 0
      BY <1>1, <2>4, <3>1
    <3>3. OneInFlight'
      BY <1>1, <1>2, <2>1, <2>4, <3>2 DEF OneInFlight, Live
    <3> QED
      BY <2>1, <2>2, <2>4, <3>3 DEF RelayInv
  <2> QED
    BY <2>3, <2>4
<1> QED
  BY <1>4, <1>5


(* A handler that starts the next operation of its own kind.               *)
LEMMA AgainPump ==
  ASSUME Types, PumpInv, NEW a \in {"out_read", "udp_write"}, status = "UDP_FORWARD",
         NEW open, NEW atOnce, NEW o \in Completed(ops, a),
         ops' \in Begin(o, a, open, atOnce), a = "udp_write" => open = udp_open,
         UNCHANGED <<conn, in_open, udp_open, swallowed>>
  PROVE  PumpInv'
<1>1. a \in Kinds /\ IsOps(ops, Kinds) /\ IsOps(o, Kinds)
  BY KindsIn, CompletedType DEF Types
<1>2. \A j \in Kinds : Outstanding(ops, j) \in Nat
  BY <1>1, OutstandingNat
<1>3. \A j \in Kinds : Outstanding(o, j) = IF j = a THEN Outstanding(ops, j) - 1 ELSE Outstanding(ops, j)
  BY <1>1, CompletedLive
<1>4. \A j \in Kinds : Outstanding(ops', j) = IF j = a THEN Outstanding(o, j) + 1 ELSE Outstanding(o, j)
  BY <1>1, BeginStarts
<1>5. \A j \in Kinds : Outstanding(ops', j) = Outstanding(ops, j)
  BY <1>2, <1>3, <1>4
<1>6. \A j \in Kinds : o["failed"][j] = ops["failed"][j]
  BY <1>1, CompletedLive
<1>7. \A j \in Kinds : j # a => ops'["failed"][j] = o["failed"][j]
  BY <1>1, BeginStarts
<1>8. ASSUME in_open, a = "udp_write" PROVE ops'["failed"][a] = o["failed"][a]
  <2>1. open
    BY <1>8 DEF PumpInv, ModeInv, PreludeInv
  <2>2. \E p \in {"waiting", "ready"} : ops' = Add(o, a, p)
    BY <2>1 DEF Begin
  <2> QED
    BY <1>1, <2>2, AddFailed
<1>9. in_open => \A k \in InOps \cup UdpOps : ops'["failed"][k] = ops["failed"][k]
  BY <1>6, <1>7, <1>8, KindsFacts
<1> QED
  BY <1>5, <1>9, SamePump DEF conn

LEMMA UdpSentPump ==
  ASSUME Types, PumpInv, status = "UDP_FORWARD",
         NEW a \in {"out_read", "udp_write"}, NEW o \in Completed(ops, a), NEW buf,
         UdpSentWith(o, buf), UNCHANGED <<is_udp, first_packet_recv, swallowed>>
  PROVE  PumpInv'
<1>1. CASE Destroy(o)
  BY <1>1, DestroyPump
<1>2. CASE ops' \in UdpAsyncWrite(o) /\ UNCHANGED <<status, in_open, udp_open>>
  <2>1. PICK atOnce : ops' \in Begin(o, "udp_write", udp_open, atOnce)
    BY <1>2 DEF UdpAsyncWrite
  <2>2. CASE a = "out_read"
    BY <1>2, <2>1, <2>2, TurnPump, KindsIn DEF UdpTurns, conn
  <2>3. CASE a = "udp_write"
    BY <1>2, <2>1, <2>3, AgainPump DEF conn
  <2> QED
    BY <2>2, <2>3
<1>3. CASE /\ ops' \in Begin(o, "out_read", out_open, down_taken' < MaxDown)
           /\ UNCHANGED <<status, in_open, udp_open>>
  <2>1. PICK open, atOnce : ops' \in Begin(o, "out_read", open, atOnce)
    BY <1>3
  <2>2. CASE a = "udp_write"
    BY <1>3, <2>1, <2>2, TurnPump, KindsIn DEF UdpTurns, conn
  <2>3. CASE a = "out_read"
    BY <1>3, <2>1, <2>3, AgainPump DEF conn
  <2> QED
    BY <2>2, <2>3
<1> QED
  BY <1>1, <1>2, <1>3 DEF UdpSentWith

(* Every step keeps the invariant.                                         *)
LEMMA PumpStep ==
  ASSUME Types, PumpInv, [Next]_vars
  PROVE  PumpInv'
<1>k. {"in_read", "in_write"} \subseteq InOps
  BY DEF InOps
<1>1. CASE InRecvHandshake
  <2>1. PICK o \in Completed(ops, "in_read") :
          \/ Destroy(o)
          \/ /\ status' \in {"HANDSHAKE", "INVALID"}
             /\ ops' \in InAsyncWrite(o)
             /\ UNCHANGED <<in_open, udp_open>>
    BY <1>1 DEF InRecvHandshake
  <2>2. CASE Destroy(o)
    BY <2>2, DestroyPump
  <2>3. CASE /\ status' \in {"HANDSHAKE", "INVALID"}
             /\ ops' \in InAsyncWrite(o)
             /\ UNCHANGED <<in_open, udp_open>>
    <3>1. /\ status = "HANDSHAKE" /\ UNCHANGED <<is_udp, first_packet_recv, swallowed>>
      BY <1>1 DEF InRecvHandshake, uplink
    <3>2. in_open => ~ is_udp
      BY <3>1 DEF PumpInv, PreludeInv
    <3> QED
      BY <1>k, <2>3, <3>1, <3>2, PreludePump DEF InAsyncWrite
  <2> QED
    BY <2>1, <2>2, <2>3
<1>2. CASE InRecvRequest
  <2>1. PICK o \in Completed(ops, "in_read") :
       \/ Destroy(o) /\ UNCHANGED <<is_udp, out_write_buf>>
       \/ /\ status' = "INVALID"
          /\ out_write_buf' = <<Header>>
          /\ ops' \in InAsyncWrite(o)
          /\ UNCHANGED <<is_udp, in_open, udp_open>>
       \/ \E c \in Commands :
            /\ is_udp' = (c = "UDP_ASSOCIATE")
            /\ out_write_buf' = <<Header>>
            /\ \/ /\ udp_open' = is_udp'
                  /\ ops' \in InAsyncWrite(o)
                  /\ UNCHANGED <<status, in_open>>
               \/ c = "UDP_ASSOCIATE" /\ Destroy(o)
    BY <1>2 DEF InRecvRequest
  <2>2. CASE Destroy(o)
    BY <2>2, DestroyPump
  <2>3. status = "REQUEST" /\ UNCHANGED <<first_packet_recv, swallowed>>
    BY <1>2 DEF InRecvRequest
  <2>4. CASE /\ status' = "INVALID"
             /\ ops' \in InAsyncWrite(o)
             /\ UNCHANGED <<is_udp, in_open, udp_open>>
    BY <1>k, <2>3, <2>4, PreludePump DEF InAsyncWrite
  <2>5. CASE /\ udp_open' = is_udp'
             /\ ops' \in InAsyncWrite(o)
             /\ UNCHANGED <<status, in_open>>
    BY <1>k, <2>3, <2>5, PreludePump DEF InAsyncWrite
  <2> QED
    BY <2>1, <2>2, <2>4, <2>5
<1>3. CASE InRecvConnect
  BY <1>3, TakenPump DEF InRecvConnect, sockets
<1>4. CASE InRecvForward
  <2>1. PICK o \in Completed(ops, "in_read") : ops' \in Begin(o, "out_write", out_open, TRUE)
    BY <1>4 DEF InRecvForward, OutAsyncWrite
  <2> QED
    BY <1>4, <2>1, TurnPump, KindsIn DEF InRecvForward, Turns, sockets
<1>5. CASE InRecvUdpForward
  BY <1>5, DestroyPump DEF InRecvUdpForward
<1>6. CASE Dropped
  BY <1>6 DEF Dropped, conn, sockets, PumpInv, ModeInv, PreludeInv
<1>7. CASE InSentHandshake
  <2>1. PICK o \in Completed(ops, "in_write") : ops' \in Begin(o, "in_read", in_open, TRUE)
    BY <1>7 DEF InSentHandshake
  <2>2. /\ status = "HANDSHAKE" /\ status' = "REQUEST"
        /\ UNCHANGED <<is_udp, first_packet_recv, swallowed, in_open, udp_open>>
    BY <1>7 DEF InSentHandshake, uplink, sockets
  <2>3. in_open => ~ is_udp
    BY <2>2 DEF PumpInv, PreludeInv
  <2> QED
    BY <1>k, <2>1, <2>2, <2>3, PreludePump
<1>8. CASE InSentRequest
  BY <1>8, RequestPump
<1>9. CASE InSentForward
  <2>1. PICK o \in Completed(ops, "in_write") : ops' \in Begin(o, "out_read", out_open, down_taken < MaxDown)
    BY <1>9 DEF InSentForward, OutAsyncRead
  <2> QED
    BY <1>9, <2>1, TurnPump, KindsIn DEF InSentForward, Turns, sockets, uplink
<1>10. CASE InSentInvalid
  BY <1>10, DestroyPump DEF InSentInvalid
<1>11. CASE Resolved
  <2>1. Remove(ops, "resolve", "ready") \in Completed(ops, "resolve")
    BY <1>11 DEF Resolved, Completed
  <2>2. CASE Destroy(Remove(ops, "resolve", "ready"))
    BY <2>2, DestroyPump
  <2>3. CASE /\ ops' \in Begin(Remove(ops, "resolve", "ready"), "connect", TRUE, TRUE)
             /\ UNCHANGED <<status, in_open, udp_open>>
    BY <1>11, <2>1, <2>3, ChainPump, KindsIn DEF Resolved, conn, uplink
  <2> QED
    BY <1>11, <2>2, <2>3 DEF Resolved
<1>12. CASE Connected
  <2>1. PICK o \in Completed(ops, "connect") : ops' \in Begin(o, "handshake", out_open, FALSE)
    BY <1>12 DEF Connected
  <2> QED
    BY <1>12, <2>1, ChainPump, KindsIn DEF Connected, sockets, uplink
<1>13. CASE Established
  BY <1>13, EstablishedPump
<1>14. CASE OutRecvForward
  <2>1. PICK o \in Completed(ops, "out_read") : ops' \in Begin(o, "in_write", in_open, TRUE)
    BY <1>14 DEF OutRecvForward, InAsyncWrite
  <2> QED
    BY <1>14, <2>1, TurnPump, KindsIn DEF OutRecvForward, Turns, sockets, uplink
<1>15. CASE OutRecvUdpForward
  BY <1>15, UdpSentPump DEF OutRecvUdpForward, uplink
<1>16. CASE UdpSent
  BY <1>16, UdpSentPump DEF UdpSent, uplink
<1>17. CASE OutSent
  <2>1. PICK o \in Completed(ops, "out_write") :
          ops' \in IF status = "FORWARD" THEN InAsyncRead(o) ELSE UdpAsyncRead(o)
    BY <1>17 DEF OutSent, NextRead
  <2>2. UNCHANGED <<conn, in_open, udp_open, swallowed>>
    BY <1>17 DEF OutSent, sockets, uplink
  <2>3. CASE status = "FORWARD"
    <3>1. PICK atOnce : ops' \in Begin(o, "in_read", in_open, atOnce)
      BY <2>1, <2>3 DEF InAsyncRead
    <3> QED
      BY <2>2, <2>3, <3>1, TurnPump, KindsIn DEF Turns
  <2>4. CASE status = "UDP_FORWARD"
    <3>1. PICK atOnce : ops' \in Begin(o, "udp_read", udp_open, atOnce)
      BY <2>1, <2>4 DEF UdpAsyncRead
    <3> QED
      BY <2>2, <2>4, <3>1, TurnPump, KindsIn DEF UdpTurns
  <2> QED
    BY <1>17, <2>3, <2>4 DEF OutSent
<1>18. CASE UdpRecvEmpty
  <2>1. CASE status = "CONNECT"
    BY <1>18, <2>1, TakenPump DEF UdpRecvEmpty, conn, sockets, Types
  <2>2. CASE status = "UDP_FORWARD"
    BY <1>18, <2>2, TakenPump DEF UdpRecvEmpty, conn, sockets
  <2> QED
    BY <1>18, <2>1, <2>2 DEF UdpRecvEmpty
<1>19. CASE UdpRecvBad
  BY <1>19, DestroyPump DEF UdpRecvBad
<1>20. CASE UdpRecvConnect
  BY <1>20, TakenPump DEF UdpRecvConnect, sockets
<1>21. CASE UdpRecvForward
  <2>1. PICK o \in Completed(ops, "udp_read") : ops' \in Begin(o, "out_write", out_open, TRUE)
    BY <1>21 DEF UdpRecvForward, OutAsyncWrite
  <2> QED
    BY <1>21, <2>1, TurnPump, KindsIn DEF UdpRecvForward, UdpTurns, sockets
<1>22. CASE Fail
  BY <1>22, DestroyPump DEF Fail
<1>23. CASE IgnoreAbort
  <2>1. PICK k \in Kinds : ops["aborted"][k] > 0 /\ ops' = Remove(ops, k, "aborted")
    BY <1>23, KindsIn DEF IgnoreAbort
  <2>2. \A j \in Kinds : /\ ops'["waiting"][j] = ops["waiting"][j]
                         /\ ops'["ready"][j] = ops["ready"][j]
                         /\ ops'["failed"][j] = ops["failed"][j]
    BY <2>1 DEF Remove, Types, IsOps, Phase
  <2>3. \A j \in Kinds : Outstanding(ops', j) = Outstanding(ops, j)
    BY <2>2 DEF Outstanding
  <2>4. UNCHANGED <<conn, in_open, udp_open, swallowed>>
    BY <1>23 DEF IgnoreAbort, sockets, uplink
  <2>5. in_open => \A j \in Kinds : Outstanding(ops', j) = Outstanding(ops, j)
    BY <2>3
  <2>6. in_open => \A j \in InOps \cup UdpOps : ops'["failed"][j] = ops["failed"][j]
    BY <2>2 DEF Kinds
  <2>7. \A j \in {"in_read", "udp_read"} : ops'["ready"][j] = ops["ready"][j]
    BY <2>2, KindsIn
  <2> QED
    BY <2>4, <2>5, <2>6, <2>7, SamePump
<1>24. CASE ShutdownDone
  <2>1. ~ in_open
    <3>1. PICK k \in {"shutdown", "timer"} : \E o \in Completed(ops, k) : TRUE
      BY <1>24 DEF ShutdownDone
    <3>2. Live(k) > 0
      BY <3>1, KindsIn, CompletedLive DEF Live, Types
    <3> QED
      BY <3>2 DEF PumpInv, PreludeInv, None
  <2> QED
    BY <1>24, <2>1 DEF ShutdownDone, conn, PumpInv, ModeInv
<1>25. CASE Perform
  <2>1. PICK k \in Kinds :
          /\ ops["waiting"][k] > 0
          /\ k \in {"resolve", "timer", "handshake", "shutdown"} \/ Shares(k)
          /\ ops' = Add(Remove(ops, k, "waiting"), k, "ready")
    BY <1>25 DEF Perform
  <2>2. IsOps(Remove(ops, k, "waiting"), Kinds)
    BY <2>1, RemoveType DEF Types, Phase
  <2>3. \A j \in Kinds : Outstanding(ops', j) = Outstanding(ops, j)
    <3>1. "waiting" \in Phase \ {"aborted"} /\ "ready" \in Phase \ {"aborted"}
      BY DEF Phase
    <3>2. \A j \in Kinds : Outstanding(ops, j) \in Nat
      BY OutstandingNat DEF Types
    <3>3. \A j \in Kinds : Outstanding(Remove(ops, k, "waiting"), j) =
             IF j = k THEN Outstanding(ops, j) - 1 ELSE Outstanding(ops, j)
      <4>1. IsOps(ops, Kinds)
        BY DEF Types
      <4> QED
        BY <3>1, <4>1, RemoveLive
    <3>4. \A j \in Kinds : Outstanding(ops', j) =
             IF j = k THEN Outstanding(Remove(ops, k, "waiting"), j) + 1
                      ELSE Outstanding(Remove(ops, k, "waiting"), j)
      BY <2>1, <2>2, <3>1, AddLive
    <3> QED
      BY <3>2, <3>3, <3>4
  <2>4. \A j \in Kinds : /\ ops'["failed"][j] = ops["failed"][j]
                         /\ j # k => ops'["ready"][j] = ops["ready"][j]
    BY <2>1 DEF Add, Remove, Types, IsOps, Phase
  <2>5. UNCHANGED <<conn, in_open, udp_open, swallowed>>
    BY <1>25 DEF Perform, sockets, uplink
  <2>6. ASSUME status = "CONNECT", in_open, is_udp => "CONNECT" \notin StrayIn
        PROVE  k \notin {"in_read", "udp_read"}
    <3>1. None({"in_write", "udp_write"})
      BY <2>6 DEF PumpInv, RelayInv, ConnectInv, None
    <3>2. ops["waiting"]["in_write"] = 0 /\ ops["waiting"]["udp_write"] = 0
      <4>1. ASSUME NEW j \in Kinds, Outstanding(ops, j) = 0 PROVE ops["waiting"][j] = 0
        BY <4>1, PhaseNat DEF Outstanding, Types
      <4> QED
        BY <3>1, <4>1, KindsIn DEF None, Live
    <3>3. ~ Shares("in_read") /\ ~ Shares("udp_read")
      BY <3>2 DEF Shares, InOps, UdpOps, OutOps
    <3> QED
      BY <2>1, <3>3
  <2>7. in_open => \A j \in Kinds : Outstanding(ops', j) = Outstanding(ops, j)
    BY <2>3
  <2>8. in_open => \A j \in InOps \cup UdpOps : ops'["failed"][j] = ops["failed"][j]
    BY <2>4 DEF Kinds
  <2>9. status = "CONNECT" /\ in_open /\ (is_udp => "CONNECT" \notin StrayIn) =>
          \A j \in {"in_read", "udp_read"} : ops'["ready"][j] = ops["ready"][j]
    BY <2>4, <2>6, KindsIn
  <2> QED
    BY <2>5, <2>7, <2>8, <2>9, SamePump
<1>26. CASE UNCHANGED vars
  BY <1>26, SamePump DEF vars, sockets, uplink, conn
<1> QED
  BY <1>1, <1>2, <1>3, <1>4, <1>5, <1>6, <1>7, <1>8, <1>9, <1>10, <1>11, <1>12,
     <1>13, <1>14, <1>15, <1>16, <1>17, <1>18, <1>19, <1>20, <1>21, <1>22, <1>23,
     <1>24, <1>25, <1>26 DEF Next, Proceed

LEMMA PumpInit == Init => PumpInv
<1> SUFFICES ASSUME Init PROVE PumpInv
  OBVIOUS
<1>1. PICK p \in {"waiting", "ready"} : ops = Add(NoOps(Kinds), "in_read", p)
  BY DEF Init, Begin
<1>2. \A q \in Phase, j \in Kinds :
        ops[q][j] = IF q = p /\ j = "in_read" THEN 1 ELSE 0
  BY <1>1, KindsIn DEF Add, NoOps
<1>3. \A j \in Kinds : /\ Live(j) = IF j = "in_read" THEN 1 ELSE 0
                       /\ ops["failed"][j] = 0
  BY <1>1, <1>2 DEF Live, Outstanding, Phase
<1>4. None(Kinds \ InOps) /\ None({"shutdown", "timer"}) /\ Live("in_read") + Live("in_write") = 1
  BY <1>3, KindsFacts DEF None
<1> QED
  BY <1>3, <1>4, KindsFacts
     DEF Init, PumpInv, ModeInv, PreludeInv, RelayInv, OneInFlight

(* In every reachable state of an open relay each direction has exactly    *)
(* one operation in flight, whatever the client, the server and the        *)
(* network do: neither direction ever stands still, and no write overlaps  *)
(* another.  (The exceptions are those OneInFlight names.)                 *)
THEOREM OneInFlightAlways == Spec => []OneInFlight
<1>1. PumpInv => OneInFlight
  BY DEF PumpInv, ModeInv, OneInFlight
<1>2. PumpInv /\ Types /\ [Next]_vars => PumpInv'
  BY PumpStep
<1> QED
  BY <1>1, <1>2, PumpInit, TypesAlways, PTL DEF Spec

-----------------------------------------------------------------------------
(* What is relayed.                                                        *)

(* The life of a session.  The client side is open up to CONNECT.  In      *)
(* CONNECT one step of the chain is under way, and destroy() may leave one *)
(* behind; once it is past the resolver no client read is ready.  An       *)
(* established relay has an operation of its downlink whose handler, even  *)
(* when it is cancelled, goes on with the session.                         *)
Prelude == {"HANDSHAKE", "REQUEST", "INVALID"}

OpenInv ==
  /\ status \in Prelude \cup {"CONNECT"} => in_open
  /\ udp_open => in_open

ChainInv ==
  /\ Chain <= 1
  /\ Chain > 0 => status \in {"CONNECT", "DESTROY"}
  /\ status = "CONNECT" => Chain = 1 /\ Live("in_write") = 0 /\ Live("udp_write") = 0

DownlinkInv ==
  /\ status = "FORWARD" => Pending(ops, "out_read") + Pending(ops, "in_write") > 0
  /\ status = "UDP_FORWARD" => Pending(ops, "out_read") + Pending(ops, "udp_write") > 0

QuietInv ==
  \A k \in {"in_read", "udp_read"} :
    /\ ~ in_open => ops["waiting"][k] = 0
    /\ Chain > 0 /\ Live("resolve") = 0 => ops["ready"][k] = 0
    /\ ~ in_open /\ status # "DESTROY" => ops["ready"][k] = 0

LifeInv == OpenInv /\ ChainInv /\ DownlinkInv /\ QuietInv

(* r comes from o by taking operations of kind a and by cancelling; only   *)
(* the shutdown of the tunnel is started.                                  *)
Less(o, r, a) ==
  /\ IsOps(o, Kinds) /\ IsOps(r, Kinds)
  /\ \A j \in Kinds \ {"shutdown", "timer"} :
       /\ Outstanding(r, j) <= Outstanding(o, j)
       /\ r["waiting"][j] <= o["waiting"][j] /\ r["ready"][j] <= o["ready"][j]
       /\ j # a => Pending(r, j) = Pending(o, j)

LEMMA TableNat ==
  ASSUME NEW o, IsOps(o, Kinds), NEW j \in Kinds
  PROVE  /\ Outstanding(o, j) \in Nat /\ Pending(o, j) \in Nat
         /\ o["waiting"][j] \in Nat /\ o["ready"][j] \in Nat
         /\ o["failed"][j] \in Nat /\ o["aborted"][j] \in Nat
         /\ Outstanding(o, j) = o["waiting"][j] + o["ready"][j] + o["failed"][j]
         /\ Pending(o, j) = Outstanding(o, j) + o["aborted"][j]
BY OutstandingNat, PendingNat, PhaseNat DEF Outstanding, Pending

LEMMA LessSame ==
  ASSUME NEW o, IsOps(o, Kinds), NEW a
  PROVE  Less(o, o, a)
BY TableNat DEF Less

LEMMA LessTrans ==
  ASSUME NEW o, NEW r, NEW s, NEW a, Less(o, r, a), Less(r, s, a)
  PROVE  Less(o, s, a)
<1>1. IsOps(o, Kinds) /\ IsOps(r, Kinds) /\ IsOps(s, Kinds)
  BY DEF Less
<1>2. ASSUME NEW j \in Kinds \ {"shutdown", "timer"}
      PROVE  /\ Outstanding(s, j) <= Outstanding(o, j)
             /\ s["waiting"][j] <= o["waiting"][j] /\ s["ready"][j] <= o["ready"][j]
             /\ j # a => Pending(s, j) = Pending(o, j)
  <2>1. /\ Outstanding(r, j) <= Outstanding(o, j) /\ Outstanding(s, j) <= Outstanding(r, j)
        /\ r["waiting"][j] <= o["waiting"][j] /\ r["ready"][j] <= o["ready"][j]
        /\ s["waiting"][j] <= r["waiting"][j] /\ s["ready"][j] <= r["ready"][j]
        /\ j # a => Pending(r, j) = Pending(o, j) /\ Pending(s, j) = Pending(r, j)
    BY DEF Less
  <2>2. /\ Outstanding(o, j) \in Nat /\ Outstanding(r, j) \in Nat /\ Outstanding(s, j) \in Nat
        /\ o["waiting"][j] \in Nat /\ r["waiting"][j] \in Nat /\ s["waiting"][j] \in Nat
        /\ o["ready"][j] \in Nat /\ r["ready"][j] \in Nat /\ s["ready"][j] \in Nat
    BY <1>1, TableNat
  <2> QED
    BY <2>1, <2>2
<1> QED
  BY <1>1, <1>2 DEF Less

LEMMA RemoveLess ==
  ASSUME NEW o, IsOps(o, Kinds), NEW a \in Kinds, NEW p \in Phase, o[p][a] > 0
  PROVE  Less(o, Remove(o, a, p), a)
<1>1. IsOps(Remove(o, a, p), Kinds)
  BY RemoveType
<1>2. ASSUME NEW j \in Kinds
      PROVE  /\ Outstanding(Remove(o, a, p), j) <= Outstanding(o, j)
             /\ Remove(o, a, p)["waiting"][j] <= o["waiting"][j]
             /\ Remove(o, a, p)["ready"][j] <= o["ready"][j]
             /\ j # a => Pending(Remove(o, a, p), j) = Pending(o, j)
  <2>1. \A q \in Phase : Remove(o, a, p)[q][j] = IF q = p /\ j = a THEN o[q][j] - 1 ELSE o[q][j]
    BY DEF Remove, IsOps
  <2>2. \A q \in Phase : o[q][j] \in Nat
    BY DEF IsOps
  <2>3. ASSUME NEW q \in Phase PROVE Remove(o, a, p)[q][j] <= o[q][j]
    <3>1. o[q][j] \in Nat
      BY <2>2
    <3>2. Remove(o, a, p)[q][j] = o[q][j] - 1 \/ Remove(o, a, p)[q][j] = o[q][j]
      BY <2>1
    <3> QED
      BY <3>1, <3>2
  <2>4. \A q \in Phase : Remove(o, a, p)[q][j] \in Nat
    BY <1>1 DEF IsOps
  <2>5. "waiting" \in Phase /\ "ready" \in Phase /\ "failed" \in Phase
    BY DEF Phase
  <2>6. Outstanding(Remove(o, a, p), j) <= Outstanding(o, j)
    BY <2>2, <2>3, <2>4, <2>5 DEF Outstanding
  <2>7. j # a => Pending(Remove(o, a, p), j) = Pending(o, j)
    BY RemovePending
  <2> QED
    BY <2>3, <2>5, <2>6, <2>7
<1> QED
  BY <1>1, <1>2 DEF Less

LEMMA CompletedLess ==
  ASSUME NEW o, IsOps(o, Kinds), NEW a \in Kinds, NEW r \in Completed(o, a)
  PROVE  Less(o, r, a) /\ IsOps(r, Kinds)
<1>1. PICK p \in {"waiting", "ready"} : o[p][a] > 0 /\ r = Remove(o, a, p)
  BY DEF Completed
<1>2. p \in Phase
  BY DEF Phase
<1> QED
  BY <1>1, <1>2, RemoveLess DEF Less

LEMMA CancelLess ==
  ASSUME NEW o, IsOps(o, Kinds), NEW S, NEW a
  PROVE  Less(o, Cancel(o, S), a) /\ IsOps(Cancel(o, S), Kinds)
<1>1. IsOps(Cancel(o, S), Kinds)
  BY CancelType
<1>2. ASSUME NEW j \in Kinds
      PROVE  /\ Outstanding(Cancel(o, S), j) <= Outstanding(o, j)
             /\ Cancel(o, S)["waiting"][j] <= o["waiting"][j]
             /\ Cancel(o, S)["ready"][j] <= o["ready"][j]
             /\ Pending(Cancel(o, S), j) = Pending(o, j)
  <2>1. Outstanding(Cancel(o, S), j) <= Outstanding(o, j) /\ Pending(Cancel(o, S), j) = Pending(o, j)
    BY CancelPending
  <2>2. Cancel(o, S)["ready"] = o["ready"] /\ Cancel(o, S)["waiting"][j] = IF j \in S THEN 0 ELSE o["waiting"][j]
    BY CancelLive
  <2>3. o["waiting"][j] \in Nat /\ o["ready"][j] \in Nat
    BY TableNat
  <2> QED
    BY <2>1, <2>2, <2>3
<1> QED
  BY <1>1, <1>2 DEF Less

LEMMA ShutdownLess ==
  ASSUME NEW o, IsOps(o, Kinds), NEW a, NEW r \in Shutdown(o)
  PROVE  Less(o, r, a)
<1> DEFINE c == Cancel(o, OutOps \cup {"timer"})
<1>1. Less(o, c, a) /\ IsOps(c, Kinds)
  BY CancelLess
<1>2. PICK s \in Begin(c, "shutdown", TRUE, TRUE) : r = Add(s, "timer", "waiting")
  BY DEF Shutdown
<1> HIDE DEF c
<1>3. PICK p \in {"waiting", "ready"} : s = Add(c, "shutdown", p)
  BY DEF Begin
<1>4. "shutdown" \in Kinds /\ "timer" \in Kinds /\ p \in Phase /\ "waiting" \in Phase
  BY KindsFacts
<1>5. IsOps(s, Kinds) /\ IsOps(r, Kinds)
  BY <1>1, <1>2, <1>3, <1>4, AddType
<1>6. ASSUME NEW j \in Kinds \ {"shutdown", "timer"}
      PROVE  \A q \in Phase : r[q][j] = c[q][j]
  <2>1. j \in Kinds /\ j # "shutdown" /\ j # "timer"
    OBVIOUS
  <2>2. \A q \in Phase : s[q][j] = c[q][j]
    BY <1>1, <1>3, <1>4, <2>1 DEF Add, IsOps
  <2>3. \A q \in Phase : r[q][j] = s[q][j]
    BY <1>2, <1>4, <1>5, <2>1 DEF Add, IsOps
  <2> QED
    BY <2>2, <2>3
<1>7. Less(c, r, a)
  <2>1. ASSUME NEW j \in Kinds \ {"shutdown", "timer"}
        PROVE  /\ Outstanding(r, j) = Outstanding(c, j) /\ Pending(r, j) = Pending(c, j)
               /\ r["waiting"][j] = c["waiting"][j] /\ r["ready"][j] = c["ready"][j]
    BY <1>6, KindsFacts DEF Outstanding, Pending
  <2>2. \A j \in Kinds : Outstanding(c, j) \in Nat /\ c["waiting"][j] \in Nat /\ c["ready"][j] \in Nat
    BY <1>1, TableNat
  <2> QED
    BY <1>1, <1>5, <2>1, <2>2 DEF Less
<1> QED
  BY <1>1, <1>7, LessTrans

(* destroy(): whatever is left of the client's reads is ready already.     *)
LEMMA DestroyLess ==
  ASSUME NEW o, IsOps(o, Kinds), NEW a, Destroy(o)
  PROVE  /\ Less(o, ops', a)
         /\ status' = "DESTROY"
         /\ status # "DESTROY" =>
              /\ in_open' = FALSE /\ udp_open' = FALSE
              /\ ops'["waiting"]["in_read"] = 0 /\ ops'["waiting"]["udp_read"] = 0
         /\ status = "DESTROY" => UNCHANGED <<in_open, udp_open>>
<1>1. CASE status = "DESTROY"
  BY <1>1, LessSame DEF Destroy
<1>2. CASE status # "DESTROY"
  <2> DEFINE client == Cancel(o, InOps \cup UdpOps \cup {"resolve"})
  <2>1. Less(o, client, a) /\ IsOps(client, Kinds)
    BY CancelLess
  <2>2. client["waiting"]["in_read"] = 0 /\ client["waiting"]["udp_read"] = 0
    BY CancelLive, KindsFacts
  <2>3. ops' \in Shutdown(client) \/ ops' = client
    BY <1>2 DEF Destroy, CloseAll
  <2> HIDE DEF client
  <2>4. Less(client, ops', a)
    BY <2>1, <2>3, ShutdownLess, LessSame
  <2>5. Less(o, ops', a)
    BY <2>1, <2>4, LessTrans
  <2>6. ops'["waiting"]["in_read"] = 0 /\ ops'["waiting"]["udp_read"] = 0
    <3>1. IsOps(ops', Kinds)
      BY <2>4 DEF Less
    <3>2. /\ ops'["waiting"]["in_read"] \in Nat /\ ops'["waiting"]["udp_read"] \in Nat
          /\ ops'["waiting"]["in_read"] <= 0 /\ ops'["waiting"]["udp_read"] <= 0
      BY <2>2, <2>4, <3>1, TableNat, KindsFacts DEF Less
    <3> QED
      BY <3>2
  <2> QED
    BY <1>2, <2>5, <2>6 DEF Destroy, CloseAll
<1> QED
  BY <1>1, <1>2

(* A handler of an operation of kind a that starts one of kind b.          *)
Passed(a, b, open) ==
  /\ IsOps(ops', Kinds)
  /\ ops["waiting"][a] + ops["ready"][a] > 0 /\ Live(a) > 0
  /\ \A j \in Kinds :
       /\ Outstanding(ops', j) = Outstanding(ops, j) - (IF j = a THEN 1 ELSE 0)
                                                     + (IF j = b THEN 1 ELSE 0)
       /\ Pending(ops', j) = Pending(ops, j) - (IF j = a THEN 1 ELSE 0)
                                             + (IF j = b THEN 1 ELSE 0)
       /\ j # b \/ ~ open => /\ ops'["waiting"][j] <= ops["waiting"][j]
                             /\ ops'["ready"][j] <= ops["ready"][j]

LEMMA PassedBy ==
  ASSUME IsOps(ops, Kinds), NEW a \in Kinds, NEW b \in Kinds, NEW open \in BOOLEAN, NEW atOnce,
         NEW o \in Completed(ops, a), ops' \in Begin(o, b, open, atOnce)
  PROVE  Passed(a, b, open)
<1>1. PICK p \in {"waiting", "ready"} : ops[p][a] > 0 /\ o = Remove(ops, a, p)
  BY DEF Completed
<1>2. PICK q \in {"waiting", "ready", "failed"} : ops' = Add(o, b, q) /\ (~ open => q = "failed")
  BY DEF Begin
<1>3. p \in Phase /\ q \in Phase \ {"aborted"} /\ IsOps(o, Kinds)
  <2>1. p \in Phase /\ q \in Phase \ {"aborted"}
    BY KindsFacts
  <2> QED
    BY <2>1, <1>1, RemoveType
<1>4. IsOps(ops', Kinds)
  BY <1>2, <1>3, AddType
<1>5. ops["waiting"][a] + ops["ready"][a] > 0 /\ Live(a) > 0
  BY <1>1, TableNat DEF Live
<1>6. ASSUME NEW j \in Kinds
      PROVE  /\ Outstanding(o, j) = Outstanding(ops, j) - (IF j = a THEN 1 ELSE 0)
             /\ Pending(o, j) = Pending(ops, j) - (IF j = a THEN 1 ELSE 0)
             /\ Outstanding(ops', j) = Outstanding(o, j) + (IF j = b THEN 1 ELSE 0)
             /\ Pending(ops', j) = Pending(o, j) + (IF j = b THEN 1 ELSE 0)
  <2>1. Outstanding(o, j) = IF j = a THEN Outstanding(ops, j) - 1 ELSE Outstanding(ops, j)
    BY CompletedLive
  <2>2. Pending(o, j) = IF j = a THEN Pending(ops, j) - 1 ELSE Pending(ops, j)
    BY CompletedPending
  <2>3. Outstanding(ops', j) = IF j = b THEN Outstanding(o, j) + 1 ELSE Outstanding(o, j)
    BY <1>2, <1>3, AddLive
  <2>4. Pending(ops', j) = IF j = b THEN Pending(o, j) + 1 ELSE Pending(o, j)
    BY <1>2, <1>3, AddPending
  <2>5. Outstanding(ops, j) \in Nat /\ Pending(ops, j) \in Nat /\ Outstanding(o, j) \in Nat /\ Pending(o, j) \in Nat
    BY <1>3, TableNat
  <2> QED
    BY <2>1, <2>2, <2>3, <2>4, <2>5
<1>7. ASSUME NEW j \in Kinds, j # b \/ ~ open
      PROVE  ops'["waiting"][j] <= ops["waiting"][j] /\ ops'["ready"][j] <= ops["ready"][j]
  <2>1. \A w \in {"waiting", "ready"} : ops'[w][j] = o[w][j]
    BY <1>2, <1>3, <1>7, KindsFacts DEF Add, IsOps
  <2>2. o["waiting"][j] <= ops["waiting"][j] /\ o["ready"][j] <= ops["ready"][j]
    BY CompletedLive
  <2> QED
    BY <2>1, <2>2
<1> QED
  BY <1>4, <1>5, <1>6, <1>7 DEF Passed

-----------------------------------------------------------------------------
(* Steps that keep status and start nothing.                               *)
LEMMA FadeLife ==
  ASSUME Types, LifeInv, NEW a \in Kinds, Less(ops, ops', a),
         UNCHANGED <<status, in_open, udp_open>>,
         status = "CONNECT" => Chain' = Chain,
         status \in {"FORWARD", "UDP_FORWARD"} => a \notin {"out_read", "in_write", "udp_write"}
  PROVE  LifeInv'
<1> USE KindsFacts
<1>1. \A j \in Kinds \ {"shutdown", "timer"} :
        /\ Outstanding(ops', j) \in Nat /\ Outstanding(ops, j) \in Nat
        /\ Outstanding(ops', j) <= Outstanding(ops, j)
        /\ ops'["waiting"][j] \in Nat /\ ops["waiting"][j] \in Nat
        /\ ops'["ready"][j] \in Nat /\ ops["ready"][j] \in Nat
        /\ ops'["waiting"][j] <= ops["waiting"][j] /\ ops'["ready"][j] <= ops["ready"][j]
        /\ j # a => Pending(ops', j) = Pending(ops, j)
  BY TableNat DEF Less
<1>2. OpenInv'
  BY DEF LifeInv, OpenInv
<1>3. Chain' \in Nat /\ Chain \in Nat /\ Chain' <= Chain
  BY <1>1 DEF Chain, Live
<1>4. ChainInv'
  BY <1>1, <1>3 DEF LifeInv, ChainInv, Live
<1>5. DownlinkInv'
  BY <1>1 DEF LifeInv, DownlinkInv
<1>6. Chain' > 0 /\ Live("resolve")' = 0 => Chain > 0 /\ Live("resolve") = 0
  BY <1>1, <1>3 DEF LifeInv, ChainInv, Chain, Live
<1>7. QuietInv'
  BY <1>1, <1>6 DEF LifeInv, QuietInv
<1> QED
  BY <1>2, <1>4, <1>5, <1>7 DEF LifeInv

(* Steps in which destroy() runs.                                          *)
LEMMA DestroyLife ==
  ASSUME Types, PumpInv, LifeInv, NEW a \in Kinds, NEW o, Less(ops, o, a), Destroy(o)
  PROVE  LifeInv'
<1> USE KindsFacts
<1>1. IsOps(o, Kinds)
  BY DEF Less
<1>2. /\ Less(o, ops', a) /\ status' = "DESTROY"
      /\ status # "DESTROY" =>
           /\ in_open' = FALSE /\ udp_open' = FALSE
           /\ ops'["waiting"]["in_read"] = 0 /\ ops'["waiting"]["udp_read"] = 0
      /\ status = "DESTROY" => UNCHANGED <<in_open, udp_open>>
  BY <1>1, DestroyLess
<1>3. Less(ops, ops', a)
  BY <1>2, LessTrans
<1>4. \A j \in Kinds \ {"shutdown", "timer"} :
        /\ Outstanding(ops', j) \in Nat /\ Outstanding(ops, j) \in Nat
        /\ Outstanding(ops', j) <= Outstanding(ops, j)
        /\ ops'["waiting"][j] \in Nat /\ ops["waiting"][j] \in Nat
        /\ ops'["ready"][j] \in Nat /\ ops["ready"][j] \in Nat
        /\ ops'["waiting"][j] <= ops["waiting"][j] /\ ops'["ready"][j] <= ops["ready"][j]
  BY <1>3, TableNat DEF Less
<1>5. OpenInv'
  BY <1>2 DEF LifeInv, OpenInv, Prelude
<1>6. Chain' \in Nat /\ Chain \in Nat /\ Chain' <= Chain
  BY <1>4 DEF Chain, Live
<1>7. ChainInv'
  BY <1>2, <1>6 DEF LifeInv, ChainInv
<1>8. DownlinkInv'
  BY <1>2 DEF DownlinkInv
<1>9. Chain' > 0 /\ Live("resolve")' = 0 => Chain > 0 /\ Live("resolve") = 0
  BY <1>4, <1>6 DEF LifeInv, ChainInv, Chain, Live
<1>10. in_open => status # "DESTROY"
  BY DEF PumpInv, PreludeInv
<1>11. QuietInv'
  BY <1>2, <1>4, <1>9, <1>10 DEF LifeInv, QuietInv
<1> QED
  BY <1>5, <1>7, <1>8, <1>11 DEF LifeInv

(* The SOCKS dialogue.                                                     *)
LEMMA PreludeLife ==
  ASSUME Types, LifeInv, NEW a \in InOps, NEW b \in InOps, NEW open \in BOOLEAN,
         Passed(a, b, open), status \in Prelude, status' \in Prelude,
         UNCHANGED in_open
  PROVE  LifeInv'
<1> USE KindsFacts
<1>1. in_open
  BY DEF LifeInv, OpenInv
<1>2. OpenInv'
  BY <1>1 DEF OpenInv
<1>3. Chain' = Chain /\ Chain \in Nat
  <2>1. \A j \in Kinds : Outstanding(ops, j) \in Nat
    BY TableNat DEF Types
  <2>2. \A j \in {"resolve", "connect", "handshake"} : Outstanding(ops', j) = Outstanding(ops, j)
    BY <2>1 DEF Passed
  <2> QED
    BY <2>1, <2>2 DEF Chain, Live
<1>4. Chain = 0
  <2>1. Chain \in Nat
    BY <1>3
  <2> QED
    BY <2>1 DEF LifeInv, ChainInv, Prelude
<1>5. ChainInv'
  BY <1>3, <1>4 DEF ChainInv, Prelude
<1>6. DownlinkInv'
  BY DEF DownlinkInv, Prelude
<1>7. QuietInv'
  BY <1>1, <1>3, <1>4 DEF QuietInv
<1> QED
  BY <1>2, <1>5, <1>6, <1>7 DEF LifeInv

(* The pumps.                                                              *)
AnyTurn(a, b) ==
  \/ status = "FORWARD" /\ <<a, b>> \in Turns
  \/ status = "UDP_FORWARD" /\
       <<a, b>> \in UdpTurns \cup {<<"out_read", "out_read">>, <<"udp_write", "udp_write">>}

LEMMA TurnLife ==
  ASSUME Types, LifeInv, NEW a \in Kinds, NEW b \in Kinds, NEW open \in BOOLEAN,
         Passed(a, b, open), AnyTurn(a, b),
         b = "in_read" => open = in_open, b = "udp_read" => open = udp_open,
         UNCHANGED <<status, in_open, udp_open>>
  PROVE  LifeInv'
<1> USE KindsFacts
<1>1. OpenInv'
  BY DEF LifeInv, OpenInv
<1>2. \A j \in Kinds :
        /\ Outstanding(ops, j) \in Nat /\ Pending(ops, j) \in Nat
        /\ ops["waiting"][j] \in Nat /\ ops["ready"][j] \in Nat
        /\ Outstanding(ops', j) \in Nat /\ Pending(ops', j) \in Nat
        /\ ops'["waiting"][j] \in Nat /\ ops'["ready"][j] \in Nat
  <2>1. IsOps(ops, Kinds) /\ IsOps(ops', Kinds)
    BY DEF Types, Passed
  <2> QED
    BY <2>1, TableNat
<1>3. status \in {"FORWARD", "UDP_FORWARD"} /\ a \notin {"resolve", "connect", "handshake"}
      /\ b \notin {"resolve", "connect", "handshake"}
  BY DEF AnyTurn, Turns, UdpTurns
<1>4. \A j \in {"resolve", "connect", "handshake"} : Outstanding(ops', j) = Outstanding(ops, j)
  BY <1>2, <1>3 DEF Passed
<1>5. Chain' = Chain /\ Chain = 0
  <2>1. Chain' = Chain /\ Chain \in Nat
    BY <1>2, <1>4 DEF Chain, Live
  <2> QED
    BY <1>3, <2>1 DEF LifeInv, ChainInv
<1>6. ChainInv'
  BY <1>3, <1>5 DEF ChainInv
<1>7. DownlinkInv'
  <2>1. CASE status = "FORWARD" /\ <<a, b>> \in Turns
    <3>1. Pending(ops', "out_read") + Pending(ops', "in_write")
            = Pending(ops, "out_read") + Pending(ops, "in_write")
      BY <1>2, <2>1 DEF Turns, Passed
    <3> QED
      BY <2>1, <3>1 DEF LifeInv, DownlinkInv
  <2>2. CASE status = "UDP_FORWARD"
    <3>1. <<a, b>> \in UdpTurns \cup {<<"out_read", "out_read">>, <<"udp_write", "udp_write">>}
      BY <2>2 DEF AnyTurn
    <3>2. Pending(ops', "out_read") + Pending(ops', "udp_write")
            = Pending(ops, "out_read") + Pending(ops, "udp_write")
      BY <1>2, <3>1 DEF UdpTurns, Passed
    <3> QED
      BY <2>2, <3>2 DEF LifeInv, DownlinkInv
  <2> QED
    BY <2>1, <2>2 DEF AnyTurn
<1>8. QuietInv'
  <2>1. ASSUME NEW k \in {"in_read", "udp_read"}, ~ in_open
        PROVE  ops'["waiting"][k] = 0 /\ ops'["ready"][k] = 0
    <3>1. ops["waiting"][k] = 0 /\ ops["ready"][k] = 0
      BY <1>3, <2>1 DEF LifeInv, QuietInv
    <3>2. k # b \/ ~ open
      BY <2>1 DEF LifeInv, OpenInv
    <3>3. ops'["waiting"][k] <= ops["waiting"][k] /\ ops'["ready"][k] <= ops["ready"][k]
      BY <3>2 DEF Passed
    <3> QED
      BY <1>2, <3>1, <3>3
  <2> QED
    BY <1>5, <2>1 DEF QuietInv
<1> QED
  BY <1>1, <1>6, <1>7, <1>8 DEF LifeInv

(* The chain goes on.                                                      *)
LEMMA ChainLife ==
  ASSUME Types, LifeInv, NEW a \in Kinds, NEW b \in Kinds, NEW open \in BOOLEAN,
         Passed(a, b, open),
         <<a, b>> \in {<<"resolve", "connect">>, <<"connect", "handshake">>},
         a = "resolve" => ops["ready"]["in_read"] = 0 /\ ops["ready"]["udp_read"] = 0,
         UNCHANGED <<status, in_open, udp_open>>
  PROVE  LifeInv'
<1> USE KindsFacts
<1>1. OpenInv'
  BY DEF LifeInv, OpenInv
<1>2. \A j \in Kinds :
        /\ Outstanding(ops, j) \in Nat /\ Pending(ops, j) \in Nat
        /\ ops["waiting"][j] \in Nat /\ ops["ready"][j] \in Nat
        /\ Outstanding(ops', j) \in Nat /\ Pending(ops', j) \in Nat
        /\ ops'["waiting"][j] \in Nat /\ ops'["ready"][j] \in Nat
  <2>1. IsOps(ops, Kinds) /\ IsOps(ops', Kinds)
    BY DEF Types, Passed
  <2>2. ASSUME NEW j \in Kinds
        PROVE  /\ Outstanding(ops, j) \in Nat /\ Pending(ops, j) \in Nat
               /\ ops["waiting"][j] \in Nat /\ ops["ready"][j] \in Nat
    BY <2>1, TableNat
  <2>3. ASSUME NEW j \in Kinds
        PROVE  /\ Outstanding(ops', j) \in Nat /\ Pending(ops', j) \in Nat
               /\ ops'["waiting"][j] \in Nat /\ ops'["ready"][j] \in Nat
    BY <2>1, TableNat
  <2> QED
    BY <2>2, <2>3
<1>3. Chain' = Chain /\ Chain \in Nat
  <2>1. CASE a = "resolve"
    <3>1. /\ Outstanding(ops', "resolve") = Outstanding(ops, "resolve") - 1
          /\ Outstanding(ops', "connect") = Outstanding(ops, "connect") + 1
          /\ Outstanding(ops', "handshake") = Outstanding(ops, "handshake")
      BY <1>2, <2>1 DEF Passed
    <3> QED
      BY <1>2, <3>1 DEF Chain, Live
  <2>2. CASE a = "connect"
    <3>1. /\ Outstanding(ops', "resolve") = Outstanding(ops, "resolve")
          /\ Outstanding(ops', "connect") = Outstanding(ops, "connect") - 1
          /\ Outstanding(ops', "handshake") = Outstanding(ops, "handshake") + 1
      BY <1>2, <2>2 DEF Passed
    <3> QED
      BY <1>2, <3>1 DEF Chain, Live
  <2> QED
    BY <2>1, <2>2
<1>4. Chain > 0
  BY <1>2 DEF Chain, Live, Passed
<1>5. status \in {"CONNECT", "DESTROY"}
  BY <1>4 DEF LifeInv, ChainInv
<1>6. ChainInv'
  <2>1. \A j \in {"in_write", "udp_write"} : Outstanding(ops', j) = Outstanding(ops, j)
    BY <1>2 DEF Passed
  <2> QED
    BY <1>3, <2>1 DEF LifeInv, ChainInv, Live
<1>7. DownlinkInv'
  BY <1>5 DEF DownlinkInv
<1>8. QuietInv'
  <2>1. \A k \in {"in_read", "udp_read"} :
          ops'["waiting"][k] <= ops["waiting"][k] /\ ops'["ready"][k] <= ops["ready"][k]
    BY DEF Passed
  <2>2. \A k \in {"in_read", "udp_read"} : ops["ready"][k] = 0
    <3>1. CASE a = "resolve"
      BY <3>1
    <3>2. CASE a = "connect"
      <4>1. Live("connect") > 0 /\ Live("resolve") = 0
        BY <1>2, <3>2 DEF Passed, LifeInv, ChainInv, Chain, Live
      <4> QED
        BY <1>4, <4>1 DEF LifeInv, QuietInv
    <3> QED
      BY <3>1, <3>2
  <2> QED
    BY <1>2, <2>1, <2>2 DEF LifeInv, QuietInv
<1> QED
  BY <1>1, <1>6, <1>7, <1>8 DEF LifeInv

(* The end of the handshake, also after destroy(): no client read is ready *)
(* any more, and the downlink has its read.                                *)
LEMMA EstablishedLife ==
  ASSUME Types, LifeInv, Established
  PROVE  LifeInv'
<1> USE KindsFacts
<1>1. PICK o \in Completed(ops, "handshake") :
        \E r \in OutAsyncRead(ReadReplaced(o)) : ops' \in OutAsyncWrite(r)
  BY DEF Established
<1>2. PICK r \in OutAsyncRead(ReadReplaced(o)) : ops' \in OutAsyncWrite(r)
  BY <1>1
<1> DEFINE c == ReadReplaced(o)
<1>3. Less(ops, o, "handshake") /\ IsOps(o, Kinds)
  BY CompletedLess DEF Types
<1>4. Less(o, c, "handshake") /\ IsOps(c, Kinds)
  BY <1>3, LessSame, CancelLess DEF ReadReplaced
<1> HIDE DEF c
<1>5. Less(ops, c, "handshake")
  BY <1>3, <1>4, LessTrans
<1>6. PICK p \in {"waiting", "ready", "failed"} : r = Add(c, "out_read", p)
  BY <1>2 DEF OutAsyncRead, Begin, c
<1>7. PICK q \in {"waiting", "ready", "failed"} : ops' = Add(r, "out_write", q)
  BY <1>2 DEF OutAsyncWrite, Begin
<1>8. IsOps(r, Kinds)
  BY <1>4, <1>6, AddType
<1>9. IsOps(ops', Kinds)
  BY <1>7, <1>8, AddType
<1>10. /\ \A j \in Kinds \ {"out_read", "out_write"} : Outstanding(ops', j) = Outstanding(c, j)
       /\ \A j \in Kinds \ {"out_read", "out_write"} :
            ops'["waiting"][j] = c["waiting"][j] /\ ops'["ready"][j] = c["ready"][j]
       /\ Pending(ops', "out_read") = Pending(c, "out_read") + 1
  <2>1. \A j \in Kinds : Outstanding(r, j) = IF j = "out_read" THEN Outstanding(c, j) + 1 ELSE Outstanding(c, j)
    BY <1>4, <1>6, AddLive
  <2>2. \A j \in Kinds : Outstanding(ops', j) = IF j = "out_write" THEN Outstanding(r, j) + 1 ELSE Outstanding(r, j)
    BY <1>7, <1>8, AddLive
  <2>3. \A w \in {"waiting", "ready"}, j \in Kinds \ {"out_read", "out_write"} : r[w][j] = c[w][j]
    BY <1>4, <1>6 DEF Add, IsOps
  <2>4. \A w \in {"waiting", "ready"}, j \in Kinds \ {"out_read", "out_write"} : ops'[w][j] = r[w][j]
    BY <1>7, <1>8 DEF Add, IsOps
  <2>5. Pending(r, "out_read") = Pending(c, "out_read") + 1
    BY <1>4, <1>6, AddPending
  <2>6. Pending(ops', "out_read") = Pending(r, "out_read")
    BY <1>7, <1>8, AddPending
  <2> QED
    BY <2>1, <2>2, <2>3, <2>4, <2>5, <2>6
<1>11. Live("handshake") = 1 /\ Live("resolve") = 0 /\ Live("connect") = 0 /\ Chain > 0
       /\ Outstanding(o, "handshake") = 0
  <2>k. IsOps(ops, Kinds) /\ "handshake" \in Kinds
    BY DEF Types
  <2>1. Live("handshake") > 0 /\ Outstanding(o, "handshake") = Live("handshake") - 1
    BY <1>1, <2>k, CompletedLive DEF Live
  <2>2. Live("handshake") \in Nat /\ Live("resolve") \in Nat /\ Live("connect") \in Nat
    BY TableNat DEF Types, Live
  <2> QED
    BY <2>1, <2>2 DEF LifeInv, ChainInv, Chain
<1>12. \A j \in {"resolve", "connect", "handshake"} : Outstanding(c, j) = 0
  <2>1. \A j \in {"resolve", "connect", "handshake"} :
          Outstanding(c, j) <= Outstanding(o, j) /\ Outstanding(o, j) <= Live(j)
    BY <1>3, <1>4 DEF Less, Live
  <2>2. \A j \in {"resolve", "connect", "handshake"} : Outstanding(c, j) \in Nat /\ Outstanding(o, j) \in Nat
    BY <1>3, <1>4, TableNat
  <2>3. Outstanding(c, "resolve") = 0
    BY <1>11, <2>1, <2>2
  <2>4. Outstanding(c, "connect") = 0
    BY <1>11, <2>1, <2>2
  <2>5. Outstanding(c, "handshake") = 0
    BY <1>11, <2>1, <2>2
  <2> QED
    BY <2>3, <2>4, <2>5
<1>13. Chain' = 0
  BY <1>10, <1>12 DEF Chain, Live
<1>14. /\ status' \in {"FORWARD", "UDP_FORWARD"} /\ UNCHANGED <<in_open, udp_open>>
  BY DEF Established, sockets
<1>15. OpenInv' /\ ChainInv'
  BY <1>13, <1>14 DEF LifeInv, OpenInv, ChainInv, Prelude
<1>16. DownlinkInv'
  <2>1. \A j \in Kinds : Pending(ops', j) \in Nat /\ Pending(c, j) \in Nat
    BY <1>4, <1>9, TableNat
  <2> QED
    BY <1>10, <2>1 DEF DownlinkInv
<1>17. QuietInv'
  <2>1. ASSUME NEW k \in {"in_read", "udp_read"}, ~ in_open
        PROVE  ops'["waiting"][k] = 0 /\ ops'["ready"][k] = 0
    <3>1. ops["waiting"][k] = 0 /\ ops["ready"][k] = 0
      BY <1>11, <2>1 DEF LifeInv, QuietInv
    <3>2. c["waiting"][k] <= ops["waiting"][k] /\ c["ready"][k] <= ops["ready"][k]
      BY <1>5 DEF Less
    <3>3. c["waiting"][k] \in Nat /\ c["ready"][k] \in Nat
      BY <1>4, TableNat
    <3> QED
      BY <1>10, <3>1, <3>2, <3>3
  <2> QED
    BY <1>13, <1>14, <2>1 DEF QuietInv
<1> QED
  BY <1>15, <1>16, <1>17 DEF LifeInv

(* The request was answered: the chain begins.                             *)
LEMMA RequestLife ==
  ASSUME Types, PumpInv, LifeInv, InSentRequest
  PROVE  LifeInv'
<1> USE KindsFacts
<1>1. PICK o \in Completed(ops, "in_write") :
        \E r \in Begin(o, "in_read", in_open,
                      IF is_udp THEN "CONNECT" \in StrayIn ELSE MoreUp(o)) :
          \E u \in IF is_udp THEN UdpAsyncRead(r) ELSE {r} :
            ops' = Add(u, "resolve", "waiting")
  BY ConnectReadsSplit DEF InSentRequest
<1>2. PICK r \in Begin(o, "in_read", in_open,
                      IF is_udp THEN "CONNECT" \in StrayIn ELSE MoreUp(o)) :
        \E u \in IF is_udp THEN UdpAsyncRead(r) ELSE {r} :
          ops' = Add(u, "resolve", "waiting")
  BY <1>1
<1>3. PICK u \in IF is_udp THEN UdpAsyncRead(r) ELSE {r} :
        ops' = Add(u, "resolve", "waiting")
  BY <1>2
<1>4. IsOps(o, Kinds) /\ IsOps(ops, Kinds)
  BY CompletedLess DEF Types
<1>5. IsOps(r, Kinds)
  BY <1>4, BeginType
<1>6. \A j \in Kinds : Outstanding(r, j) = IF j = "in_read" THEN Outstanding(o, j) + 1 ELSE Outstanding(o, j)
  <2>1. \E open, atOnce : r \in Begin(o, "in_read", open, atOnce)
    BY <1>2
  <2> QED
    BY <1>4, <2>1, BeginStarts
<1>7. IsOps(u, Kinds) /\ \A j \in Kinds \ {"udp_read"} : Outstanding(u, j) = Outstanding(r, j)
  <2>1. CASE is_udp
    <3>1. PICK open, atOnce : u \in Begin(r, "udp_read", open, atOnce)
      BY <1>3, <2>1 DEF UdpAsyncRead
    <3> QED
      BY <1>5, <3>1, BeginType, BeginStarts
  <2>2. CASE ~ is_udp
    BY <1>3, <1>5, <2>2
  <2> QED
    BY <2>1, <2>2
<1>8. \A j \in Kinds : Outstanding(ops', j) = IF j = "resolve" THEN Outstanding(u, j) + 1 ELSE Outstanding(u, j)
  BY <1>3, <1>7, AddLive
<1>9. /\ status = "REQUEST" /\ status' = "CONNECT"
      /\ UNCHANGED <<is_udp, in_open, udp_open>>
  BY DEF InSentRequest, sockets
<1>10. in_open
  BY <1>9 DEF LifeInv, OpenInv, Prelude
<1>11. /\ Live("in_write") = 1 /\ Live("udp_write") = 0
       /\ Live("resolve") = 0 /\ Live("connect") = 0 /\ Live("handshake") = 0
  <2>1. Live("in_read") + Live("in_write") = 1 /\ None(Kinds \ InOps)
    BY <1>9, <1>10 DEF PumpInv, PreludeInv
  <2>2. Live("in_write") > 0
    BY <1>4, CompletedLive DEF Live
  <2>3. Live("in_write") \in Nat /\ Live("in_read") \in Nat
    BY <1>4, TableNat DEF Live
  <2> QED
    BY <2>1, <2>2, <2>3 DEF None
<1>12. \A j \in Kinds : Outstanding(o, j) = IF j = "in_write" THEN Live(j) - 1 ELSE Live(j)
  BY <1>4, CompletedLive DEF Live
<1>13. /\ Outstanding(ops', "in_write") = 0 /\ Outstanding(ops', "udp_write") = 0
       /\ Outstanding(ops', "resolve") = 1 /\ Outstanding(ops', "connect") = 0
       /\ Outstanding(ops', "handshake") = 0
  BY <1>6, <1>7, <1>8, <1>11, <1>12
<1>14. OpenInv' /\ ChainInv'
  BY <1>9, <1>10, <1>13 DEF OpenInv, ChainInv, Chain, Live
<1>15. DownlinkInv' /\ QuietInv'
  BY <1>9, <1>10, <1>13 DEF DownlinkInv, QuietInv, Live
<1> QED
  BY <1>14, <1>15 DEF LifeInv

(* An operation that becomes ready is counted as before.                   *)
LEMMA PerformCounts ==
  ASSUME Types, Perform, NEW j \in Kinds
  PROVE  Outstanding(ops', j) = Outstanding(ops, j) /\ Pending(ops', j) = Pending(ops, j)
<1>1. PICK k \in Kinds :
        ops["waiting"][k] > 0 /\ ops' = Add(Remove(ops, k, "waiting"), k, "ready")
  BY DEF Perform
<1> DEFINE o == Remove(ops, k, "waiting")
<1>2. /\ "waiting" \in Phase \ {"aborted"} /\ "ready" \in Phase \ {"aborted"}
      /\ "waiting" \in Phase /\ "ready" \in Phase
  BY DEF Phase
<1>3. IsOps(o, Kinds) /\ IsOps(ops, Kinds)
  BY <1>1, <1>2, RemoveType DEF Types
<1>4. Outstanding(o, j) = IF j = k THEN Outstanding(ops, j) - 1 ELSE Outstanding(ops, j)
  BY <1>2, <1>3, RemoveLive
<1>5. Pending(o, j) = IF j = k THEN Pending(ops, j) - 1 ELSE Pending(ops, j)
  BY <1>2, <1>3, RemovePending
<1>6. ops' = Add(o, k, "ready")
  BY <1>1
<1> HIDE DEF o
<1>7. Outstanding(ops', j) = IF j = k THEN Outstanding(o, j) + 1 ELSE Outstanding(o, j)
  BY <1>2, <1>3, <1>6, AddLive
<1>8. Pending(ops', j) = IF j = k THEN Pending(o, j) + 1 ELSE Pending(o, j)
  BY <1>2, <1>3, <1>6, AddPending
<1>9. Outstanding(ops, j) \in Nat /\ Pending(ops, j) \in Nat
  BY <1>3, TableNat
<1> QED
  BY <1>4, <1>5, <1>7, <1>8, <1>9

(* An operation becomes ready: no client read does while the chain is past *)
(* the resolver, for it has its socket to itself.                          *)
LEMMA PerformLife ==
  ASSUME Types, PumpInv, LifeInv, Perform
  PROVE  LifeInv'
<1>1. PICK k \in Kinds :
        /\ ops["waiting"][k] > 0
        /\ k \in {"resolve", "timer", "handshake", "shutdown"} \/ Shares(k)
        /\ ops' = Add(Remove(ops, k, "waiting"), k, "ready")
  BY DEF Perform
<1> DEFINE o == Remove(ops, k, "waiting")
<1>p. "waiting" \in Phase /\ "ready" \in Phase
  BY DEF Phase
<1>2. IsOps(o, Kinds) /\ IsOps(ops, Kinds)
  BY <1>1, <1>p, RemoveType DEF Types
<1>3. IsOps(ops', Kinds)
  BY <1>1, <1>p, <1>2, AddType
<1>4. \A q \in Phase, j \in Kinds :
        ops'[q][j] = IF q = "waiting" /\ j = k THEN ops[q][j] - 1
                     ELSE IF q = "ready" /\ j = k THEN ops[q][j] + 1 ELSE ops[q][j]
  BY <1>1, <1>p, <1>2 DEF Add, Remove, IsOps
<1>5. ASSUME NEW j \in Kinds
      PROVE  Outstanding(ops', j) = Outstanding(ops, j) /\ Pending(ops', j) = Pending(ops, j)
  BY PerformCounts
<1> USE KindsFacts
<1>6. Chain' = Chain /\ Live("resolve")' = Live("resolve")
  BY <1>5 DEF Chain, Live
<1>7. UNCHANGED <<status, in_open, udp_open>>
  BY DEF Perform, conn, sockets
<1>8. OpenInv' /\ ChainInv' /\ DownlinkInv'
  BY <1>5, <1>6, <1>7 DEF LifeInv, OpenInv, ChainInv, DownlinkInv, Live
<1>9. ASSUME NEW n \in {"in_read", "udp_read"}
      PROVE  /\ ~ in_open => ops'["waiting"][n] = 0
             /\ Chain > 0 /\ Live("resolve") = 0 => ops'["ready"][n] = 0
             /\ ~ in_open /\ status # "DESTROY" => ops'["ready"][n] = 0
  <2>1. CASE n # k
    BY <1>4, <2>1 DEF LifeInv, QuietInv
  <2>2. CASE n = k
    <3>1. in_open
      BY <1>1, <2>2 DEF LifeInv, QuietInv
    <3>2. ASSUME Chain > 0, Live("resolve") = 0 PROVE FALSE
      <4>1. status = "CONNECT"
        BY <3>1, <3>2 DEF LifeInv, ChainInv, PumpInv, PreludeInv
      <4>2. Live("in_write") = 0 /\ Live("udp_write") = 0
        BY <4>1 DEF LifeInv, ChainInv
      <4>3. ops["waiting"]["in_write"] = 0
        <5>1. \A q \in {"waiting", "ready", "failed"} : ops[q]["in_write"] \in Nat
          BY <1>2, PhaseNat
        <5> QED
          BY <4>2, <5>1 DEF Live, Outstanding
      <4>4. ops["waiting"]["udp_write"] = 0
        <5>1. /\ ops["waiting"]["udp_write"] \in Nat /\ ops["ready"]["udp_write"] \in Nat
              /\ ops["failed"]["udp_write"] \in Nat
          BY <1>2, PhaseNat
        <5>2. ops["waiting"]["udp_write"] + ops["ready"]["udp_write"] + ops["failed"]["udp_write"] = 0
          BY <4>2 DEF Live, Outstanding
        <5> QED
          BY <5>1, <5>2
      <4>5. Shares(k)
        BY <1>1, <2>2
      <4>6. PICK S \in {InOps, UdpOps, OutOps} :
              k \in S /\ \E j \in S : j # k /\ ops["waiting"][j] > 0
        BY <4>5 DEF Shares
      <4>7. PICK j \in S : j # k /\ ops["waiting"][j] > 0
        BY <4>6
      <4>8. k \notin OutOps
        BY <2>2 DEF OutOps
      <4>9. CASE n = "in_read"
        <5>1. j = "in_write"
          BY <2>2, <4>6, <4>7, <4>8, <4>9
        <5> QED
          BY <4>3, <4>7, <5>1
      <4>10. CASE n = "udp_read"
        <5>1. j = "udp_write"
          BY <2>2, <4>6, <4>7, <4>8, <4>10
        <5> QED
          BY <4>4, <4>7, <5>1
      <4> QED
        BY <4>9, <4>10
    <3> QED
      BY <3>1, <3>2
  <2> QED
    BY <2>1, <2>2
<1>10. QuietInv'
  BY <1>6, <1>7, <1>9 DEF QuietInv
<1> QED
  BY <1>8, <1>10 DEF LifeInv

(* The three ways a handler of an operation of kind a ends.                *)
LEMMA EndsInDestroy ==
  ASSUME Types, PumpInv, LifeInv, NEW a \in Kinds, NEW o \in Completed(ops, a), Destroy(o)
  PROVE  LifeInv'
<1>1. IsOps(ops, Kinds)
  BY DEF Types
<1>2. Less(ops, o, a)
  BY <1>1, CompletedLess
<1> QED
  BY <1>2, DestroyLife

LEMMA EndsInTurn ==
  ASSUME Types, LifeInv, NEW a \in Kinds, NEW b \in Kinds, NEW open \in BOOLEAN, NEW atOnce,
         NEW o \in Completed(ops, a), ops' \in Begin(o, b, open, atOnce), AnyTurn(a, b),
         b = "in_read" => open = in_open, b = "udp_read" => open = udp_open,
         UNCHANGED <<status, in_open, udp_open>>
  PROVE  LifeInv'
<1>1. IsOps(ops, Kinds)
  BY DEF Types
<1>2. Passed(a, b, open)
  BY <1>1, PassedBy
<1> QED
  BY <1>2, TurnLife

LEMMA EndsAtOnce ==
  ASSUME Types, LifeInv, NEW a \in {"in_read", "udp_read"}, ops' \in Completed(ops, a),
         UNCHANGED <<status, in_open, udp_open>>
  PROVE  LifeInv'
<1>1. IsOps(ops, Kinds) /\ a \in Kinds
  BY KindsIn DEF Types
<1>2. Less(ops, ops', a)
  BY <1>1, CompletedLess
<1>3. \A j \in {"resolve", "connect", "handshake"} : Outstanding(ops', j) = Outstanding(ops, j)
  BY <1>1, CompletedLive, KindsIn
<1>4. Chain' = Chain
  BY <1>3 DEF Chain, Live
<1> QED
  BY <1>1, <1>2, <1>4, FadeLife

LEMMA UdpSentLife ==
  ASSUME Types, PumpInv, LifeInv, status = "UDP_FORWARD", NEW a \in {"out_read", "udp_write"},
         NEW o \in Completed(ops, a), NEW buf, UdpSentWith(o, buf)
  PROVE  LifeInv'
<1>1. a \in Kinds
  BY KindsIn
<1>2. CASE Destroy(o)
  BY <1>1, <1>2, EndsInDestroy
<1>3. ASSUME NEW b \in {"out_read", "udp_write"} PROVE AnyTurn(a, b) /\ b \in Kinds
  BY KindsIn DEF AnyTurn, UdpTurns
<1>4. CASE ops' \in UdpAsyncWrite(o) /\ UNCHANGED <<status, in_open, udp_open>>
  <2>1. ops' \in Begin(o, "udp_write", udp_open, TRUE) /\ udp_open \in BOOLEAN
    BY <1>4 DEF UdpAsyncWrite, Types
  <2>2. AnyTurn(a, "udp_write") /\ "udp_write" \in Kinds
    BY <1>3
  <2> QED
    BY <1>1, <1>4, <2>1, <2>2, EndsInTurn
<1>5. CASE /\ ops' \in Begin(o, "out_read", out_open, down_taken' < MaxDown)
           /\ UNCHANGED <<status, in_open, udp_open>>
  <2>1. out_open \in BOOLEAN
    BY DEF Types
  <2>2. AnyTurn(a, "out_read") /\ "out_read" \in Kinds
    BY <1>3
  <2> QED
    BY <1>1, <1>5, <2>1, <2>2, EndsInTurn
<1> QED
  BY <1>2, <1>4, <1>5 DEF UdpSentWith

(* Every step keeps the invariant.                                         *)
LEMMA LifeStep ==
  ASSUME Types, PumpInv, LifeInv, [Next]_vars
  PROVE  LifeInv'
<1>o. IsOps(ops, Kinds)
  BY DEF Types
<1>b. in_open \in BOOLEAN /\ udp_open \in BOOLEAN /\ out_open \in BOOLEAN
  BY DEF Types
<1>i. "in_read" \in InOps /\ "in_write" \in InOps
  BY KindsFacts
<1>k. {"in_read", "in_write", "udp_read", "udp_write", "connect", "handshake",
       "out_read", "out_write", "shutdown", "resolve", "timer"} \subseteq Kinds
  BY KindsIn
<1>1. CASE InRecvHandshake
  <2>1. PICK o \in Completed(ops, "in_read") :
          \/ Destroy(o)
          \/ /\ status' \in {"HANDSHAKE", "INVALID"}
             /\ ops' \in InAsyncWrite(o)
             /\ UNCHANGED <<in_open, udp_open>>
    BY <1>1 DEF InRecvHandshake
  <2>2. CASE Destroy(o)
    BY <1>k, <2>2, EndsInDestroy
  <2>3. CASE /\ status' \in {"HANDSHAKE", "INVALID"}
             /\ ops' \in InAsyncWrite(o)
             /\ UNCHANGED <<in_open, udp_open>>
    <3>1. Passed("in_read", "in_write", in_open)
      BY <1>o, <1>b, <1>k, <2>3, PassedBy DEF InAsyncWrite
    <3>2. status \in Prelude /\ status' \in Prelude
      BY <1>1, <2>3 DEF InRecvHandshake, Prelude
    <3> QED
      BY <1>b, <1>i, <2>3, <3>1, <3>2, PreludeLife
  <2> QED
    BY <2>1, <2>2, <2>3
<1>2. CASE InRecvRequest
  <2>1. PICK o \in Completed(ops, "in_read") :
       \/ Destroy(o) /\ UNCHANGED <<is_udp, out_write_buf>>
       \/ /\ status' = "INVALID"
          /\ out_write_buf' = <<Header>>
          /\ ops' \in InAsyncWrite(o)
          /\ UNCHANGED <<is_udp, in_open, udp_open>>
       \/ \E c \in Commands :
            /\ is_udp' = (c = "UDP_ASSOCIATE")
            /\ out_write_buf' = <<Header>>
            /\ \/ /\ udp_open' = is_udp'
                  /\ ops' \in InAsyncWrite(o)
                  /\ UNCHANGED <<status, in_open>>
               \/ c = "UDP_ASSOCIATE" /\ Destroy(o)
    BY <1>2 DEF InRecvRequest
  <2>2. CASE Destroy(o)
    BY <1>k, <2>2, EndsInDestroy
  <2>3. CASE ops' \in InAsyncWrite(o) /\ status' \in {"INVALID", status} /\ in_open' = in_open
    <3>1. Passed("in_read", "in_write", in_open)
      BY <1>o, <1>b, <1>k, <2>3, PassedBy DEF InAsyncWrite
    <3>2. status \in Prelude /\ status' \in Prelude
      BY <1>2, <2>3 DEF InRecvRequest, Prelude
    <3> QED
      BY <1>b, <1>i, <2>3, <3>1, <3>2, PreludeLife
  <2> QED
    BY <2>1, <2>2, <2>3
<1>3. CASE InRecvConnect
  BY <1>3, EndsAtOnce DEF InRecvConnect, sockets
<1>4. CASE InRecvForward
  <2>1. PICK o \in Completed(ops, "in_read") : ops' \in Begin(o, "out_write", out_open, TRUE)
    BY <1>4 DEF InRecvForward, OutAsyncWrite
  <2>2. AnyTurn("in_read", "out_write") /\ UNCHANGED <<status, in_open, udp_open>>
    BY <1>4 DEF InRecvForward, AnyTurn, Turns, sockets, conn
  <2> QED
    BY <1>b, <1>k, <2>1, <2>2, EndsInTurn
<1>5. CASE InRecvUdpForward
  BY <1>5, <1>k, EndsInDestroy DEF InRecvUdpForward
<1>6. CASE Dropped
  <2>1. PICK k \in {"in_read", "in_write", "udp_read", "udp_write", "out_read", "out_write"} :
          ops["ready"][k] > 0 /\ ops' = Remove(ops, k, "ready")
    BY <1>6 DEF Dropped
  <2>2. k \in Kinds /\ "ready" \in Phase
    BY <1>k DEF Phase
  <2>3. Less(ops, ops', k)
    BY <1>o, <2>1, <2>2, RemoveLess
  <2>4. status = "DESTROY" /\ UNCHANGED <<status, in_open, udp_open>>
    BY <1>6 DEF Dropped, conn, sockets
  <2> QED
    BY <2>2, <2>3, <2>4, FadeLife
<1>7. CASE InSentHandshake
  <2>1. PICK o \in Completed(ops, "in_write") : ops' \in Begin(o, "in_read", in_open, TRUE)
    BY <1>7 DEF InSentHandshake
  <2>2. Passed("in_write", "in_read", in_open)
    BY <1>o, <1>b, <1>k, <2>1, PassedBy
  <2>3. status \in Prelude /\ status' \in Prelude /\ in_open' = in_open
    BY <1>7 DEF InSentHandshake, Prelude, sockets
  <2> QED
    BY <1>b, <1>i, <2>2, <2>3, PreludeLife
<1>8. CASE InSentRequest
  BY <1>8, RequestLife
<1>9. CASE InSentForward
  <2>1. PICK o \in Completed(ops, "in_write") : ops' \in Begin(o, "out_read", out_open, down_taken < MaxDown)
    BY <1>9 DEF InSentForward, OutAsyncRead
  <2>2. AnyTurn("in_write", "out_read") /\ UNCHANGED <<status, in_open, udp_open>>
    BY <1>9 DEF InSentForward, AnyTurn, Turns, sockets, conn
  <2> QED
    BY <1>b, <1>k, <2>1, <2>2, EndsInTurn
<1>10. CASE InSentInvalid
  BY <1>10, <1>k, EndsInDestroy DEF InSentInvalid
<1>11. CASE Resolved
  <2>1. Remove(ops, "resolve", "ready") \in Completed(ops, "resolve")
    BY <1>11 DEF Resolved, Completed
  <2>2. CASE Destroy(Remove(ops, "resolve", "ready"))
    BY <1>k, <2>1, <2>2, EndsInDestroy
  <2>3. CASE /\ ops' \in Begin(Remove(ops, "resolve", "ready"), "connect", TRUE, TRUE)
             /\ UNCHANGED <<status, in_open, udp_open>>
    <3>1. Passed("resolve", "connect", TRUE)
      BY <1>o, <1>k, <2>1, <2>3, PassedBy
    <3>2. ops["ready"]["in_read"] = 0 /\ ops["ready"]["udp_read"] = 0
      BY <1>11 DEF Resolved
    <3> QED
      BY <1>k, <2>3, <3>1, <3>2, ChainLife
  <2> QED
    BY <1>11, <2>2, <2>3 DEF Resolved
<1>12. CASE Connected
  <2>1. PICK o \in Completed(ops, "connect") : ops' \in Begin(o, "handshake", out_open, FALSE)
    BY <1>12 DEF Connected
  <2>2. Passed("connect", "handshake", out_open)
    BY <1>o, <1>b, <1>k, <2>1, PassedBy
  <2>3. UNCHANGED <<status, in_open, udp_open>>
    BY <1>12 DEF Connected, sockets, conn
  <2> QED
    BY <1>b, <1>k, <2>2, <2>3, ChainLife
<1>13. CASE Established
  BY <1>13, EstablishedLife
<1>14. CASE OutRecvForward
  <2>1. PICK o \in Completed(ops, "out_read") : ops' \in Begin(o, "in_write", in_open, TRUE)
    BY <1>14 DEF OutRecvForward, InAsyncWrite
  <2>2. AnyTurn("out_read", "in_write") /\ UNCHANGED <<status, in_open, udp_open>>
    BY <1>14 DEF OutRecvForward, AnyTurn, Turns, sockets, conn
  <2> QED
    BY <1>b, <1>k, <2>1, <2>2, EndsInTurn
<1>15. CASE OutRecvUdpForward
  BY <1>15, UdpSentLife DEF OutRecvUdpForward
<1>16. CASE UdpSent
  BY <1>16, UdpSentLife DEF UdpSent
<1>17. CASE OutSent
  <2>1. PICK o \in Completed(ops, "out_write") : ops' \in NextRead(o)
    BY <1>17 DEF OutSent
  <2>2. UNCHANGED <<status, in_open, udp_open>>
    BY <1>17 DEF OutSent, sockets, conn
  <2>3. CASE status = "FORWARD"
    <3>1. ops' \in Begin(o, "in_read", in_open, MoreUp(o))
      BY <2>1, <2>3 DEF NextRead, InAsyncRead
    <3>2. AnyTurn("out_write", "in_read")
      BY <2>3 DEF AnyTurn, Turns
    <3> QED
      BY <1>b, <1>k, <2>2, <3>1, <3>2, EndsInTurn
  <2>4. CASE status = "UDP_FORWARD"
    <3>1. ops' \in Begin(o, "udp_read", udp_open, MoreUp(o))
      BY <2>1, <2>4 DEF NextRead, UdpAsyncRead
    <3>2. AnyTurn("out_write", "udp_read")
      BY <2>4 DEF AnyTurn, UdpTurns
    <3> QED
      BY <1>b, <1>k, <2>2, <3>1, <3>2, EndsInTurn
  <2> QED
    BY <1>17, <2>3, <2>4 DEF OutSent
<1>18. CASE UdpRecvEmpty
  BY <1>18, EndsAtOnce DEF UdpRecvEmpty, conn, sockets
<1>19. CASE UdpRecvBad
  BY <1>19, <1>k, EndsInDestroy DEF UdpRecvBad
<1>20. CASE UdpRecvConnect
  BY <1>20, EndsAtOnce DEF UdpRecvConnect, sockets
<1>21. CASE UdpRecvForward
  <2>1. PICK o \in Completed(ops, "udp_read") : ops' \in Begin(o, "out_write", out_open, TRUE)
    BY <1>21 DEF UdpRecvForward, OutAsyncWrite
  <2>2. AnyTurn("udp_read", "out_write") /\ UNCHANGED <<status, in_open, udp_open>>
    BY <1>21 DEF UdpRecvForward, AnyTurn, UdpTurns, sockets, conn
  <2> QED
    BY <1>b, <1>k, <2>1, <2>2, EndsInTurn
<1>22. CASE Fail
  <2>1. PICK k \in Kinds, p \in Phase : ops[p][k] > 0 /\ Destroy(Remove(ops, k, p))
    BY <1>22 DEF Fail, Phase
  <2>2. Less(ops, Remove(ops, k, p), k)
    BY <1>o, <2>1, RemoveLess
  <2> QED
    BY <2>1, <2>2, DestroyLife
<1>23. CASE IgnoreAbort
  <2>1. PICK k \in {"in_read", "udp_read", "shutdown", "timer"} :
          ops["aborted"][k] > 0 /\ ops' = Remove(ops, k, "aborted")
    BY <1>23 DEF IgnoreAbort
  <2>2. k \in Kinds /\ "aborted" \in Phase
    BY <1>k DEF Phase
  <2>3. Less(ops, ops', k)
    BY <1>o, <2>1, <2>2, RemoveLess
  <2>4. \A j \in {"resolve", "connect", "handshake"} : Outstanding(ops', j) = Outstanding(ops, j)
    BY <1>k, <1>o, <2>1, <2>2 DEF Outstanding, Remove, IsOps, Phase
  <2>5. Chain' = Chain
    BY <2>4 DEF Chain, Live
  <2>6. UNCHANGED <<status, in_open, udp_open>>
    BY <1>23 DEF IgnoreAbort, conn, sockets
  <2> QED
    BY <2>1, <2>2, <2>3, <2>5, <2>6, FadeLife
<1>24. CASE ShutdownDone
  <2>1. PICK k \in {"shutdown", "timer"} : \E o \in Completed(ops, k) :
          ops' = Cancel(o, OutOps \cup {"timer"})
    BY <1>24 DEF ShutdownDone
  <2>2. PICK o \in Completed(ops, k) : ops' = Cancel(o, OutOps \cup {"timer"})
    BY <2>1
  <2>3. k \in Kinds
    BY <1>k
  <2>4. Less(ops, o, k) /\ IsOps(o, Kinds)
    BY <1>o, <2>3, CompletedLess
  <2>5. Less(o, ops', k)
    BY <2>2, <2>4, CancelLess
  <2>6. Less(ops, ops', k)
    BY <2>4, <2>5, LessTrans
  <2>7. UNCHANGED <<status, in_open, udp_open>>
    BY <1>24 DEF ShutdownDone, conn
  <2>8. Live(k) > 0
    BY <1>o, <2>3, CompletedLive DEF Live
  <2>9. status # "CONNECT"
    BY <2>8 DEF LifeInv, OpenInv, PumpInv, PreludeInv, None
  <2> QED
    BY <2>3, <2>6, <2>7, <2>9, FadeLife
<1>25. CASE Perform
  BY <1>25, PerformLife
<1>26. CASE UNCHANGED vars
  BY <1>26 DEF vars, conn, sockets, LifeInv, OpenInv, ChainInv, DownlinkInv, QuietInv, Chain, Live
<1> QED
  BY <1>1, <1>2, <1>3, <1>4, <1>5, <1>6, <1>7, <1>8, <1>9, <1>10, <1>11, <1>12,
     <1>13, <1>14, <1>15, <1>16, <1>17, <1>18, <1>19, <1>20, <1>21, <1>22, <1>23,
     <1>24, <1>25, <1>26 DEF Next, Proceed

LEMMA LifeInit == Init => LifeInv
<1> SUFFICES ASSUME Init PROVE LifeInv
  OBVIOUS
<1>1. PICK p \in {"waiting", "ready"} : ops = Add(NoOps(Kinds), "in_read", p)
  BY DEF Init, Begin
<1>2. IsOps(NoOps(Kinds), Kinds) /\ "in_read" \in Kinds /\ p \in Phase \ {"aborted"}
  BY NoOpsType, KindsIn DEF Phase
<1>3. \A j \in {"resolve", "connect", "handshake"} : Outstanding(ops, j) = 0
  <2>1. \A j \in Kinds : Outstanding(NoOps(Kinds), j) = 0
    BY DEF NoOps, Outstanding, Phase
  <2>2. \A j \in Kinds : j # "in_read" => Outstanding(ops, j) = Outstanding(NoOps(Kinds), j)
    BY <1>1, <1>2, AddLive
  <2> QED
    BY <2>1, <2>2, KindsIn
<1>4. Chain = 0
  BY <1>3 DEF Chain, Live
<1>5. status = "HANDSHAKE" /\ in_open
  BY DEF Init
<1> QED
  BY <1>4, <1>5 DEF LifeInv, OpenInv, ChainInv, DownlinkInv, QuietInv, Prelude

-----------------------------------------------------------------------------
(* The stream of a session is that of AsioProofs.                          *)
LEMMA StreamIs == \A n : Stream(n) = Numbered(n)
BY DEF Stream, Numbered

LEMMA StreamFacts ==
  ASSUME NEW n \in Nat
  PROVE  /\ Stream(n) \in Seq(Int) /\ Len(Stream(n)) = n + 1 /\ Stream(n) # << >>
         /\ \A i \in 1..(n + 1) : Stream(n)[i] = i - 1
BY StreamIs, NumberedFacts

LEMMA StreamNext ==
  ASSUME NEW n \in Nat
  PROVE  Append(Stream(n), n + 1) = Stream(n + 1)
BY StreamIs, NumberedNext

LEMMA StreamFirst == Stream(0) = <<Header>>
BY StreamIs, NumberedFirst DEF Header

-----------------------------------------------------------------------------
(* The pieces.  While the tunnel is made out_write_buf holds the request   *)
(* and all that was taken, and nothing was sent; an established tunnel got *)
(* both.  A UDP client that writes on its TCP connection in CONNECT breaks *)
(* that.  Whole packets wait only in an established UDP relay.             *)
Kept == is_udp => "CONNECT" \notin StrayIn

UplinkInv ==
  /\ up_taken <= MaxUp
  /\ status \in Prelude => to_tunnel = << >> /\ up_taken = 0
  /\ status = "REQUEST" /\ Live("in_write") > 0 => out_write_buf = <<Header>>
  /\ Chain > 0 => /\ to_tunnel = << >> /\ out_write_buf # << >>
                  /\ Kept => out_write_buf = Stream(up_taken)
  /\ status \in {"FORWARD", "UDP_FORWARD"} => to_tunnel # << >>
  /\ Kept => to_tunnel \in {<< >>, Stream(up_taken)}

DeliveryInv ==
  /\ down_taken <= MaxDown
  /\ ~ is_udp \/ status \in Prelude => udp_data_buf = << >>
  /\ to_client \o udp_data_buf = Count(down_taken)

DataInv == UplinkInv /\ DeliveryInv

(* Who changes what.                                                       *)
LEMMA Writers ==
  ASSUME [Next]_vars
  PROVE  /\ InRecvForward \/ UdpRecvForward \/ Established \/ to_tunnel' = to_tunnel
         /\ \/ OutRecvForward \/ OutRecvUdpForward \/ UdpSent
            \/ UNCHANGED <<down_taken, udp_data_buf, to_client>>
         /\ \/ InRecvRequest \/ InRecvConnect \/ InRecvForward \/ UdpRecvConnect \/ UdpRecvForward
            \/ UNCHANGED <<up_taken, out_write_buf>>
         /\ InRecvRequest \/ is_udp' = is_udp
         /\ InSentRequest \/ status' # "CONNECT" \/ status = "CONNECT"
         /\ status' \in Prelude => status \in Prelude
         /\ InRecvRequest \/ InSentHandshake \/ status' # "REQUEST" \/ status = "REQUEST"
         /\ Established \/ status' \notin {"FORWARD", "UDP_FORWARD"} \/ status' = status
         /\ in_open' = in_open \/ in_open' = FALSE
<1> USE DEF vars, conn, sockets, uplink, downlink, Destroy, CloseAll, UdpSentWith, Prelude
<1>1. CASE InRecvHandshake
  BY <1>1 DEF InRecvHandshake
<1>2. CASE InRecvRequest
  BY <1>2 DEF InRecvRequest
<1>3. CASE InRecvConnect \/ InRecvForward \/ InRecvUdpForward \/ Dropped
  BY <1>3 DEF InRecvConnect, InRecvForward, InRecvUdpForward, Dropped
<1>4. CASE InSentHandshake \/ InSentRequest \/ InSentForward \/ InSentInvalid
  BY <1>4 DEF InSentHandshake, InSentRequest, InSentForward, InSentInvalid
<1>5. CASE Resolved \/ Connected
  BY <1>5 DEF Resolved, Connected
<1>6. CASE Established
  BY <1>6 DEF Established
<1>7. CASE OutRecvForward \/ OutSent
  BY <1>7 DEF OutRecvForward, OutSent
<1>8. CASE OutRecvUdpForward
  BY <1>8 DEF OutRecvUdpForward
<1>9. CASE UdpSent
  BY <1>9 DEF UdpSent
<1>10. CASE UdpRecvEmpty \/ UdpRecvBad \/ UdpRecvConnect \/ UdpRecvForward
  BY <1>10 DEF UdpRecvEmpty, UdpRecvBad, UdpRecvConnect, UdpRecvForward
<1>11. CASE Fail
  BY <1>11 DEF Fail
<1>12. CASE IgnoreAbort \/ ShutdownDone \/ Perform
  BY <1>12 DEF IgnoreAbort, ShutdownDone, Perform
<1>13. CASE UNCHANGED vars
  BY <1>13
<1> QED
  BY <1>1, <1>2, <1>3, <1>4, <1>5, <1>6, <1>7, <1>8, <1>9, <1>10, <1>11, <1>12, <1>13
     DEF Next, Proceed

(* A step in which destroy() runs does not revive the chain.               *)
LEMMA DestroyChain ==
  ASSUME NEW a \in Kinds, NEW o, Less(ops, o, a), Destroy(o)
  PROVE  Chain' > 0 => Chain > 0
<1>1. IsOps(o, Kinds)
  BY DEF Less
<1>2. Less(ops, ops', a)
  BY <1>1, DestroyLess, LessTrans
<1>3. \A j \in {"resolve", "connect", "handshake"} :
        /\ Outstanding(ops', j) \in Nat /\ Outstanding(ops, j) \in Nat
        /\ Outstanding(ops', j) <= Outstanding(ops, j)
  BY <1>2, TableNat, KindsFacts DEF Less
<1> QED
  BY <1>3 DEF Chain, Live

LEMMA CompletedChain ==
  ASSUME Types, NEW a \in Kinds, NEW o \in Completed(ops, a), Destroy(o)
  PROVE  Chain' > 0 => Chain > 0
<1>1. IsOps(ops, Kinds)
  BY DEF Types
<1>2. Less(ops, o, a)
  BY <1>1, CompletedLess
<1> QED
  BY <1>2, DestroyChain

LEMMA ChainNat ==
  ASSUME Types
  PROVE  /\ Chain \in Nat
         /\ Live("resolve") > 0 \/ Live("connect") > 0 \/ Live("handshake") > 0 => Chain > 0
<1>1. Live("resolve") \in Nat /\ Live("connect") \in Nat /\ Live("handshake") \in Nat
  BY KindsIn, OutstandingNat DEF Live, Types
<1> QED
  BY <1>1 DEF Chain

(* Handlers that only return, and the end of the shutdown.                 *)
LEMMA TakenLess ==
  ASSUME Types, Dropped \/ IgnoreAbort \/ ShutdownDone
  PROVE  \E k \in Kinds : Less(ops, ops', k)
<1>k. {"in_read", "in_write", "udp_read", "udp_write", "out_read", "out_write",
       "shutdown", "timer"} \subseteq Kinds
  BY KindsIn
<1>o. IsOps(ops, Kinds)
  BY DEF Types
<1>1. CASE Dropped \/ IgnoreAbort
  <2>1. PICK k \in Kinds, p \in Phase : ops[p][k] > 0 /\ ops' = Remove(ops, k, p)
    BY <1>k, <1>1 DEF Dropped, IgnoreAbort, Phase
  <2> QED
    BY <1>o, <2>1, RemoveLess
<1>2. CASE ShutdownDone
  <2>1. PICK k \in {"shutdown", "timer"} : \E o \in Completed(ops, k) :
          ops' = Cancel(o, OutOps \cup {"timer"})
    BY <1>2 DEF ShutdownDone
  <2>2. PICK o \in Completed(ops, k) : ops' = Cancel(o, OutOps \cup {"timer"})
    BY <2>1
  <2>3. k \in Kinds
    BY <1>k
  <2>4. Less(ops, o, k) /\ IsOps(o, Kinds)
    BY <1>o, <2>3, CompletedLess
  <2>5. Less(o, ops', k)
    BY <2>2, <2>4, CancelLess
  <2> QED
    BY <2>3, <2>4, <2>5, LessTrans
<1> QED
  BY <1>1, <1>2

(* Only the answered request begins the chain.                             *)
LEMMA ChainStep ==
  ASSUME Types, PumpInv, LifeInv, LifeInv', [Next]_vars, Chain' > 0
  PROVE  InSentRequest \/ Chain > 0
<1>n. Chain \in Nat
  BY ChainNat
<1>s. status' \in {"CONNECT", "DESTROY"}
  BY DEF LifeInv, ChainInv
<1>1. CASE status' = "CONNECT"
  <2>1. InSentRequest \/ status = "CONNECT"
    BY <1>1, Writers
  <2> QED
    BY <2>1 DEF LifeInv, ChainInv
<1>2. CASE status' = "DESTROY"
  <2>k. {"in_read", "in_write", "udp_read", "udp_write", "connect", "handshake",
         "out_read", "out_write", "shutdown", "resolve", "timer"} \subseteq Kinds
    BY KindsIn
  <2>o. IsOps(ops, Kinds)
    BY DEF Types
  <2>1. ASSUME NEW a \in Kinds, NEW o \in Completed(ops, a), Destroy(o)
        PROVE  Chain > 0
    BY <2>1, CompletedChain
  <2>2. ASSUME NEW a \in Kinds, Less(ops, ops', a) PROVE Chain > 0
    <3>1. \A j \in {"resolve", "connect", "handshake"} :
            /\ Outstanding(ops', j) \in Nat /\ Outstanding(ops, j) \in Nat
            /\ Outstanding(ops', j) <= Outstanding(ops, j)
      BY <2>2, TableNat, KindsFacts DEF Less
    <3> QED
      BY <3>1 DEF Chain, Live
  <2>3. CASE InRecvHandshake
    BY <1>2, <2>k, <2>1, <2>3 DEF InRecvHandshake
  <2>4. CASE InRecvRequest
    BY <1>2, <2>k, <2>1, <2>4 DEF InRecvRequest
  <2>5. CASE InRecvUdpForward \/ InSentInvalid \/ UdpRecvBad
    BY <2>k, <2>1, <2>5 DEF InRecvUdpForward, InSentInvalid, UdpRecvBad
  <2>6. CASE Resolved
    <3>1. ops["ready"]["resolve"] > 0
      BY <2>6 DEF Resolved
    <3>2. ops["waiting"]["resolve"] \in Nat /\ ops["ready"]["resolve"] \in Nat /\ ops["failed"]["resolve"] \in Nat
      BY <2>k, <2>o, TableNat
    <3>3. Live("resolve") > 0
      BY <3>1, <3>2 DEF Live, Outstanding
    <3> QED
      BY <3>3, ChainNat
  <2>7. CASE Connected
    <3>1. Live("connect") > 0
      BY <2>k, <2>o, <2>7, CompletedLive DEF Connected, Live
    <3> QED
      BY <3>1, ChainNat
  <2>8. CASE OutRecvUdpForward \/ UdpSent
    <3>1. status = "UDP_FORWARD"
      BY <2>8 DEF OutRecvUdpForward, UdpSent
    <3>2. PICK a \in {"out_read", "udp_write"} : \E o \in Completed(ops, a) : \E buf : UdpSentWith(o, buf)
      BY <2>8 DEF OutRecvUdpForward, UdpSent
    <3>3. PICK o \in Completed(ops, a) : \E buf : UdpSentWith(o, buf)
      BY <3>2
    <3>4. Destroy(o)
      BY <1>2, <3>1, <3>3 DEF UdpSentWith
    <3> QED
      BY <2>k, <2>1, <3>4
  <2>9. CASE Fail
    <3>1. PICK k \in Kinds, p \in Phase : ops[p][k] > 0 /\ Destroy(Remove(ops, k, p))
      BY <2>9 DEF Fail, Phase
    <3>2. Less(ops, Remove(ops, k, p), k)
      BY <2>o, <3>1, RemoveLess
    <3> QED
      BY <3>1, <3>2, DestroyChain
  <2>10. CASE Dropped \/ IgnoreAbort \/ ShutdownDone
    BY <2>2, <2>10, TakenLess
  <2>12. CASE Perform
    <3>1. \A j \in Kinds : Outstanding(ops', j) = Outstanding(ops, j)
      BY <2>12, PerformCounts
    <3> QED
      BY <2>k, <3>1 DEF Chain, Live
  <2>13. CASE UNCHANGED vars
    BY <2>13 DEF vars, Chain, Live
  <2>14. CASE status = "CONNECT"
    BY <2>14 DEF LifeInv, ChainInv
  <2>15. InRecvConnect \/ UdpRecvConnect => status = "CONNECT"
    BY DEF InRecvConnect, UdpRecvConnect
  <2>16. InRecvForward \/ InSentHandshake \/ InSentForward \/ Established \/ OutRecvForward
           \/ OutSent \/ UdpRecvForward \/ UdpRecvEmpty => FALSE
    BY <1>2 DEF InRecvForward, InSentHandshake, InSentForward, Established, OutRecvForward,
                OutSent, UdpRecvForward, UdpRecvEmpty, conn
  <2> QED
    BY <2>3, <2>4, <2>5, <2>6, <2>7, <2>8, <2>9, <2>10, <2>12, <2>13, <2>14, <2>15, <2>16
       DEF Next, Proceed
<1> QED
  BY <1>s, <1>1, <1>2

(* A request that is being answered stays the request that was built.      *)
LEMMA RequestKeeps ==
  ASSUME Types, PumpInv, PumpInv', LifeInv, LifeInv', [Next]_vars, ~ InRecvRequest,
         status' = "REQUEST", Live("in_write")' > 0
  PROVE  status = "REQUEST" /\ Live("in_write") > 0
<1>o. IsOps(ops, Kinds)
  BY DEF Types
<1>k. {"in_read", "in_write", "udp_read", "udp_write", "connect", "handshake",
       "out_read", "out_write", "shutdown", "resolve", "timer"} \subseteq Kinds
  BY KindsIn
<1>1. ~ InSentHandshake
  <2> SUFFICES ASSUME InSentHandshake PROVE FALSE
    OBVIOUS
  <2>1. PICK o \in Completed(ops, "in_write") : ops' \in Begin(o, "in_read", in_open, TRUE)
    BY DEF InSentHandshake
  <2>2. IsOps(o, Kinds)
    BY <1>o, <1>k, CompletedType
  <2>k. "in_read" \in Kinds
    BY <1>k
  <2>m. \A j \in Kinds : Outstanding(ops', j) = IF j = "in_read" THEN Outstanding(o, j) + 1 ELSE Outstanding(o, j)
    <3>1. \E open, atOnce : ops' \in Begin(o, "in_read", open, atOnce)
      BY <2>1
    <3> QED
      BY <2>2, <2>k, <3>1, BeginStarts
  <2>3. Outstanding(ops', "in_read") = Outstanding(o, "in_read") + 1
    BY <2>k, <2>m
  <2>4. IsOps(ops', Kinds)
    BY <1>k, <2>1, <2>2, BeginType
  <2>5. Outstanding(o, "in_read") \in Nat /\ Outstanding(ops', "in_write") \in Nat
    BY <1>k, <2>2, <2>4, OutstandingNat
  <2>6. Live("in_read")' + Live("in_write")' = 1
    BY DEF LifeInv, OpenInv, Prelude, PumpInv, PreludeInv
  <2> QED
    BY <2>3, <2>5, <2>6 DEF Live
<1>2. status = "REQUEST"
  BY <1>1, Writers
<1>3. Live("resolve") = 0 /\ Live("connect") = 0
  <2>1. Chain \in Nat /\ ~ (Chain > 0)
    BY <1>2, ChainNat DEF LifeInv, ChainInv
  <2>2. Live("resolve") \in Nat /\ Live("connect") \in Nat /\ Live("handshake") \in Nat
    BY <1>k, <1>o, OutstandingNat DEF Live
  <2> QED
    BY <2>1, <2>2 DEF Chain
<1>4. ~ Resolved /\ ~ Connected
  <2>1. Connected => Live("connect") > 0
    BY <1>k, <1>o, CompletedLive DEF Connected, Live
  <2>2. Resolved => Remove(ops, "resolve", "ready") \in Completed(ops, "resolve")
    BY DEF Resolved, Completed
  <2>3. Resolved => Live("resolve") > 0
    BY <1>k, <1>o, <2>2, CompletedLive DEF Live
  <2> QED
    BY <1>3, <2>1, <2>3
<1>5. IgnoreAbort \/ ShutdownDone \/ Perform \/ UNCHANGED vars
  BY <1>1, <1>2, <1>4 DEF Next, Proceed, InRecvHandshake, InRecvRequest, InRecvConnect, InRecvForward,
     InRecvUdpForward, Dropped, InSentHandshake, InSentRequest, InSentForward, InSentInvalid,
     Established, OutRecvForward, OutRecvUdpForward, UdpSent, OutSent,
     UdpRecvEmpty, UdpRecvBad, UdpRecvConnect, UdpRecvForward, Fail, Destroy
<1>6. CASE IgnoreAbort \/ ShutdownDone
  <2>1. PICK k \in Kinds : Less(ops, ops', k)
    BY <1>6, TakenLess
  <2>2. IsOps(ops', Kinds) /\ Outstanding(ops', "in_write") <= Outstanding(ops, "in_write")
    BY <1>k, <2>1 DEF Less
  <2>3. Outstanding(ops', "in_write") \in Nat /\ Outstanding(ops, "in_write") \in Nat
    BY <1>k, <1>o, <2>2, OutstandingNat
  <2> QED
    BY <1>2, <2>2, <2>3 DEF Live
<1>7. CASE Perform
  <2>1. Outstanding(ops', "in_write") = Outstanding(ops, "in_write")
    BY <1>k, <1>7, PerformCounts
  <2> QED
    BY <1>2, <2>1 DEF Live
<1>8. CASE UNCHANGED vars
  BY <1>2, <1>8 DEF vars, Live
<1> QED
  BY <1>5, <1>6, <1>7, <1>8

(* Every step keeps what is said of the uplink.                            *)
LEMMA UplinkStep ==
  ASSUME Types, Types', PumpInv, PumpInv', LifeInv, LifeInv', UplinkInv, [Next]_vars
  PROVE  UplinkInv'
<1>o. IsOps(ops, Kinds) /\ up_taken \in Nat /\ to_tunnel \in Seq(Int) /\ out_write_buf \in Seq(Int)
  BY DEF Types
<1>k. {"in_read", "in_write", "handshake"} \subseteq Kinds
  BY KindsIn
<1>m. MaxUp \in Nat
  BY BoundsAssumption
<1>c. \A s \in Prelude \cup {"FORWARD", "UDP_FORWARD"} : status' = s => ~ (Chain' > 0)
  BY DEF LifeInv, ChainInv, Prelude
<1>d. \A s \in Prelude \cup {"FORWARD", "UDP_FORWARD"} : status = s => ~ (Chain > 0)
  BY DEF LifeInv, ChainInv, Prelude
<1>1. CASE InRecvRequest
  <2>1. /\ status = "REQUEST" /\ status' \in {"REQUEST", "INVALID", "DESTROY"}
        /\ UNCHANGED <<up_taken, to_tunnel>>
        /\ status' = "REQUEST" => out_write_buf' = <<Header>>
    BY <1>1 DEF InRecvRequest, Destroy
  <2>2. up_taken = 0 /\ to_tunnel = << >>
    BY <2>1 DEF UplinkInv, Prelude
  <2>3. ~ (Chain' > 0)
    <3>1. ~ InSentRequest
      BY <2>1 DEF InSentRequest
    <3> QED
      BY <1>d, <2>1, <3>1, ChainStep DEF Prelude
  <2> QED
    BY <1>m, <2>1, <2>2, <2>3 DEF UplinkInv
<1>2. CASE InRecvConnect \/ UdpRecvConnect
  <2>1. status = "CONNECT" /\ status' = "CONNECT" /\ UNCHANGED <<is_udp, to_tunnel>>
    BY <1>2 DEF InRecvConnect, UdpRecvConnect
  <2>2. Chain > 0
    BY <2>1 DEF LifeInv, ChainInv
  <2>3. to_tunnel = << >> /\ (Kept => out_write_buf = Stream(up_taken))
    BY <2>2 DEF UplinkInv
  <2>4. up_taken' \in {up_taken, up_taken + 1} /\ up_taken' <= MaxUp
    BY <1>2, <1>o, <1>m DEF InRecvConnect, UdpRecvConnect, UplinkInv
  <2>5. out_write_buf' = Append(out_write_buf, up_taken') \/ out_write_buf' = Append(out_write_buf, Stray)
    BY <1>2 DEF InRecvConnect, UdpRecvConnect, Buffered
  <2>6. out_write_buf' # << >>
    BY <1>o, <2>4, <2>5, AppendProperties DEF Stray
  <2>7. ASSUME Kept PROVE out_write_buf' = Stream(up_taken')
    <3>1. up_taken' = up_taken + 1 /\ out_write_buf' = Append(out_write_buf, up_taken + 1)
      BY <1>2, <2>7 DEF InRecvConnect, UdpRecvConnect, Buffered, Kept
    <3> QED
      BY <1>o, <2>3, <2>7, <3>1, StreamNext
  <2>8. Kept' = Kept
    BY <2>1 DEF Kept
  <2> QED
    BY <2>1, <2>3, <2>4, <2>6, <2>7, <2>8 DEF UplinkInv, Prelude
<1>3. CASE InRecvForward \/ UdpRecvForward
  <2>1. /\ status \in {"FORWARD", "UDP_FORWARD"} /\ status' = status /\ is_udp' = is_udp
        /\ up_taken < MaxUp /\ up_taken' = up_taken + 1
        /\ to_tunnel' = Append(to_tunnel, up_taken + 1)
    BY <1>3 DEF InRecvForward, UdpRecvForward, conn
  <2>2. to_tunnel # << >> /\ (Kept => to_tunnel = Stream(up_taken))
    BY <2>1 DEF UplinkInv
  <2>3. to_tunnel' # << >>
    BY <1>o, <2>1, AppendProperties
  <2>4. Kept => to_tunnel' = Stream(up_taken')
    BY <1>o, <2>1, <2>2, StreamNext
  <2>5. Kept' = Kept
    BY <2>1 DEF Kept
  <2>6. up_taken' <= MaxUp
    BY <1>o, <1>m, <2>1
  <2> QED
    BY <1>c, <2>1, <2>3, <2>4, <2>5, <2>6 DEF UplinkInv, Prelude
<1>4. CASE Established
  <2>1. /\ status' \in {"FORWARD", "UDP_FORWARD"} /\ UNCHANGED <<is_udp, up_taken>>
        /\ to_tunnel' = to_tunnel \o out_write_buf
    BY <1>4 DEF Established, FirstFlight
  <2>2. Live("handshake") > 0
    BY <1>k, <1>o, <1>4, CompletedLive DEF Established, Live
  <2>3. Chain > 0
    BY <2>2, ChainNat
  <2>4. to_tunnel = << >> /\ out_write_buf # << >> /\ (Kept => out_write_buf = Stream(up_taken))
    BY <2>3 DEF UplinkInv
  <2>5. to_tunnel' = out_write_buf
    BY <1>o, <2>1, <2>4, ConcatEmptySeq
  <2>6. Kept' = Kept
    BY <2>1 DEF Kept
  <2> QED
    BY <1>c, <2>1, <2>4, <2>5, <2>6 DEF UplinkInv, Prelude
<1>5. CASE InSentRequest
  <2>1. /\ status = "REQUEST" /\ status' = "CONNECT" /\ UNCHANGED <<is_udp, up_taken, to_tunnel, out_write_buf>>
    BY <1>5 DEF InSentRequest, uplink
  <2>2. Live("in_write") > 0
    BY <1>k, <1>o, <1>5, CompletedLive DEF InSentRequest, Live
  <2>3. out_write_buf = <<Header>> /\ up_taken = 0 /\ to_tunnel = << >>
    BY <2>1, <2>2 DEF UplinkInv, Prelude
  <2> QED
    BY <1>m, <2>1, <2>3, StreamFirst DEF UplinkInv, Prelude
<1>6. CASE ~ (\/ InRecvRequest \/ InRecvConnect \/ UdpRecvConnect \/ InRecvForward
              \/ UdpRecvForward \/ Established \/ InSentRequest)
  <2>1. UNCHANGED <<is_udp, up_taken, to_tunnel, out_write_buf>>
    BY <1>6, Writers
  <2>2. /\ status' \in Prelude => status \in Prelude
        /\ status' \in {"FORWARD", "UDP_FORWARD"} => status' = status
    BY <1>6, Writers
  <2>3. Chain' > 0 => Chain > 0
    BY <1>6, ChainStep
  <2>4. status' = "REQUEST" /\ Live("in_write")' > 0 => status = "REQUEST" /\ Live("in_write") > 0
    BY <1>6, RequestKeeps
  <2>5. Kept' = Kept /\ Stream(up_taken)' = Stream(up_taken)
    BY <2>1 DEF Kept, Stream
  <2> QED
    BY <2>1, <2>2, <2>3, <2>4, <2>5 DEF UplinkInv
<1> QED
  BY <1>1, <1>2, <1>3, <1>4, <1>5, <1>6

-----------------------------------------------------------------------------
(* udp_sent hands over the first packet that waits, if one does.           *)
LEMMA SentWith ==
  ASSUME to_client \in Seq(Int), NEW buf \in Seq(Int), NEW o, UdpSentWith(o, buf)
  PROVE  /\ to_client' \o udp_data_buf' = to_client \o buf
         /\ \/ to_client' = to_client
            \/ buf # << >> /\ to_client' = Append(to_client, Head(buf))
         /\ status' \in {status, "DESTROY"}
<1>1. CASE buf # << >>
  <2>1. udp_data_buf' = Tail(buf) /\ to_client' = Append(to_client, Head(buf)) /\ status' = status
    BY <1>1 DEF UdpSentWith, RestPackets
  <2> QED
    BY <1>1, <2>1, HeadMoves
<1>2. CASE buf = << >>
  BY <1>2 DEF UdpSentWith, Destroy
<1> QED
  BY <1>1, <1>2

(* What a read of the tunnel adds to the packets that wait.                *)
LEMMA PacketsCome ==
  ASSUME Types, DeliveryInv, NEW n \in down_taken..MaxDown
  PROVE  LET buf == udp_data_buf \o [i \in 1..(n - down_taken) |-> down_taken + i]
         IN  buf \in Seq(Int) /\ to_client \o buf = Count(n)
<1> DEFINE new == [i \in 1..(n - down_taken) |-> down_taken + i]
<1>1. down_taken \in Nat /\ n \in Nat /\ down_taken <= n
  BY BoundsAssumption DEF Types
<1>2. new \in Seq(Int) /\ Count(down_taken) \o new = Count(n)
  BY <1>1, CountJoin
<1> HIDE DEF new
<1>3. udp_data_buf \in Seq(Int) /\ to_client \in Seq(Int)
  BY DEF Types
<1>4. udp_data_buf \o new \in Seq(Int)
  BY <1>2, <1>3, ConcatInt
<1>5. to_client \o (udp_data_buf \o new) = (to_client \o udp_data_buf) \o new
  BY <1>2, <1>3, ConcatThree
<1>6. to_client \o (udp_data_buf \o new) = Count(n)
  BY <1>2, <1>5 DEF DeliveryInv
<1> QED
  BY <1>4, <1>6 DEF new

(* The three handlers that take something from the tunnel or hand it on.   *)
LEMMA DownSteps ==
  ASSUME Types, PumpInv, DeliveryInv, OutRecvForward \/ OutRecvUdpForward \/ UdpSent
  PROVE  /\ DeliveryInv'
         /\ \/ to_client' = to_client
            \/ Len(to_client) < MaxDown /\ to_client' = Append(to_client, Len(to_client) + 1)
<1>o. /\ down_taken \in Nat /\ MaxDown \in Nat
      /\ udp_data_buf \in Seq(Int) /\ to_client \in Seq(Int)
  BY BoundsAssumption DEF Types
<1>1. CASE OutRecvForward
  <2>1. /\ status = "FORWARD" /\ down_taken < MaxDown /\ down_taken' = down_taken + 1
        /\ to_client' = Append(to_client, down_taken + 1)
        /\ UNCHANGED <<status, is_udp, udp_data_buf>>
    BY <1>1 DEF OutRecvForward, conn
  <2>2. ~ is_udp
    BY <2>1 DEF PumpInv, ModeInv
  <2>3. udp_data_buf = << >>
    BY <2>2 DEF DeliveryInv
  <2>4. to_client = Count(down_taken)
    BY <1>o, <2>3, ConcatEmptySeq DEF DeliveryInv
  <2>5. to_client' = Count(down_taken')
    BY <1>o, <2>1, <2>4, CountNext
  <2>6. to_client' \in Seq(Int)
    BY <1>o, <2>1, AppendProperties
  <2>7. to_client' \o << >> = to_client'
    BY <2>6, ConcatEmptySeq
  <2>8. Len(to_client) = down_taken
    BY <1>o, <2>4, CountFacts
  <2> QED
    BY <1>o, <2>1, <2>3, <2>5, <2>7, <2>8 DEF DeliveryInv
<1>2. ASSUME NEW buf \in Seq(Int), NEW o, UdpSentWith(o, buf), status = "UDP_FORWARD",
             is_udp' = is_udp, down_taken' \in Nat, down_taken' <= MaxDown,
             to_client \o buf = Count(down_taken')
      PROVE  /\ DeliveryInv'
             /\ \/ to_client' = to_client
                \/ Len(to_client) < MaxDown /\ to_client' = Append(to_client, Len(to_client) + 1)
  <2>1. /\ to_client' \o udp_data_buf' = to_client \o buf
        /\ \/ to_client' = to_client
           \/ buf # << >> /\ to_client' = Append(to_client, Head(buf))
        /\ status' \in {status, "DESTROY"}
    BY <1>o, <1>2, SentWith
  <2>2. is_udp
    BY <1>2 DEF PumpInv, ModeInv
  <2>3. DeliveryInv'
    BY <1>2, <2>1, <2>2 DEF DeliveryInv, Prelude
  <2>4. buf # << >> => Head(buf) = Len(to_client) + 1 /\ Len(to_client) < down_taken'
    BY <1>o, <1>2, HeadCounts
  <2>5. Len(to_client) \in Nat
    BY <1>o, LenProperties
  <2> QED
    BY <1>o, <1>2, <2>1, <2>3, <2>4, <2>5
<1>3. CASE OutRecvUdpForward
  <2>1. status = "UDP_FORWARD" /\ is_udp' = is_udp
    BY <1>3 DEF OutRecvUdpForward
  <2>2. PICK o \in Completed(ops, "out_read"), n \in down_taken..MaxDown :
          /\ down_taken' = n
          /\ UdpSentWith(o, udp_data_buf \o [i \in 1..(n - down_taken) |-> down_taken + i])
    BY <1>3 DEF OutRecvUdpForward
  <2> DEFINE buf == udp_data_buf \o [i \in 1..(n - down_taken) |-> down_taken + i]
  <2>3. buf \in Seq(Int) /\ to_client \o buf = Count(n)
    BY PacketsCome
  <2>4. UdpSentWith(o, buf)
    BY <2>2
  <2>5. n \in Nat /\ n <= MaxDown /\ down_taken' = n
    BY <1>o, <2>2
  <2> HIDE DEF buf
  <2> QED
    BY <1>2, <2>1, <2>3, <2>4, <2>5
<1>4. CASE UdpSent
  <2>1. status = "UDP_FORWARD" /\ is_udp' = is_udp /\ down_taken' = down_taken
    BY <1>4 DEF UdpSent
  <2>2. PICK o \in Completed(ops, "udp_write") : UdpSentWith(o, udp_data_buf)
    BY <1>4 DEF UdpSent
  <2>3. down_taken <= MaxDown /\ to_client \o udp_data_buf = Count(down_taken)
    BY DEF DeliveryInv
  <2> QED
    BY <1>o, <1>2, <2>1, <2>2, <2>3
<1> QED
  BY <1>1, <1>3, <1>4

LEMMA DeliveryStep ==
  ASSUME Types, PumpInv, DeliveryInv, [Next]_vars
  PROVE  DeliveryInv'
<1>1. CASE OutRecvForward \/ OutRecvUdpForward \/ UdpSent
  BY <1>1, DownSteps
<1>2. CASE ~ (OutRecvForward \/ OutRecvUdpForward \/ UdpSent)
  <2>1. UNCHANGED <<down_taken, udp_data_buf, to_client>>
    BY <1>2, Writers
  <2>2. status' \in Prelude => status \in Prelude
    BY Writers
  <2>3. is_udp' = is_udp \/ status \in Prelude
    BY Writers DEF InRecvRequest, Prelude
  <2>4. Count(down_taken)' = Count(down_taken)
    BY <2>1 DEF Count
  <2> QED
    BY <2>1, <2>2, <2>3, <2>4 DEF DeliveryInv
<1> QED
  BY <1>1, <1>2

LEMMA DataInit == Init => DataInv
<1> SUFFICES ASSUME Init PROVE DataInv
  OBVIOUS
<1>1. /\ status = "HANDSHAKE" /\ up_taken = 0 /\ down_taken = 0 /\ to_tunnel = << >>
      /\ udp_data_buf = << >> /\ to_client = << >>
  BY DEF Init
<1>2. ~ (Chain > 0)
  BY <1>1, LifeInit DEF LifeInv, ChainInv
<1>3. MaxUp \in Nat /\ MaxDown \in Nat
  BY BoundsAssumption
<1>4. UplinkInv
  BY <1>1, <1>2, <1>3 DEF UplinkInv
<1>5. Count(0) = << >>
  <2>1. Count(0) \in Seq(Int) /\ Len(Count(0)) = 0
    BY CountFacts
  <2> QED
    BY <2>1, EmptySeq
<1>6. << >> \o << >> = << >>
  <2>1. << >> \in Seq(Int)
    BY EmptySeq
  <2> QED
    BY <2>1, ConcatEmptySeq
<1> QED
  BY <1>1, <1>3, <1>4, <1>5, <1>6 DEF DataInv, DeliveryInv

-----------------------------------------------------------------------------
(* The whole invariant.                                                    *)
SafetyInv == Types /\ PumpInv /\ LifeInv /\ DataInv

LEMMA SafetyInit == Init => SafetyInv
<1>1. Init => Types
  BY TypeInit
<1> QED
  BY <1>1, PumpInit, LifeInit, DataInit DEF SafetyInv

LEMMA SafetyStep ==
  ASSUME SafetyInv, [Next]_vars
  PROVE  SafetyInv'
<1>1. Types /\ PumpInv /\ LifeInv /\ UplinkInv /\ DeliveryInv
  BY DEF SafetyInv, DataInv
<1>2. Types'
  BY <1>1, TypeStep
<1>3. PumpInv'
  BY <1>1, PumpStep
<1>4. LifeInv'
  BY <1>1, LifeStep
<1>5. UplinkInv'
  BY <1>1, <1>2, <1>3, <1>4, UplinkStep
<1>6. DeliveryInv'
  BY <1>1, DeliveryStep
<1> QED
  BY <1>2, <1>3, <1>4, <1>5, <1>6 DEF SafetyInv, DataInv

LEMMA DataUplink == DataInv => UplinkComplete
BY DEF DataInv, UplinkInv, UplinkComplete, Kept

LEMMA DataDownlink == DataInv => DownlinkComplete
BY DEF DataInv, DeliveryInv, DownlinkComplete, Count

(* A status that is not DESTROY has an operation that goes on with it.     *)
LEMMA LifeKeeps ==
  ASSUME Types, PumpInv, LifeInv
  PROVE  NeverAbandoned
<1> SUFFICES ASSUME status # "DESTROY"
             PROVE  \E k \in Kinds : \/ Live(k) > 0
                                     \/ k \notin {"in_read", "udp_read"} /\ ops["aborted"][k] > 0
  BY DEF NeverAbandoned
<1>o. IsOps(ops, Kinds)
  BY DEF Types
<1>k. {"in_read", "in_write", "udp_read", "udp_write", "connect", "handshake",
       "out_read", "out_write", "shutdown", "resolve", "timer"} \subseteq Kinds
  BY KindsIn
<1>n. \A k \in Kinds : Live(k) \in Nat /\ ops["aborted"][k] \in Nat
                       /\ Pending(ops, k) = Live(k) + ops["aborted"][k]
  BY <1>o, TableNat DEF Live
<1>1. CASE status \in Prelude
  <2>1. Live("in_read") + Live("in_write") = 1
    BY <1>1 DEF LifeInv, OpenInv, PumpInv, PreludeInv, Prelude
  <2>2. Live("in_read") > 0 \/ Live("in_write") > 0
    BY <1>k, <1>n, <2>1
  <2> QED
    BY <1>k, <2>2
<1>2. CASE status = "CONNECT"
  <2>1. Live("resolve") + Live("connect") + Live("handshake") = 1
    BY <1>2 DEF LifeInv, ChainInv, Chain
  <2>2. Live("resolve") > 0 \/ Live("connect") > 0 \/ Live("handshake") > 0
    BY <1>k, <1>n, <2>1
  <2> QED
    BY <1>k, <2>2
<1>3. ASSUME NEW a \in {"in_write", "udp_write"},
             Pending(ops, "out_read") + Pending(ops, a) > 0
      PROVE  \E k \in {"out_read", "in_write", "udp_write"} : Live(k) > 0 \/ ops["aborted"][k] > 0
  <2>1. /\ Live("out_read") \in Nat /\ ops["aborted"]["out_read"] \in Nat
        /\ Live(a) \in Nat /\ ops["aborted"][a] \in Nat
        /\ Pending(ops, "out_read") = Live("out_read") + ops["aborted"]["out_read"]
        /\ Pending(ops, a) = Live(a) + ops["aborted"][a]
    BY <1>k, <1>n
  <2>2. Live("out_read") > 0 \/ ops["aborted"]["out_read"] > 0 \/ Live(a) > 0 \/ ops["aborted"][a] > 0
    BY <1>3, <2>1
  <2> QED
    BY <2>2
<1>4. CASE status \in {"FORWARD", "UDP_FORWARD"}
  <2>1. \E a \in {"in_write", "udp_write"} : Pending(ops, "out_read") + Pending(ops, a) > 0
    BY <1>4 DEF LifeInv, DownlinkInv
  <2> QED
    BY <1>k, <1>3, <2>1
<1> QED
  BY <1>1, <1>2, <1>4 DEF Types, Status, Prelude

(* In an established relay no client read can complete once the client     *)
(* side is closed.                                                         *)
LEMMA NoLateRead ==
  ASSUME Types, LifeInv, status \in {"CONNECT", "FORWARD", "UDP_FORWARD"},
         NEW k \in {"in_read", "udp_read"}, NEW o \in Completed(ops, k)
  PROVE  in_open
<1>1. PICK p \in {"waiting", "ready"} : ops[p][k] > 0
  BY DEF Completed
<1>2. ops["waiting"][k] > 0 \/ ops["ready"][k] > 0
  BY <1>1
<1> QED
  BY <1>2 DEF LifeInv, QuietInv

LEMMA QuietStep ==
  ASSUME SafetyInv, [Next]_vars, ~ in_open
  PROVE  up_taken' = up_taken /\ (to_tunnel' = to_tunnel \/ to_tunnel = << >>)
<1>1. Types /\ PumpInv /\ LifeInv /\ UplinkInv
  BY DEF SafetyInv, DataInv
<1>2. ~ InRecvConnect /\ ~ InRecvForward
  BY <1>1, NoLateRead DEF InRecvConnect, InRecvForward
<1>3. ~ UdpRecvConnect /\ ~ UdpRecvForward
  BY <1>1, NoLateRead DEF UdpRecvConnect, UdpRecvForward
<1>4. CASE Established
  <2>1. Live("handshake") > 0
    BY <1>1, <1>4, KindsIn, CompletedLive DEF Types, Established, Live
  <2>2. to_tunnel = << >>
    BY <1>1, <2>1, ChainNat DEF UplinkInv
  <2> QED
    BY <1>4, <2>2 DEF Established
<1>5. CASE ~ Established
  <2>1. to_tunnel' = to_tunnel
    BY <1>2, <1>3, <1>5, Writers
  <2>2. up_taken' = up_taken
    BY <1>2, <1>3, Writers DEF InRecvRequest
  <2> QED
    BY <2>1, <2>2
<1> QED
  BY <1>4, <1>5

(* Every step is a step of Relay, or changes nothing that Relay sees.      *)
LEMMA RelayStep ==
  ASSUME SafetyInv, SafetyInv', Kept, Kept', [Next]_vars
  PROVE  R!Next \/ UNCHANGED <<to_tunnel, to_client, in_open>>
<1>1. Types /\ PumpInv /\ LifeInv /\ UplinkInv /\ DeliveryInv /\ UplinkInv'
  BY DEF SafetyInv, DataInv
<1>o. up_taken \in Nat /\ MaxUp \in Nat /\ MaxDown \in Nat /\ in_open \in BOOLEAN
  BY <1>1, BoundsAssumption DEF Types
<1>2. CASE InRecvForward \/ UdpRecvForward
  <2>1. /\ status \in {"FORWARD", "UDP_FORWARD"} /\ up_taken < MaxUp
        /\ to_tunnel' = Append(to_tunnel, up_taken + 1)
        /\ UNCHANGED <<in_open, to_client>>
    BY <1>2 DEF InRecvForward, UdpRecvForward, sockets, downlink
  <2>2. in_open
    BY <1>1, <1>2, NoLateRead DEF InRecvForward, UdpRecvForward
  <2>3. to_tunnel # << >> /\ to_tunnel = Stream(up_taken)
    BY <1>1, <2>1 DEF UplinkInv
  <2>4. Len(to_tunnel) = up_taken + 1
    BY <1>o, <2>3, StreamFacts
  <2>5. Len(to_tunnel) <= MaxUp
    BY <1>o, <2>1, <2>4
  <2> QED
    BY <2>1, <2>2, <2>3, <2>4, <2>5 DEF R!Next, R!Up
<1>3. CASE Established
  <2>1. Live("handshake") > 0
    BY <1>1, <1>3, KindsIn, CompletedLive DEF Types, Established, Live
  <2>2. to_tunnel = << >>
    BY <1>1, <2>1, ChainNat DEF UplinkInv
  <2>3. UNCHANGED <<up_taken, in_open, to_client>> /\ status' \in {"FORWARD", "UDP_FORWARD"}
    BY <1>3 DEF Established, sockets, downlink
  <2>4. to_tunnel' = Stream(up_taken)
    BY <1>1, <2>3 DEF UplinkInv, Stream
  <2>5. up_taken \in 0..MaxUp
    BY <1>o, <1>1 DEF UplinkInv
  <2> QED
    BY <2>2, <2>3, <2>4, <2>5 DEF R!Next, R!Flush, Stream
<1>4. CASE OutRecvForward \/ OutRecvUdpForward \/ UdpSent
  <2>1. \/ to_client' = to_client
        \/ Len(to_client) < MaxDown /\ to_client' = Append(to_client, Len(to_client) + 1)
    BY <1>1, <1>4, DownSteps
  <2>2. status \in {"FORWARD", "UDP_FORWARD"} /\ to_tunnel' = to_tunnel
    BY <1>4 DEF OutRecvForward, OutRecvUdpForward, UdpSent, uplink
  <2>3. to_tunnel # << >>
    BY <1>1, <2>2 DEF UplinkInv
  <2>4. in_open' = in_open \/ (in_open' = FALSE /\ to_client' = to_client)
    BY <1>4 DEF OutRecvForward, OutRecvUdpForward, UdpSent, UdpSentWith, Destroy, CloseAll, sockets
  <2> QED
    BY <1>o, <2>1, <2>2, <2>3, <2>4 DEF R!Next, R!Down, R!Close
<1>5. CASE ~ (InRecvForward \/ UdpRecvForward \/ Established
              \/ OutRecvForward \/ OutRecvUdpForward \/ UdpSent)
  <2>1. UNCHANGED <<to_tunnel, to_client>> /\ (in_open' = in_open \/ in_open' = FALSE)
    BY <1>5, Writers
  <2> QED
    BY <1>o, <2>1 DEF R!Next, R!Close
<1> QED
  BY <1>2, <1>3, <1>4, <1>5

(* The types; and the socket of the datagrams is open only in a UDP        *)
(* ASSOCIATE whose client is still connected, which after destroy() none   *)
(* is: in SafetyInv this is said by PreludeInv, ModeInv and OpenInv.       *)
THEOREM TypeCorrect == Spec => []TypeOK
<1>1. SafetyInv /\ [Next]_vars => SafetyInv'
  BY SafetyStep
<1>2. SafetyInv => TypeOK
  BY DEF SafetyInv, TypeOK, Types, PumpInv, ModeInv, PreludeInv, LifeInv, OpenInv
<1> QED
  BY <1>1, <1>2, SafetyInit, PTL DEF Spec

(* What the client sent reaches the tunnel once and in order, whether it   *)
(* was buffered while connecting, was in flight when the handshake handler *)
(* replaced the read, or came while forwarding.                            *)
THEOREM UplinkNeverLoses == Spec => []UplinkComplete
<1>1. SafetyInv /\ [Next]_vars => SafetyInv'
  BY SafetyStep
<1>2. SafetyInv => UplinkComplete
  BY DataUplink DEF SafetyInv
<1> QED
  BY <1>1, <1>2, SafetyInit, PTL DEF Spec

(* What the tunnel delivered reaches the client once and in order, one     *)
(* whole packet of udp_data_buf after the other.                           *)
THEOREM DownlinkNeverLoses == Spec => []DownlinkComplete
<1>1. SafetyInv /\ [Next]_vars => SafetyInv'
  BY SafetyStep
<1>2. SafetyInv => DownlinkComplete
  BY DataDownlink DEF SafetyInv
<1> QED
  BY <1>1, <1>2, SafetyInit, PTL DEF Spec

(* A session that is not destroyed always has a pending operation whose    *)
(* handler goes on with it, an aborted one at the least.                   *)
THEOREM NeverForgotten == Spec => []NeverAbandoned
<1>1. SafetyInv /\ [Next]_vars => SafetyInv'
  BY SafetyStep
<1>2. SafetyInv => NeverAbandoned
  BY LifeKeeps DEF SafetyInv
<1> QED
  BY <1>1, <1>2, SafetyInit, PTL DEF Spec

(* Once destroy() closed the client side nothing more is taken from the    *)
(* client, and a late handshake sends at most the first flight.            *)
THEOREM ClosedStaysQuiet == Spec => ClosedIsQuiet
<1>1. SafetyInv /\ [Next]_vars => SafetyInv'
  BY SafetyStep
<1>2. SafetyInv /\ [Next]_vars =>
        [~ in_open => /\ up_taken' = up_taken
                      /\ to_tunnel' = to_tunnel \/ to_tunnel = << >>]_vars
  BY QuietStep
<1> QED
  BY <1>1, <1>2, SafetyInit, PTL DEF Spec, ClosedIsQuiet

(* The session implements Relay: each handler flushes the buffered stream, *)
(* relays one piece up or down, closes the client side for good, or does   *)
(* nothing that the two ends see.  A UDP client may not write on its TCP   *)
(* connection while the tunnel is made.                                    *)
THEOREM RelayImplemented ==
  ASSUME "CONNECT" \notin StrayIn
  PROVE  Spec => ImplementsRelay
<1>1. SafetyInv /\ [Next]_vars => SafetyInv'
  BY SafetyStep
<1>2. Init => R!Init
  BY DEF Init, R!Init
<1>3. Kept /\ Kept'
  BY DEF Kept
<1>4. SafetyInv /\ SafetyInv' /\ [Next]_vars => [R!Next]_<<to_tunnel, to_client, in_open>>
  BY <1>3, RelayStep
<1> QED
  BY <1>1, <1>2, <1>4, SafetyInit, PTL DEF Spec, ImplementsRelay, R!Spec

-----------------------------------------------------------------------------
(* A ForwardSession takes only steps of a ClientSession, and starts in a   *)
(* state that satisfies its invariant: what is proved above holds of it.   *)

LEMMA ForwardStep == ForwardNext => Next
BY DEF ForwardNext, InRecv, MakeTunnel, Pump, Next, Proceed

LEMMA ForwardOps ==
  ASSUME ForwardInit
  PROVE  \E p \in {"waiting", "ready"} : \A q \in Phase, j \in Kinds :
           ops[q][j] = (IF q = p /\ j = "in_read" THEN 1 ELSE 0)
                       + (IF q = "waiting" /\ j = "resolve" THEN 1 ELSE 0)
<1>1. PICK r \in InAsyncRead(NoOps(Kinds)) : ops = Add(r, "resolve", "waiting")
  BY DEF ForwardInit
<1>2. PICK p \in {"waiting", "ready"} : r = Add(NoOps(Kinds), "in_read", p)
  BY <1>1 DEF InAsyncRead, Begin, ForwardInit
<1>3. \A q \in Phase, j \in Kinds : r[q][j] = IF q = p /\ j = "in_read" THEN 1 ELSE 0
  BY <1>2, KindsIn DEF Add, NoOps, Phase
<1>4. DOMAIN r = Phase /\ \A q \in Phase : DOMAIN r[q] = Kinds
  BY <1>2, KindsIn DEF Add, NoOps, Phase
<1>5. \A q \in Phase, j \in Kinds :
        ops[q][j] = r[q][j] + (IF q = "waiting" /\ j = "resolve" THEN 1 ELSE 0)
  BY <1>1, <1>3, <1>4, KindsIn DEF Add, Phase
<1> QED
  BY <1>3, <1>5

LEMMA ForwardType == ForwardInit => Types
<1> SUFFICES ASSUME ForwardInit PROVE Types
  OBVIOUS
<1>1. PICK r \in InAsyncRead(NoOps(Kinds)) : ops = Add(r, "resolve", "waiting")
  BY DEF ForwardInit
<1>2. "in_read" \in Kinds /\ "resolve" \in Kinds /\ "waiting" \in Phase
  BY KindsIn DEF Phase
<1>3. IsOps(r, Kinds)
  BY <1>1, <1>2, NoOpsType, BeginType DEF InAsyncRead
<1>4. IsOps(ops, Kinds)
  BY <1>1, <1>2, <1>3 DEF Add, IsOps
<1>5. <<Header>> \in Seq(Int) /\ << >> \in Seq(Int)
  BY DEF Header
<1> QED
  BY <1>4, <1>5 DEF ForwardInit, Types, Status, Header

LEMMA ForwardPump == ForwardInit => PumpInv
<1> SUFFICES ASSUME ForwardInit PROVE PumpInv
  OBVIOUS
<1>1. PICK p \in {"waiting", "ready"} : \A q \in Phase, j \in Kinds :
        ops[q][j] = (IF q = p /\ j = "in_read" THEN 1 ELSE 0)
                    + (IF q = "waiting" /\ j = "resolve" THEN 1 ELSE 0)
  BY ForwardOps
<1>2. \A j \in Kinds : /\ Live(j) = IF j \in {"in_read", "resolve"} THEN 1 ELSE 0
                       /\ ops["failed"][j] = 0
  <2> SUFFICES ASSUME NEW j \in Kinds
               PROVE  /\ Live(j) = IF j \in {"in_read", "resolve"} THEN 1 ELSE 0
                      /\ ops["failed"][j] = 0
    OBVIOUS
  <2>1. \A q \in {"waiting", "ready", "failed"} :
          ops[q][j] = (IF q = p /\ j = "in_read" THEN 1 ELSE 0)
                      + (IF q = "waiting" /\ j = "resolve" THEN 1 ELSE 0)
    BY <1>1 DEF Phase
  <2>2. CASE p = "waiting"
    BY <2>1, <2>2 DEF Live, Outstanding
  <2>3. CASE p = "ready"
    BY <2>1, <2>3 DEF Live, Outstanding
  <2> QED
    BY <2>2, <2>3
<1>3. /\ None({"in_write", "udp_write", "out_read", "out_write"})
      /\ None({"shutdown", "timer"}) /\ Chain = 1
      /\ Live("in_read") = 1 /\ Live("udp_read") = 0 /\ Live("resolve") = 1
  BY <1>2, KindsIn DEF None, Chain
<1>4. \A j \in InOps \cup UdpOps : ops["failed"][j] = 0
  BY <1>2 DEF Kinds
<1>5. /\ status = "CONNECT" /\ ~ is_udp /\ ~ first_packet_recv /\ ~ swallowed
      /\ in_open /\ udp_open = is_udp
  BY DEF ForwardInit
<1>6. ModeInv
  BY <1>5 DEF ModeInv
<1>7. PreludeInv
  BY <1>3, <1>4, <1>5 DEF PreludeInv
<1>8. RelayInv
  BY <1>3, <1>5 DEF RelayInv, ConnectInv, ReadsSettled
<1>9. OneInFlight
  BY <1>5 DEF OneInFlight
<1> QED
  BY <1>6, <1>7, <1>8, <1>9 DEF PumpInv

(* While the client of a forwarded connection is there each direction of   *)
(* its relay has exactly one operation in flight: the copy of the relay    *)
(* keeps what ClientSession keeps.                                         *)
THEOREM ForwardOneInFlight == ForwardSpec => []OneInFlight
<1>1. PumpInv => OneInFlight
  BY DEF PumpInv, ModeInv, OneInFlight
<1>2. Types /\ [ForwardNext]_vars => Types'
  BY ForwardStep, TypeStep
<1>3. PumpInv /\ Types /\ [ForwardNext]_vars => PumpInv'
  BY ForwardStep, PumpStep
<1> QED
  BY <1>1, <1>2, <1>3, ForwardType, ForwardPump, PTL DEF ForwardSpec

-----------------------------------------------------------------------------
(* What is relayed.                                                        *)
LEMMA ForwardLife == ForwardInit => LifeInv
<1> SUFFICES ASSUME ForwardInit PROVE LifeInv
  OBVIOUS
<1>1. PICK p \in {"waiting", "ready"} : \A q \in Phase, j \in Kinds :
        ops[q][j] = (IF q = p /\ j = "in_read" THEN 1 ELSE 0)
                    + (IF q = "waiting" /\ j = "resolve" THEN 1 ELSE 0)
  BY ForwardOps
<1>2. \A j \in {"in_write", "udp_write", "resolve", "connect", "handshake"} :
        Live(j) = IF j = "resolve" THEN 1 ELSE 0
  <2>1. ASSUME NEW j \in {"in_write", "udp_write", "resolve", "connect", "handshake"},
               NEW q \in {"waiting", "ready", "failed"}
        PROVE  ops[q][j] = IF q = "waiting" /\ j = "resolve" THEN 1 ELSE 0
    BY <1>1, KindsIn DEF Phase
  <2> QED
    BY <2>1 DEF Live, Outstanding
<1>3. Chain = 1 /\ Live("in_write") = 0 /\ Live("udp_write") = 0 /\ Live("resolve") = 1
  BY <1>2 DEF Chain
<1>4. status = "CONNECT" /\ in_open /\ ~ udp_open
  BY DEF ForwardInit
<1> QED
  BY <1>3, <1>4 DEF LifeInv, OpenInv, ChainInv, DownlinkInv, QuietInv

LEMMA ForwardData == ForwardInit => DataInv
<1> SUFFICES ASSUME ForwardInit PROVE DataInv
  OBVIOUS
<1>1. /\ status = "CONNECT" /\ up_taken = 0 /\ out_write_buf = <<Header>> /\ to_tunnel = << >>
      /\ down_taken = 0 /\ udp_data_buf = << >> /\ to_client = << >>
  BY DEF ForwardInit
<1>2. MaxUp \in Nat /\ MaxDown \in Nat
  BY BoundsAssumption
<1>3. UplinkInv
  BY <1>1, <1>2, StreamFirst DEF UplinkInv, Prelude
<1>4. Count(0) = << >>
  <2>1. Count(0) \in Seq(Int) /\ Len(Count(0)) = 0
    BY CountFacts
  <2> QED
    BY <2>1, EmptySeq
<1>5. << >> \o << >> = << >>
  <2>1. << >> \in Seq(Int)
    BY EmptySeq
  <2> QED
    BY <2>1, ConcatEmptySeq
<1> QED
  BY <1>1, <1>2, <1>3, <1>4, <1>5 DEF DataInv, DeliveryInv

(* It never becomes a UDP ASSOCIATE, so nothing is asked of StrayIn.       *)
ForwardInv == SafetyInv /\ ~ is_udp

LEMMA ForwardInvInit == ForwardInit => ForwardInv
<1>1. ForwardInit => ~ is_udp
  BY DEF ForwardInit
<1> QED
  BY <1>1, ForwardType, ForwardPump, ForwardLife, ForwardData DEF ForwardInv, SafetyInv

LEMMA ForwardInvStep ==
  ASSUME ForwardInv, [ForwardNext]_vars
  PROVE  ForwardInv'
<1>1. [Next]_vars
  BY ForwardStep
<1>2. SafetyInv'
  BY <1>1, SafetyStep DEF ForwardInv
<1>3. is_udp' = is_udp
  <2>1. CASE InRecvRequest /\ ForwardNext
    <3>1. status = "REQUEST"
      BY <2>1 DEF InRecvRequest
    <3>2. Resolved \/ Connected \/ Fail \/ IgnoreAbort \/ ShutdownDone \/ Perform \/ Established
      BY <2>1, <3>1 DEF ForwardNext, InRecv, MakeTunnel, Pump, InRecvConnect, InRecvForward,
         InSentForward, OutRecvForward, OutSent, Dropped
    <3> QED
      BY <3>2 DEF Resolved, Connected, Fail, IgnoreAbort, ShutdownDone, Perform, Established, conn
  <2>2. CASE UNCHANGED vars
    BY <2>2 DEF vars, conn
  <2>3. CASE ~ InRecvRequest
    BY <1>1, <2>3, Writers
  <2> QED
    BY <2>1, <2>2, <2>3
<1> QED
  BY <1>2, <1>3 DEF ForwardInv

(* The copy of the relay keeps the rest of what ClientSession keeps, too:  *)
(* nothing is lost in either direction and it is never forgotten.          *)
THEOREM ForwardNeverLoses ==
  ForwardSpec => [](UplinkComplete /\ DownlinkComplete /\ NeverAbandoned)
<1>1. ForwardInv /\ [ForwardNext]_vars => ForwardInv'
  BY ForwardInvStep
<1>2. ForwardInv => UplinkComplete /\ DownlinkComplete /\ NeverAbandoned
  BY DataUplink, DataDownlink, LifeKeeps DEF ForwardInv, SafetyInv
<1> QED
  BY <1>1, <1>2, ForwardInvInit, PTL DEF ForwardSpec

(* A ForwardSession implements Relay, without a premise on the client.     *)
THEOREM ForwardImplementsRelay == ForwardSpec => ImplementsRelay
<1>1. ForwardInv /\ [ForwardNext]_vars => ForwardInv'
  BY ForwardInvStep
<1>2. ForwardInit => R!Init
  BY DEF ForwardInit, R!Init
<1>3. ForwardInv /\ ForwardInv' /\ [ForwardNext]_vars => [R!Next]_<<to_tunnel, to_client, in_open>>
  <2> SUFFICES ASSUME ForwardInv, ForwardInv', [ForwardNext]_vars
               PROVE  R!Next \/ UNCHANGED <<to_tunnel, to_client, in_open>>
    OBVIOUS
  <2>1. SafetyInv /\ SafetyInv' /\ Kept /\ Kept'
    BY DEF ForwardInv, Kept
  <2>2. [Next]_vars
    BY ForwardStep
  <2> QED
    BY <2>1, <2>2, RelayStep
<1> QED
  BY <1>1, <1>2, <1>3, ForwardInvInit, PTL DEF ForwardSpec, ImplementsRelay, R!Spec
=============================================================================
