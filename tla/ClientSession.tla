--------------------------- MODULE ClientSession ---------------------------
(***************************************************************************)
(* One ClientSession of the embedded trojan client: a SOCKS5 client on     *)
(* in_socket, a TLS tunnel to the trojan server on out_socket and, for a   *)
(* UDP ASSOCIATE, a datagram socket udp_socket.  Every action is one       *)
(* completion handler of the single-threaded io_context, run to its end.   *)
(*                                                                         *)
(* Data.  What the client sends once its request is accepted is numbered   *)
(* 1, 2, 3... (a read of the stream, or a datagram), and so is what the    *)
(* server sends.  The trojan request header that REQUEST builds is Header. *)
(* to_tunnel and to_client are the histories of what was handed to         *)
(* out_async_write and to in_async_write/udp_async_write, in that order.   *)
(***************************************************************************)
EXTENDS Asio, Sequences

CONSTANTS
  Commands,   \* the SOCKS commands the client may ask for
  StrayIn,    \* the statuses in which the client of a UDP ASSOCIATE may
              \* write on its TCP connection
  MaxUp,      \* bound: pieces the client sends
  MaxDown     \* bound: pieces the server sends

ASSUME CommandsAssumption == Commands \subseteq {"CONNECT", "UDP_ASSOCIATE"}
ASSUME StrayAssumption == StrayIn \subseteq {"CONNECT", "UDP_FORWARD"}
ASSUME BoundsAssumption == MaxUp \in Nat /\ MaxDown \in Nat

VARIABLES
  status, is_udp, first_packet_recv,
  in_open, udp_open, out_open,    \* is_open() of the three sockets
  ops,                            \* the operation table, see Asio
  up_taken,                       \* pieces read from the client
  out_write_buf,                  \* what waits for the tunnel in CONNECT
  to_tunnel,
  swallowed,                      \* history: udp_recv ate an empty datagram
                                  \* while forwarding
  down_taken,                     \* pieces read from the tunnel
  udp_data_buf,                   \* whole packets waiting in udp_data_buf
  to_client

conn     == <<status, is_udp, first_packet_recv>>
sockets  == <<in_open, udp_open, out_open>>
uplink   == <<up_taken, out_write_buf, to_tunnel, swallowed>>
downlink == <<down_taken, udp_data_buf, to_client>>
vars     == <<conn, sockets, ops, uplink, downlink>>

Status == {"HANDSHAKE", "REQUEST", "CONNECT", "FORWARD", "UDP_FORWARD",
           "INVALID", "DESTROY"}

InOps  == {"in_read", "in_write"}
UdpOps == {"udp_read", "udp_write"}
OutOps == {"connect", "handshake", "out_read", "out_write", "shutdown"}
Kinds  == InOps \cup UdpOps \cup OutOps \cup {"resolve", "timer"}

Header == 0
Stray  == -1     \* bytes on the TCP connection of a UDP ASSOCIATE

(* The session as start() leaves it: waiting for the SOCKS greeting.  (If   *)
(* the client is gone already start() calls destroy() and nothing is left  *)
(* to happen.)                                                             *)
Init ==
  /\ status = "HANDSHAKE" /\ is_udp = FALSE /\ first_packet_recv = FALSE
  /\ in_open = TRUE /\ udp_open = FALSE /\ out_open = FALSE
  /\ ops \in Begin(NoOps(Kinds), "in_read", in_open, TRUE)
  /\ up_taken = 0 /\ out_write_buf = << >> /\ to_tunnel = << >>
  /\ swallowed = FALSE
  /\ down_taken = 0 /\ udp_data_buf = << >> /\ to_client = << >>

-----------------------------------------------------------------------------
(* Starting reads and writes.  A read can be done at once only if a piece  *)
(* is left that no other read has.                                         *)

MoreUp(o) == up_taken + o["ready"]["in_read"] + o["ready"]["udp_read"] < MaxUp

InAsyncRead(o)  == Begin(o, "in_read", in_open, MoreUp(o))
UdpAsyncRead(o) == Begin(o, "udp_read", udp_open, MoreUp(o))
OutAsyncRead(o) == Begin(o, "out_read", out_open, down_taken < MaxDown)
InAsyncWrite(o)  == Begin(o, "in_write", in_open, TRUE)
UdpAsyncWrite(o) == Begin(o, "udp_write", udp_open, TRUE)
OutAsyncWrite(o) == Begin(o, "out_write", out_open, TRUE)

(* The tunnel is shut down with a close_notify that a timer bounds, and    *)
(* only ShutdownDone closes it.                                            *)
ShutdownUnbounded(o) == Begin(Cancel(o, OutOps), "shutdown", TRUE, TRUE)  \* mutant
Shutdown(o) ==
  {Add(s, "timer", "waiting") :
     s \in Begin(Cancel(o, OutOps \cup {"timer"}), "shutdown", TRUE, TRUE)}

(* destroy(): a second call does nothing.  The client side is closed at    *)
(* once, an open tunnel is shut down.                                      *)
UdpLeftOpen(o) ==                                                         \* mutant
  LET client == Cancel(o, InOps \cup {"resolve"})
  IN /\ in_open' = FALSE /\ UNCHANGED udp_open
     /\ ops' \in IF out_open THEN Shutdown(client) ELSE {client}
CloseAll(o) ==
  LET client == Cancel(o, InOps \cup UdpOps \cup {"resolve"})
  IN /\ in_open' = FALSE /\ udp_open' = FALSE
     /\ ops' \in IF out_open THEN Shutdown(client) ELSE {client}
DestroyKeepsStatus(o) == CloseAll(o) /\ UNCHANGED status                  \* mutant
Destroy(o) ==
  IF status = "DESTROY"
  THEN ops' = o /\ UNCHANGED <<status, in_open, udp_open>>
  ELSE status' = "DESTROY" /\ CloseAll(o)

-----------------------------------------------------------------------------
(* in_recv in HANDSHAKE: not a SOCKS5 greeting (or only a part of one);    *)
(* one without the no-authentication method; or a good one.                *)
InRecvHandshake ==
  /\ status = "HANDSHAKE"
  /\ \E o \in Completed(ops, "in_read") :
       \/ Destroy(o)
       \/ /\ status' \in {"HANDSHAKE", "INVALID"}
          /\ ops' \in InAsyncWrite(o)
          /\ UNCHANGED <<in_open, udp_open>>
  /\ UNCHANGED <<is_udp, first_packet_recv, out_open, uplink, downlink>>

(* in_recv in REQUEST: a bad request, an unsupported command, CONNECT, or  *)
(* UDP ASSOCIATE, for which a socket is opened.                            *)
InRecvRequest ==
  /\ status = "REQUEST"
  /\ \E o \in Completed(ops, "in_read") :
       \/ Destroy(o) /\ UNCHANGED <<is_udp, out_write_buf>>
       \/ /\ status' = "INVALID"
          /\ out_write_buf' = <<Header>>
          /\ ops' \in InAsyncWrite(o)
          /\ UNCHANGED <<is_udp, in_open, udp_open>>
       \/ \E c \in Commands :
            /\ is_udp' = (c = "UDP_ASSOCIATE")
            /\ out_write_buf' = <<Header>>
            /\ \/ /\ udp_open' = is_udp'
                  /\ ops' \in InAsyncWrite(o)
                  /\ UNCHANGED <<status, in_open>>
               \/ c = "UDP_ASSOCIATE" /\ Destroy(o)
  /\ UNCHANGED <<first_packet_recv, out_open, up_taken, to_tunnel, swallowed,
                 downlink>>

(* What comes in CONNECT waits behind the request for the tunnel.          *)
Assigned(piece) == <<piece>>                                              \* mutant
Buffered(piece) == Append(out_write_buf, piece)

(* in_recv in CONNECT: buffered until the tunnel is up, and no new read.   *)
(* The code does not ask whether the session is a UDP ASSOCIATE.           *)
InRecvConnect ==
  /\ status = "CONNECT"
  /\ IF is_udp THEN "CONNECT" \in StrayIn /\ UNCHANGED up_taken
               ELSE up_taken < MaxUp /\ up_taken' = up_taken + 1
  /\ \E o \in Completed(ops, "in_read") : ops' = o
  /\ first_packet_recv' = TRUE
  /\ out_write_buf' = Buffered(IF is_udp THEN Stray ELSE up_taken')
  /\ UNCHANGED <<status, is_udp, sockets, to_tunnel, swallowed, downlink>>

InRecvForward ==
  /\ status = "FORWARD"
  /\ up_taken < MaxUp
  /\ up_taken' = up_taken + 1
  /\ to_tunnel' = Append(to_tunnel, up_taken')
  /\ \E o \in Completed(ops, "in_read") : ops' \in OutAsyncWrite(o)
  /\ UNCHANGED <<conn, sockets, out_write_buf, swallowed, downlink>>

InRecvUdpForward ==
  /\ status = "UDP_FORWARD" /\ "UDP_FORWARD" \in StrayIn
  /\ \E o \in Completed(ops, "in_read") : Destroy(o)
  /\ UNCHANGED <<is_udp, first_packet_recv, out_open, uplink, downlink>>

(* A handler that was queued when the session was destroyed finds no case  *)
(* for its status.                                                         *)
Dropped ==
  /\ status = "DESTROY"
  /\ \E k \in {"in_read", "in_write", "udp_read", "udp_write", "out_read",
               "out_write"} :
       ops["ready"][k] > 0 /\ ops' = Remove(ops, k, "ready")
  /\ UNCHANGED <<conn, sockets, uplink, downlink>>

-----------------------------------------------------------------------------
(* in_sent                                                                 *)

InSentHandshake ==
  /\ status = "HANDSHAKE"
  /\ status' = "REQUEST"
  /\ \E o \in Completed(ops, "in_write") :
       ops' \in Begin(o, "in_read", in_open, TRUE)
  /\ UNCHANGED <<is_udp, first_packet_recv, sockets, uplink, downlink>>

(* The reads that go on while the tunnel is made: the TCP connection, and  *)
(* for a UDP ASSOCIATE the datagrams.                                      *)
ConnectReadsOne(o) == IF is_udp THEN UdpAsyncRead(o) ELSE InAsyncRead(o)  \* mutant
ConnectReads(o) ==
  IF is_udp
  THEN UNION {UdpAsyncRead(r) : r \in Begin(o, "in_read", in_open, "CONNECT" \in StrayIn)}
  ELSE InAsyncRead(o)

InSentRequest ==
  /\ status = "REQUEST"
  /\ status' = "CONNECT"
  /\ \E o \in Completed(ops, "in_write") :
       \E r \in ConnectReads(o) : ops' = Add(r, "resolve", "waiting")
  /\ UNCHANGED <<is_udp, first_packet_recv, sockets, uplink, downlink>>

InSentForward ==
  /\ status = "FORWARD"
  /\ \E o \in Completed(ops, "in_write") : ops' \in OutAsyncRead(o)
  /\ UNCHANGED <<conn, sockets, uplink, downlink>>

(* Mutant: the refusal was sent and the session is forgotten.              *)
InSentInvalidReturns ==
  /\ status = "INVALID"
  /\ \E o \in Completed(ops, "in_write") : ops' = o
  /\ UNCHANGED <<conn, sockets, uplink, downlink>>

InSentInvalid ==
  /\ status = "INVALID"
  /\ \E o \in Completed(ops, "in_write") : Destroy(o)
  /\ UNCHANGED <<is_udp, first_packet_recv, out_open, uplink, downlink>>

-----------------------------------------------------------------------------
(* The chain resolve, connect, TLS handshake that in_sent starts.  None of *)
(* these handlers looks at status: a result that was already queued when   *)
(* destroy() cancelled them is acted on.                                   *)

(* The reads were started before the resolver, so a read that was done at  *)
(* once has its handler queued in front of the resolver's.                 *)
Resolved ==
  /\ ops["ready"]["in_read"] = 0 /\ ops["ready"]["udp_read"] = 0
  /\ ops["ready"]["resolve"] > 0
  /\ LET o == Remove(ops, "resolve", "ready") IN
       \/ /\ Destroy(o)             \* no address, or open() failed
          /\ UNCHANGED out_open
       \/ /\ out_open' = TRUE
          /\ ops' \in Begin(o, "connect", TRUE, TRUE)
          /\ UNCHANGED <<status, in_open, udp_open>>
  /\ UNCHANGED <<is_udp, first_packet_recv, uplink, downlink>>

Connected ==
  /\ \E o \in Completed(ops, "connect") :
       ops' \in Begin(o, "handshake", out_open, FALSE)
  /\ UNCHANGED <<conn, sockets, uplink, downlink>>

(* A read is cancelled if nothing came while connecting, because out_sent  *)
(* will start the next one.                                                *)
ReadKept(o) == o                                                          \* mutant
ReadReplaced(o) ==
  IF first_packet_recv THEN o ELSE Cancel(o, IF is_udp THEN UdpOps ELSE InOps)

HeaderOnly == <<Header>>                                                  \* mutant
FirstFlight == out_write_buf

Established ==
  /\ status' = IF is_udp THEN "UDP_FORWARD" ELSE "FORWARD"
  /\ to_tunnel' = to_tunnel \o FirstFlight
  /\ \E o \in Completed(ops, "handshake") :
       \E r \in OutAsyncRead(ReadReplaced(o)) : ops' \in OutAsyncWrite(r)
  /\ UNCHANGED <<is_udp, first_packet_recv, sockets, up_taken, out_write_buf,
                 swallowed, downlink>>

-----------------------------------------------------------------------------
(* udp_data_buf without its first packet.                                  *)
AllPackets(buf) == buf                                                    \* mutant
RestPackets(buf) == Tail(buf)

(* udp_sent(): hand the first whole packet of buf to the client, or read   *)
(* on, or give up on a packet that is too long or malformed.               *)
UdpSentWith(o, buf) ==
  IF buf # << >>
  THEN /\ udp_data_buf' = RestPackets(buf)
       /\ to_client' = Append(to_client, Head(buf))
       /\ ops' \in UdpAsyncWrite(o)
       /\ UNCHANGED <<status, in_open, udp_open>>
  ELSE /\ udp_data_buf' = buf
       /\ \/ Destroy(o)
          \/ ops' \in Begin(o, "out_read", out_open, down_taken' < MaxDown)
             /\ UNCHANGED <<status, in_open, udp_open>>
       /\ UNCHANGED to_client

OutRecvForward ==
  /\ status = "FORWARD"
  /\ down_taken < MaxDown
  /\ down_taken' = down_taken + 1
  /\ to_client' = Append(to_client, down_taken')
  /\ \E o \in Completed(ops, "out_read") : ops' \in InAsyncWrite(o)
  /\ UNCHANGED <<conn, sockets, uplink, udp_data_buf>>

(* A read of the tunnel completes any number of packets, or none.          *)
OutRecvUdpForward ==
  /\ status = "UDP_FORWARD"
  /\ \E o \in Completed(ops, "out_read"), n \in down_taken..MaxDown :
       /\ down_taken' = n
       /\ UdpSentWith(o, udp_data_buf \o
                         [i \in 1..(n - down_taken) |-> down_taken + i])
  /\ UNCHANGED <<is_udp, first_packet_recv, out_open, uplink>>

UdpSent ==
  /\ status = "UDP_FORWARD"
  /\ UNCHANGED down_taken
  /\ \E o \in Completed(ops, "udp_write") : UdpSentWith(o, udp_data_buf)
  /\ UNCHANGED <<is_udp, first_packet_recv, out_open, uplink>>

(* Then the client's next piece is asked for.                              *)
UdpReadOnly(o) == IF status = "FORWARD" THEN {o} ELSE UdpAsyncRead(o)     \* mutant
NextRead(o) == IF status = "FORWARD" THEN InAsyncRead(o) ELSE UdpAsyncRead(o)

OutSent ==
  /\ status \in {"FORWARD", "UDP_FORWARD"}
  /\ \E o \in Completed(ops, "out_write") : ops' \in NextRead(o)
  /\ UNCHANGED <<conn, sockets, uplink, downlink>>

-----------------------------------------------------------------------------
(* udp_recv: a datagram of the client that is empty, bad, or good.  After  *)
(* an empty one nothing starts the next read.                              *)

UdpRecvEmpty ==
  /\ status \in {"CONNECT", "UDP_FORWARD"}
  /\ up_taken < MaxUp
  /\ \E o \in Completed(ops, "udp_read") : ops' = o
  /\ swallowed' = (swallowed \/ status = "UDP_FORWARD")
  /\ UNCHANGED <<conn, sockets, up_taken, out_write_buf, to_tunnel, downlink>>

UdpRecvBad ==
  /\ status \in {"CONNECT", "UDP_FORWARD"}
  /\ up_taken < MaxUp
  /\ \E o \in Completed(ops, "udp_read") : Destroy(o)
  /\ UNCHANGED <<is_udp, first_packet_recv, out_open, uplink, downlink>>

UdpRecvConnect ==
  /\ status = "CONNECT"
  /\ up_taken < MaxUp
  /\ up_taken' = up_taken + 1
  /\ first_packet_recv' = TRUE
  /\ out_write_buf' = Buffered(up_taken')
  /\ \E o \in Completed(ops, "udp_read") : ops' = o
  /\ UNCHANGED <<status, is_udp, sockets, to_tunnel, swallowed, downlink>>

UdpRecvForward ==
  /\ status = "UDP_FORWARD"
  /\ up_taken < MaxUp
  /\ up_taken' = up_taken + 1
  /\ to_tunnel' = Append(to_tunnel, up_taken')
  /\ \E o \in Completed(ops, "udp_read") : ops' \in OutAsyncWrite(o)
  /\ UNCHANGED <<conn, sockets, out_write_buf, swallowed, downlink>>

-----------------------------------------------------------------------------
(* An operation fails, or its handler runs with operation_aborted.  Reads  *)
(* from the client ignore an abort; every other handler calls destroy().   *)
Fail ==
  /\ \E k \in Kinds \ {"shutdown", "timer"} :
       \E p \in {"waiting", "failed"} \cup
                {q \in {"aborted"} : k \notin {"in_read", "udp_read"}} :
         ops[p][k] > 0 /\ Destroy(Remove(ops, k, p))
  /\ UNCHANGED <<is_udp, first_packet_recv, out_open, uplink, downlink>>

IgnoreAbort ==
  /\ \E k \in {"in_read", "udp_read", "shutdown", "timer"} :
       ops["aborted"][k] > 0 /\ ops' = Remove(ops, k, "aborted")
  /\ UNCHANGED <<conn, sockets, uplink, downlink>>

(* ssl_shutdown_cb: the TLS shutdown ended, in whatever way, or the timer  *)
(* went off.                                                               *)
ShutdownDone ==
  /\ \E k \in {"shutdown", "timer"} : \E o \in Completed(ops, k) :
       ops' = Cancel(o, OutOps \cup {"timer"})
  /\ out_open' = FALSE
  /\ UNCHANGED <<conn, in_open, udp_open, uplink, downlink>>

(* A waiting operation succeeds and its handler is queued: the resolver    *)
(* thread, the timer queue and the last write of a TLS handshake or        *)
(* shutdown do that; so does the reactor for all but the first of the      *)
(* operations that wait on one socket.                                     *)
Shares(k) == \E S \in {InOps, UdpOps, OutOps} :
               k \in S /\ \E j \in S : j # k /\ ops["waiting"][j] > 0
DataLeft(k) ==
  CASE k = "in_read"  -> IF is_udp THEN status \in StrayIn ELSE MoreUp(ops)
    [] k = "udp_read" -> MoreUp(ops)
    [] k = "out_read" -> down_taken < MaxDown
    [] OTHER          -> TRUE

Perform ==
  /\ \E k \in Kinds :
       /\ ops["waiting"][k] > 0
       /\ k \in {"resolve", "timer", "handshake", "shutdown"} \/ Shares(k)
       /\ DataLeft(k)
       /\ ops' = Add(Remove(ops, k, "waiting"), k, "ready")
  /\ UNCHANGED <<conn, sockets, uplink, downlink>>

Proceed ==
  \/ InRecvHandshake \/ InRecvRequest \/ InRecvConnect
  \/ InRecvForward \/ InRecvUdpForward \/ Dropped
  \/ InSentHandshake \/ InSentRequest \/ InSentForward \/ InSentInvalid
  \/ Resolved \/ Connected \/ Established
  \/ OutRecvForward \/ OutRecvUdpForward \/ UdpSent \/ OutSent
  \/ UdpRecvEmpty \/ UdpRecvBad \/ UdpRecvConnect \/ UdpRecvForward
  \/ IgnoreAbort \/ ShutdownDone \/ Perform

Next == Proceed \/ Fail

Spec == Init /\ [][Next]_vars

(* Fairness.  The io_context runs every queued handler; the resolver       *)
(* thread answers, the kernel ends a connect and the timer goes off.       *)
(* Nothing is assumed of the client, of the server or of the network.      *)
RunsQueued(k) ==
  \E p \in Phase \ {"waiting"} : ops[p][k] > 0 /\ Next /\ ops'[p][k] < ops[p][k]
Settles(k) ==
  ops["waiting"][k] > 0 /\ Next /\ ops'["waiting"][k] < ops["waiting"][k]
IoContextRuns ==
  /\ \A k \in Kinds : WF_vars(RunsQueued(k))
  /\ \A k \in {"resolve", "connect", "timer"} : WF_vars(Settles(k))
FairSpec == Spec /\ IoContextRuns

(* Client and server that both go on reading and writing: a premise of     *)
(* EverythingRelayed only.                                                 *)
Succeeds(k) ==
  ops["waiting"][k] > 0 /\ Proceed /\ ops'["waiting"][k] < ops["waiting"][k]
PeersCooperate == \A k \in Kinds : WF_vars(Succeeds(k))

-----------------------------------------------------------------------------
(* What the session promises.                                              *)

Live(k) == Outstanding(ops, k)

(* Type invariant: the types, and which sockets there are.  The socket of  *)
(* the datagrams is that of a UDP ASSOCIATE and never outlives the         *)
(* client's connection, which destroy() closes, whatever handler calls it  *)
(* and whichever handlers run afterwards.                                  *)
Types ==
  /\ status \in Status /\ is_udp \in BOOLEAN /\ first_packet_recv \in BOOLEAN
  /\ in_open \in BOOLEAN /\ udp_open \in BOOLEAN /\ out_open \in BOOLEAN
  /\ IsOps(ops, Kinds)
  /\ up_taken \in Nat /\ down_taken \in Nat /\ swallowed \in BOOLEAN
  /\ out_write_buf \in Seq(Int) /\ to_tunnel \in Seq(Int)
  /\ udp_data_buf \in Seq(Int) /\ to_client \in Seq(Int)

TypeOK ==
  /\ Types
  /\ udp_open => in_open /\ is_udp
  /\ status = "DESTROY" => ~ in_open

(* The first n pieces of the client, behind the trojan request.            *)
Stream(n) == [i \in 1..(n + 1) |-> i - 1]

(* Nothing the client sent is lost, repeated or reordered on its way to    *)
(* the tunnel, whether it was buffered in CONNECT, was in flight when the  *)
(* handshake handler cancelled the read, or came while forwarding: the     *)
(* tunnel got nothing yet, or the request and every piece taken so far.    *)
(* A UDP client must leave its TCP connection alone while connecting.      *)
UplinkComplete ==
  "CONNECT" \notin StrayIn =>
    /\ to_tunnel \in {<< >>, Stream(up_taken)}
    /\ status \in {"FORWARD", "UDP_FORWARD"} => to_tunnel # << >>

(* What the tunnel delivered reaches the client in order; only whole       *)
(* packets of udp_data_buf are still to come.                              *)
DownlinkComplete ==
  to_client \o udp_data_buf = [i \in 1..down_taken |-> i]

(* Each direction of an established relay has exactly one operation in     *)
(* flight, a read or the write of what it read: with none the direction    *)
(* would stand still for ever, with two the writes could overlap.  In UDP  *)
(* the control connection is watched besides; an empty datagram stops the  *)
(* uplink (udp_recv returns without a new read).                           *)
OneInFlight ==
  /\ status = "FORWARD" /\ in_open =>
       Live("in_read") + Live("out_write") = 1 /\ Live("out_read") + Live("in_write") = 1
  /\ status = "UDP_FORWARD" /\ in_open /\ "CONNECT" \notin StrayIn =>
       /\ Live("udp_read") + Live("out_write") = IF swallowed THEN 0 ELSE 1
       /\ Live("out_read") + Live("udp_write") = 1
       /\ Live("in_read") = 1

(* out_async_write is never called while another write is in progress.     *)
OneTunnelWrite == Live("out_write") <= 1

(* A session that is not destroyed is always kept alive by an operation    *)
(* whose handler goes on with it: it never disappears without destroy()    *)
(* having run.  (An aborted client read only returns.)                     *)
NeverAbandoned ==
  status # "DESTROY" =>
    \E k \in Kinds : \/ Live(k) > 0
                     \/ k \notin {"in_read", "udp_read"} /\ ops["aborted"][k] > 0

(* Once the client side is closed nothing more is taken from the client,   *)
(* and a handshake that destroy() came too late for sends at most the      *)
(* flight buffered before.                                                 *)
ClosedIsQuiet ==
  [][~ in_open => /\ up_taken' = up_taken
                  /\ to_tunnel' = to_tunnel \/ to_tunnel = << >>]_vars

(* Why OneInFlight holds: the inductive invariant of ClientSessionProofs.  *)
(* While the client side is open, every status has a fixed number of       *)
(* operations of each kind, in CONNECT one step of the chain resolve,      *)
(* connect, handshake is under way, and from connect on no client read     *)
(* has succeeded unhandled: the handshake handler's cancel gets them all.  *)
Chain   == Live("resolve") + Live("connect") + Live("handshake")
None(S) == \A k \in S : Live(k) = 0

ModeInv ==
  (status = "FORWARD" => ~ is_udp) /\ (status = "UDP_FORWARD" => is_udp)

ReadsSettled ==
  Live("resolve") = 0 => ops["ready"]["in_read"] = 0 /\ ops["ready"]["udp_read"] = 0

ConnectInv ==
  /\ Chain = 1 /\ ~ swallowed
  /\ None({"in_write", "udp_write", "out_read", "out_write"})
  /\ Live("in_read") = IF ~ is_udp /\ first_packet_recv THEN 0 ELSE 1
  /\ \/ Live("udp_read") = 0
     \/ Live("udp_read") = 1 /\ is_udp /\ ~ first_packet_recv
  /\ ReadsSettled

PreludeInv ==
  /\ status # "DESTROY" /\ udp_open = is_udp
  /\ None({"shutdown", "timer"})
  /\ \A k \in InOps \cup UdpOps : ops["failed"][k] = 0
  /\ status \in {"HANDSHAKE", "REQUEST", "INVALID"} =>
       /\ Live("in_read") + Live("in_write") = 1 /\ None(Kinds \ InOps)
       /\ ~ first_packet_recv /\ ~ swallowed
  /\ status = "HANDSHAKE" \/ (status = "REQUEST" /\ Live("in_read") > 0) => ~ is_udp

RelayInv ==
  /\ status = "CONNECT" => ConnectInv
  /\ status \in {"FORWARD", "UDP_FORWARD"} => Chain = 0

PumpInv ==
  /\ ModeInv
  /\ in_open => PreludeInv
  /\ in_open /\ (is_udp => "CONNECT" \notin StrayIn) => RelayInv /\ OneInFlight

(* A destroyed session is let go of: its handlers run out and the object   *)
(* is freed, unless it waits for ever for the server in a handshake (or in *)
(* the write behind it) that destroy() came too late to prevent: nothing   *)
(* in the code limits that wait.                                           *)
WaitsForServer ==
  ~ in_open /\ (ops["waiting"]["handshake"] > 0 \/ ops["waiting"]["out_write"] > 0)
DestroyedIsReleased ==
  <>(status = "DESTROY") => <>Drained(ops) \/ <>[]WaitsForServer

(* The two pumps never come to a stop: with peers that keep going, all     *)
(* that both send over a SOCKS CONNECT is relayed, unless the session is   *)
(* destroyed.                                                              *)
EverythingRelayed ==
  PeersCooperate =>
    <>(\/ status = "DESTROY" \/ is_udp
       \/ Len(to_tunnel) = MaxUp + 1 /\ Len(to_client) = MaxDown)

(* The session implements the relay of Relay.tla.                          *)
R == INSTANCE Relay WITH up <- to_tunnel, down <- to_client, open <- in_open
ImplementsRelay == R!Spec
=============================================================================
