--------------------------- MODULE ServerSession ---------------------------
(***************************************************************************)
(* One ServerSession of trojan: a TLS connection on in_socket, whose first *)
(* read is a trojan request or the first bytes of a stranger; a TCP        *)
(* connection to the destination (for a stranger, to the fallback server)  *)
(* on out_socket; for a UDP ASSOCIATE, a datagram socket udp_socket.       *)
(* Every action is one completion handler of the io_context, run to its    *)
(* end.                                                                    *)
(*                                                                         *)
(* Data.  What follows the request is numbered 1, 2, 3...: reads of the    *)
(* stream, or UDP packets; a stranger's first bytes are number 1.  What    *)
(* comes back is numbered too.  Traffic is counted in these pieces.        *)
(***************************************************************************)
EXTENDS Asio, Sequences

CONSTANTS
  Requests,   \* what the peer may ask for
  MaxUp,      \* bound: pieces of the peer
  MaxDown     \* bound: pieces of the destination

ASSUME RequestsAssumption == Requests \subseteq {"CONNECT", "UDP_ASSOCIATE", "STRANGER"}
ASSUME BoundsAssumption == MaxUp \in Nat /\ MaxDown \in Nat

VARIABLES
  status,
  in_open, out_open, udp_open,   \* is_open() of the three sockets
  ops,                           \* the operation table, see Asio
  auth_password,                 \* the Authenticator knows the user
  up_taken,                      \* pieces read from the peer
  out_write_buf,                 \* the payload of the request
  udp_data_buf,                  \* whole packets waiting in udp_data_buf
  packet,                        \* the packet the UDP resolver's handler holds
  down_taken,                    \* pieces read from the destination
  sent_len, recv_len,
  to_server,   \* history: 0 for the connection, and what was then handed on
  to_client,   \* history: what was handed to in_async_write
  recorded,    \* history: what auth->record was told
  late         \* history: a packet was sent after destroy()

sockets  == <<in_open, out_open, udp_open>>
uplink   == <<up_taken, out_write_buf, udp_data_buf, packet, to_server, late>>
downlink == <<down_taken, to_client>>
account  == <<auth_password, sent_len, recv_len>>
closing  == <<status, sockets, recorded>>     \* what Destroy decides
vars     == <<closing, ops, uplink, downlink, account>>

Status == {"HANDSHAKE", "FORWARD", "UDP_FORWARD", "DESTROY"}

InOps  == {"handshake", "in_read", "in_write", "http_write", "shutdown"}
OutOps == {"connect", "out_read", "out_write"}
UdpOps == {"udp_read", "udp_write"}
Kinds  == InOps \cup OutOps \cup UdpOps \cup {"resolve", "udp_resolve", "timer"}

(* The session as start() leaves it.  (If the peer is gone already start() *)
(* calls destroy(), which shuts down a connection that nothing used.)      *)
Init ==
  /\ status = "HANDSHAKE" /\ in_open = TRUE /\ out_open = FALSE /\ udp_open = FALSE
  /\ ops \in Begin(NoOps(Kinds), "handshake", TRUE, FALSE)
  /\ auth_password = FALSE /\ sent_len = 0 /\ recv_len = 0
  /\ up_taken = 0 /\ out_write_buf = << >> /\ udp_data_buf = << >> /\ packet = 0
  /\ to_server = << >> /\ late = FALSE
  /\ down_taken = 0 /\ to_client = << >> /\ recorded = << >>

-----------------------------------------------------------------------------
(* Starting reads and writes.                                              *)

InAsyncRead(o)   == Begin(o, "in_read", in_open, up_taken' < MaxUp)
InAsyncWrite(o)  == Begin(o, "in_write", in_open, TRUE)
OutAsyncRead(o)  == Begin(o, "out_read", out_open, down_taken < MaxDown)
OutAsyncWrite(o) == Begin(o, "out_write", out_open, TRUE)
UdpAsyncRead(o)  == Begin(o, "udp_read", udp_open', down_taken < MaxDown)
UdpAsyncWrite(o) == Begin(o, "udp_write", udp_open', TRUE)

(* in_socket is shut down with a close_notify that a timer bounds.         *)
ShutdownUnbounded(o) == Begin(Cancel(o, InOps), "shutdown", TRUE, TRUE)   \* mutant
Shutdown(o) ==
  {Add(s, "timer", "waiting") : s \in Begin(Cancel(o, InOps), "shutdown", TRUE, TRUE)}

UsageSwapped == <<sent_len, recv_len>>                                    \* mutant
Usage == <<recv_len, sent_len>>

UdpKept(o) == o                                                           \* mutant
UdpClosed(o) == Cancel(o, UdpOps)

LookupLeft(o) == Cancel(o, {"resolve"})                                   \* mutant
LookupsCancelled(o) == Cancel(o, {"resolve", "udp_resolve"})

(* destroy(): a second call does nothing.                                  *)
Destroy(o) ==
  IF status = "DESTROY"
  THEN ops' = o /\ UNCHANGED closing
  ELSE /\ status' = "DESTROY"
       /\ recorded' = IF auth_password THEN Append(recorded, Usage) ELSE recorded
       /\ out_open' = FALSE /\ udp_open' = FALSE /\ UNCHANGED in_open
       /\ ops' \in Shutdown(UdpClosed(Cancel(LookupsCancelled(o), OutOps)))

-----------------------------------------------------------------------------
(* The TLS handshake.  A peer that speaks plain HTTP may be answered, and  *)
(* the session ends when the answer is written, or cannot be.              *)

Handshaken ==
  /\ UNCHANGED <<closing, uplink, downlink, account>>
  /\ \E o \in Completed(ops, "handshake") : ops' \in InAsyncRead(o)

HttpRequest ==
  /\ ops["waiting"]["handshake"] > 0
  /\ ops' \in Begin(Remove(ops, "handshake", "waiting"), "http_write", in_open, TRUE)
  /\ recv_len' = recv_len + 1
  /\ UNCHANGED <<closing, uplink, downlink, auth_password, sent_len>>

HttpSent ==
  /\ \E o \in Completed(ops, "http_write") : Destroy(o)
  /\ UNCHANGED <<uplink, downlink, account>>

-----------------------------------------------------------------------------
(* udp_sent(): ask the resolver for the destination of the first whole     *)
(* packet of buf; without one read on, or give up on a packet that is too  *)
(* long or malformed.                                                      *)

AllPackets(buf) == buf                                                    \* mutant
RestPackets(buf) == Tail(buf)

ReadOn(o) == InAsyncRead(o)

UdpSentWith(o, buf) ==
  IF buf # << >>
  THEN /\ packet' = Head(buf) /\ udp_data_buf' = RestPackets(buf)
       /\ ops' = Add(o, "udp_resolve", "waiting")
       /\ UNCHANGED <<sockets, recorded>> /\ status' = "UDP_FORWARD"
  ELSE /\ udp_data_buf' = buf /\ UNCHANGED packet
       /\ \/ Destroy(o)
          \/ /\ ops' \in ReadOn(o)
             /\ UNCHANGED <<sockets, recorded>> /\ status' = "UDP_FORWARD"

(* Any number of whole pieces may come at once.                            *)
Pieces(n) == [i \in 1 .. (n - up_taken) |-> up_taken + i]

(* in_recv in HANDSHAKE.  The request must be whole: anything else, and a  *)
(* password neither the configuration nor the Authenticator knows, is a    *)
(* stranger's.  No read is started before the destination is connected.    *)
InRecvStream ==
  /\ status = "HANDSHAKE"
  /\ \E o \in Completed(ops, "in_read"), r \in Requests \ {"UDP_ASSOCIATE"} :
       /\ ops' = Add(o, "resolve", "waiting")
       /\ up_taken' \in {n \in {0, 1} : n <= MaxUp /\ (r = "STRANGER" => n = 1)}
       /\ auth_password' \in IF r = "STRANGER" THEN {FALSE} ELSE BOOLEAN
  /\ out_write_buf' = Pieces(up_taken')
  /\ sent_len' = sent_len + Len(out_write_buf')
  /\ UNCHANGED <<closing, udp_data_buf, packet, to_server, late, downlink, recv_len>>

InRecvAssociate ==
  /\ status = "HANDSHAKE" /\ "UDP_ASSOCIATE" \in Requests
  /\ auth_password' \in BOOLEAN
  /\ up_taken' \in 0 .. MaxUp
  /\ out_write_buf' = Pieces(up_taken')
  /\ \E o \in Completed(ops, "in_read") :
       \/ out_write_buf' # << >> /\ UdpSentWith(o, out_write_buf')
       \/ /\ out_write_buf' = << >> /\ status' = "UDP_FORWARD"
          /\ ops' \in ReadOn(o)
          /\ UNCHANGED <<sockets, recorded, udp_data_buf, packet>>
  /\ UNCHANGED <<to_server, late, downlink, sent_len, recv_len>>

InRecvForward ==
  /\ status = "FORWARD" /\ up_taken < MaxUp
  /\ up_taken' = up_taken + 1 /\ sent_len' = sent_len + 1
  /\ to_server' = Append(to_server, up_taken')
  /\ \E o \in Completed(ops, "in_read") : ops' \in OutAsyncWrite(o)
  /\ UNCHANGED <<closing, out_write_buf, udp_data_buf, packet, late, downlink,
                 auth_password, recv_len>>

InRecvUdpForward ==
  /\ status = "UDP_FORWARD"
  /\ up_taken' \in up_taken .. MaxUp
  /\ \E o \in Completed(ops, "in_read") :
       UdpSentWith(o, udp_data_buf \o Pieces(up_taken'))
  /\ UNCHANGED <<out_write_buf, to_server, late, downlink, account>>

(* The remaining success handlers of reads and writes do nothing once the  *)
(* session is destroyed.                                                   *)
Dropped ==
  /\ status = "DESTROY"
  /\ \E k \in {"in_read", "in_write", "out_read", "out_write"} \cup UdpOps :
       ops' \in Completed(ops, k)
  /\ UNCHANGED <<closing, uplink, downlink, account>>

-----------------------------------------------------------------------------
(* The destination of a stream.                                            *)

Resolved ==
  /\ ops["ready"]["resolve"] > 0
  /\ LET o == Remove(ops, "resolve", "ready") IN
       \/ Destroy(o)               \* no address, or open() failed
       \/ /\ out_open' = TRUE
          /\ ops' \in Begin(o, "connect", TRUE, TRUE)
          /\ UNCHANGED <<status, in_open, udp_open, recorded>>
  /\ UNCHANGED <<uplink, downlink, account>>

NoFlight == <<0>>                                                         \* mutant
FirstFlight == <<0>> \o out_write_buf

WriteAndRead(o) == UNION {InAsyncRead(w) : w \in OutAsyncWrite(o)}        \* mutant
WriteOrRead(o) == IF out_write_buf # << >> THEN OutAsyncWrite(o) ELSE InAsyncRead(o)

Connected ==
  /\ status' = "FORWARD"
  /\ to_server' = FirstFlight
  /\ UNCHANGED <<sockets, recorded, up_taken, out_write_buf, udp_data_buf, packet,
                 late, downlink, account>>
  /\ \E o \in Completed(ops, "connect") :
       \E r \in OutAsyncRead(o) : ops' \in WriteOrRead(r)

OutSent ==
  /\ status = "FORWARD" /\ UNCHANGED <<closing, uplink, downlink, account>>
  /\ \E o \in Completed(ops, "out_write") : ops' \in InAsyncRead(o)

OutRecv ==
  /\ status = "FORWARD" /\ down_taken < MaxDown
  /\ down_taken' = down_taken + 1 /\ recv_len' = recv_len + 1
  /\ to_client' = Append(to_client, down_taken')
  /\ \E o \in Completed(ops, "out_read") : ops' \in InAsyncWrite(o)
  /\ UNCHANGED <<closing, uplink, auth_password, sent_len>>

InSent ==
  /\ status \in {"FORWARD", "UDP_FORWARD"}
  /\ UNCHANGED <<closing, uplink, downlink, account>>
  /\ \E o \in Completed(ops, "in_write") :
       ops' \in IF status = "FORWARD" THEN OutAsyncRead(o) ELSE UdpAsyncRead(o)

-----------------------------------------------------------------------------
(* The destination of a packet.  The handler does not look at status: an   *)
(* answer that came before destroy() could cancel the lookup opens the     *)
(* socket again and sends the packet.                                      *)

SendPacket ==
  /\ sent_len' = sent_len + 1
  /\ IF status = "DESTROY"
     THEN late' = TRUE /\ UNCHANGED to_server
     ELSE /\ to_server' = (IF to_server = << >> THEN <<0>> ELSE to_server) \o <<packet>>
          /\ UNCHANGED late

ResolvedUdp ==
  /\ ops["ready"]["udp_resolve"] > 0
  /\ LET o == Remove(ops, "udp_resolve", "ready") IN
       \/ /\ Destroy(o)            \* no address, or open() failed
          /\ UNCHANGED <<sent_len, late, to_server>>
       \/ /\ udp_open' = TRUE /\ UNCHANGED <<status, in_open, out_open, recorded>>
          /\ \E r \in IF udp_open THEN {o} ELSE UdpAsyncRead(o) : ops' \in UdpAsyncWrite(r)
          /\ SendPacket
  /\ UNCHANGED <<up_taken, out_write_buf, udp_data_buf, packet, downlink, auth_password,
                 recv_len>>

UdpSent ==
  /\ status = "UDP_FORWARD" /\ UNCHANGED up_taken
  /\ \E o \in Completed(ops, "udp_write") : UdpSentWith(o, udp_data_buf)
  /\ UNCHANGED <<out_write_buf, to_server, late, downlink, account>>

UdpRecv ==
  /\ status = "UDP_FORWARD" /\ down_taken < MaxDown
  /\ down_taken' = down_taken + 1 /\ recv_len' = recv_len + 1
  /\ to_client' = Append(to_client, down_taken')
  /\ \E o \in Completed(ops, "udp_read") : ops' \in InAsyncWrite(o)
  /\ UNCHANGED <<closing, uplink, auth_password, sent_len>>

-----------------------------------------------------------------------------
(* An operation fails or was cancelled: every handler calls destroy().     *)
Fail ==
  /\ \E k \in Kinds \ {"shutdown", "timer"}, p \in {"waiting", "failed", "aborted"} :
       ops[p][k] > 0 /\ Destroy(Remove(ops, k, p))
  /\ UNCHANGED <<uplink, downlink, account>>

IgnoreAbort ==
  /\ \E k \in {"shutdown", "timer"} :
       ops["aborted"][k] > 0 /\ ops' = Remove(ops, k, "aborted")
  /\ UNCHANGED <<closing, uplink, downlink, account>>

(* ssl_shutdown_cb: the TLS shutdown ended, in whatever way, or the timer  *)
(* went off.                                                               *)
ShutdownDone ==
  /\ \E k \in {"shutdown", "timer"} : \E o \in Completed(ops, k) :
       ops' = Cancel(o, InOps \cup {"timer"})
  /\ in_open' = FALSE
  /\ UNCHANGED <<status, out_open, udp_open, recorded, uplink, downlink, account>>

(* A waiting operation succeeds and its handler is queued, as in           *)
(* ClientSession.                                                          *)
Shares(k) == \E S \in {InOps, OutOps, UdpOps} :
               k \in S /\ \E j \in S : j # k /\ ops["waiting"][j] > 0
DataLeft(k) ==
  CASE k = "in_read" -> status = "HANDSHAKE" \/ up_taken < MaxUp
    [] k \in {"out_read", "udp_read"} -> down_taken < MaxDown
    [] OTHER -> TRUE
Perform ==
  /\ \E k \in Kinds :
       /\ ops["waiting"][k] > 0 /\ DataLeft(k)
       /\ k \in {"resolve", "udp_resolve", "timer", "handshake", "shutdown"} \/ Shares(k)
       /\ ops' = Add(Remove(ops, k, "waiting"), k, "ready")
  /\ UNCHANGED <<closing, uplink, downlink, account>>

Next ==
  \/ Handshaken \/ HttpRequest \/ HttpSent
  \/ InRecvStream \/ InRecvAssociate \/ InRecvForward \/ InRecvUdpForward \/ Dropped
  \/ Resolved \/ Connected \/ OutSent \/ OutRecv \/ InSent
  \/ ResolvedUdp \/ UdpSent \/ UdpRecv
  \/ Fail \/ IgnoreAbort \/ ShutdownDone \/ Perform

Spec == Init /\ [][Next]_vars

(* The io_context runs every queued handler, the resolver answers, the     *)
(* kernel ends a connect and the timer goes off.  Nothing is assumed of    *)
(* the peer, the destination or the network.                               *)
RunsQueued(k) ==
  \E p \in Phase \ {"waiting"} : ops[p][k] > 0 /\ Next /\ ops'[p][k] < ops[p][k]
Settles(k) ==
  ops["waiting"][k] > 0 /\ Next /\ ops'["waiting"][k] < ops["waiting"][k]
IoContextRuns ==
  /\ \A k \in Kinds : WF_vars(RunsQueued(k))
  /\ \A k \in {"resolve", "udp_resolve", "connect", "udp_write", "timer"} : WF_vars(Settles(k))
FairSpec == Spec /\ IoContextRuns

-----------------------------------------------------------------------------
Live(k) == Outstanding(ops, k)

(* Type invariant: the types, and that a destroyed session waits for no    *)
(* resolver and its socket to the destination is closed.  Only the socket  *)
(* of the datagrams can be open, by a lookup that was answered before.     *)
Types ==
  /\ status \in Status /\ {in_open, out_open, udp_open, auth_password, late} \subseteq BOOLEAN
  /\ IsOps(ops, Kinds)
  /\ {up_taken, down_taken, sent_len, recv_len, packet} \subseteq Nat
  /\ {out_write_buf, udp_data_buf, to_server, to_client} \subseteq Seq(Nat)
  /\ recorded \in Seq(Nat \X Nat)

TypeOK ==
  /\ Types
  /\ status = "DESTROY" =>
       ~ out_open /\ \A k \in {"resolve", "udp_resolve"} : ops["waiting"][k] = 0

Stream(n) == [i \in 1 .. (n + 1) |-> i - 1]
InHand == IF Live("udp_resolve") > 0 THEN <<packet>> ELSE << >>

(* Nothing of the peer is lost, repeated or reordered on its way, be it    *)
(* the payload in the read of the request, several packets in one read, or *)
(* a packet whose destination is being looked up: what was handed on, what *)
(* is in hand and what is buffered make the whole.                         *)
UplinkComplete ==
  /\ status = "FORWARD" => to_server = Stream(up_taken)
  /\ status = "UDP_FORWARD" =>
       (IF to_server = << >> THEN <<0>> ELSE to_server) \o InHand \o udp_data_buf
         = Stream(up_taken)

(* Each direction has exactly one operation in flight; the way back of a   *)
(* UDP ASSOCIATE begins with its first packet.                             *)
OneInFlight ==
  /\ status = "FORWARD" =>
       Live("in_read") + Live("out_write") = 1 /\ Live("out_read") + Live("in_write") = 1
  /\ status = "UDP_FORWARD" =>
       /\ Live("in_read") + Live("udp_resolve") + Live("udp_write") = 1
       /\ Live("udp_read") + Live("in_write") = IF udp_open THEN 1 ELSE 0

(* A user of the Authenticator is charged when the session ends, once,     *)
(* with what was relayed until then, or with a payload whose destination   *)
(* was never reached.                                                      *)
Relayed == IF to_server = << >> THEN {0, Len(out_write_buf)} ELSE {Len(to_server) - 1}
UsageRecorded ==
  IF status # "DESTROY" \/ ~ auth_password THEN recorded = << >>
  ELSE \E up \in Relayed : recorded = << <<Len(to_client), up>> >>

(* "After a connection is closed, trojan will increment download and       *)
(* upload fields of that user by the amount of data the user has used"     *)
(* (docs/authenticator.md): nothing is sent for the user after that.       *)
AllUsageRecorded == recorded # << >> => recorded[1][2] = sent_len

(* A destroyed session is freed in the end, unless it has opened its UDP   *)
(* socket again and nothing comes there.                                   *)
DestroyedIsReleased ==
  <>(status = "DESTROY") => <>Drained(ops) \/ <>[](late /\ ops["waiting"]["udp_read"] > 0)

(* The session implements the relay of Relay.tla, 0 being the connection   *)
(* to the destination.                                                     *)
R == INSTANCE Relay WITH up <- to_server, down <- to_client, open <- (status # "DESTROY")
ImplementsRelay == R!Spec
=============================================================================
