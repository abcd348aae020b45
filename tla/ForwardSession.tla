--------------------------- MODULE ForwardSession ---------------------------
(***************************************************************************)
(* One ForwardSession of a trojan client that forwards a TCP port: the     *)
(* relay of ClientSession without the SOCKS dialogue.  start() leaves it   *)
(* in CONNECT with the request for the configured target in out_write_buf, *)
(* a read of the client and the resolver under way.  The handlers are the  *)
(* code of ClientSession, written out a second time for the cases CONNECT, *)
(* FORWARD and DESTROY; each is the action of ClientSession it copies.     *)
(* natsession.cpp has them a third time.                                   *)
(***************************************************************************)
EXTENDS ClientSession

ForwardInit ==
  /\ status = "CONNECT" /\ is_udp = FALSE /\ first_packet_recv = FALSE
  /\ in_open = TRUE /\ udp_open = FALSE /\ out_open = FALSE
  /\ up_taken = 0 /\ out_write_buf = <<Header>> /\ to_tunnel = << >>
  /\ swallowed = FALSE
  /\ down_taken = 0 /\ udp_data_buf = << >> /\ to_client = << >>
  /\ \E r \in InAsyncRead(NoOps(Kinds)) : ops = Add(r, "resolve", "waiting")

(* Mutant: in_recv writes to a tunnel that is still being made.            *)
RecvUnbuffered ==
  /\ status \in {"CONNECT", "FORWARD"} /\ up_taken < MaxUp
  /\ up_taken' = up_taken + 1 /\ to_tunnel' = Append(to_tunnel, up_taken')
  /\ \E o \in Completed(ops, "in_read") : ops' \in OutAsyncWrite(o)
  /\ UNCHANGED <<conn, sockets, out_write_buf, swallowed, downlink>>

InRecv == InRecvConnect \/ InRecvForward

(* The chain that start() begins.                                          *)
MakeTunnel == Resolved \/ Connected \/ Established

Pump == InSentForward \/ OutRecvForward \/ OutSent

ForwardNext ==
  \/ InRecv \/ MakeTunnel \/ Pump \/ Dropped
  \/ Fail \/ IgnoreAbort \/ ShutdownDone \/ Perform

ForwardSpec == ForwardInit /\ [][ForwardNext]_vars
=============================================================================
