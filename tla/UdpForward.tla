----------------------------- MODULE UdpForward -----------------------------
(***************************************************************************)
(* Port forwarding of UDP: the datagrams of one local endpoint, and the    *)
(* UDPForwardSession that Service::udp_async_read gives them to.  Other    *)
(* endpoints have sessions of their own and share only the io_context      *)
(* with it.  Service holds the session weakly: it lives as long as one of  *)
(* its handlers is outstanding, and the first datagram after that makes    *)
(* the next session.                                                       *)
(*                                                                         *)
(* Data.  Datagrams are numbered in the order Service receives them;       *)
(* Header is the trojan request.  Of the other direction the model keeps   *)
(* the reads: every whole packet is handed on before the next read.        *)
(***************************************************************************)
EXTENDS Asio, Sequences

CONSTANTS
  MaxUp,      \* bound: datagrams of the endpoint
  MaxReads    \* bound: reads of a tunnel that succeed

ASSUME BoundsAssumption == MaxUp \in Nat /\ MaxReads \in Nat

VARIABLES
  serving,         \* io_context.run() has not been left by an exception
  up_taken,        \* datagrams Service has received
  status, out_open, ops, out_write_buf,
  destroyed,       \* history: destroy() ran in this session
  accepted,        \* history: the datagrams this session did not ignore
  to_tunnel,       \* history: what was given to out_async_write
  reads            \* reads of the tunnel that succeeded

service  == <<serving, up_taken>>
uplink   == <<out_write_buf, accepted, to_tunnel>>
vars     == <<service, status, out_open, ops, destroyed, uplink, reads>>

Status == {"CONNECT", "FORWARD", "FORWARDING", "DESTROY"}
OutOps == {"connect", "handshake", "out_read", "out_write", "shutdown"}
Kinds  == OutOps \cup {"resolve", "gc", "timer"}

Header == 0

Live(k) == Outstanding(ops, k)

(* No session yet: what a session that is gone leaves.                     *)
Init ==
  /\ serving = TRUE /\ up_taken = 0
  /\ status = "DESTROY" /\ out_open = FALSE /\ ops = NoOps(Kinds)
  /\ destroyed = TRUE /\ out_write_buf = << >> /\ accepted = << >>
  /\ to_tunnel = << >> /\ reads = 0

-----------------------------------------------------------------------------
(* timer_async_wait: expires_after cancels the wait in progress.           *)
ArmNever(o) == Cancel(o, {"gc"})                                          \* mutant
Arm(o) == Add(Cancel(o, {"gc"}), "gc", "waiting")

OutAsyncRead(o)  == Begin(o, "out_read", out_open, reads' < MaxReads)
OutAsyncWrite(o) == Begin(o, "out_write", out_open, TRUE)

ShutdownUnbounded(o) == Begin(Cancel(o, OutOps), "shutdown", TRUE, TRUE)  \* mutant
Shutdown(o) ==
  {Add(s, "timer", "waiting") :
     s \in Begin(Cancel(o, OutOps \cup {"timer"}), "shutdown", TRUE, TRUE)}

(* What destroy() cancels whether or not there is a tunnel.                *)
TimerLeft(o) == Cancel(o, {"resolve"})                                    \* mutant
Quieted(o) == Cancel(o, {"resolve", "gc"})

Destroy(o) ==
  IF status = "DESTROY"
  THEN ops' = o /\ UNCHANGED <<status, destroyed>>
  ELSE /\ status' = "DESTROY" /\ destroyed' = TRUE
       /\ ops' \in IF out_open THEN Shutdown(Quieted(o)) ELSE {Quieted(o)}

-----------------------------------------------------------------------------
(* Service::udp_async_read: the weak pointer is expired, or there was no   *)
(* session: a new one is started and takes the datagram.                   *)
FirstDatagram ==
  /\ serving /\ up_taken < MaxUp /\ Drained(ops)
  /\ up_taken' = up_taken + 1
  /\ status' = "CONNECT" /\ out_open' = FALSE /\ destroyed' = FALSE
  /\ ops' = Arm(Add(Arm(NoOps(Kinds)), "resolve", "waiting"))
  /\ out_write_buf' = <<Header, up_taken'>>
  /\ accepted' = <<up_taken'>> /\ to_tunnel' = << >> /\ reads' = 0
  /\ UNCHANGED serving

(* The status while a write is in progress, and out_write_buf once it has  *)
(* been given to a write.                                                  *)
NotBusy == "FORWARD"                                                      \* mutant
Busy == "FORWARDING"
NotCleared == out_write_buf                                               \* mutant
Cleared == << >>

(* The session claims the datagram and ignores it, or sends it, or keeps   *)
(* it for the end of the write in progress.                                *)
Ignored ==
  /\ serving /\ up_taken < MaxUp /\ ~ Drained(ops)
  /\ status = "DESTROY"
  /\ up_taken' = up_taken + 1
  /\ UNCHANGED <<serving, status, out_open, ops, destroyed, uplink, reads>>

TakeSent ==
  /\ serving /\ up_taken < MaxUp /\ ~ Drained(ops)
  /\ status = "FORWARD" /\ status' = Busy
  /\ up_taken' = up_taken + 1
  /\ accepted' = Append(accepted, up_taken')
  /\ to_tunnel' = Append(to_tunnel, up_taken')
  /\ ops' \in OutAsyncWrite(Arm(ops))
  /\ UNCHANGED <<serving, out_open, destroyed, out_write_buf, reads>>

TakeBuffered ==
  /\ serving /\ up_taken < MaxUp /\ ~ Drained(ops)
  /\ status \in {"CONNECT", "FORWARDING"}
  /\ up_taken' = up_taken + 1
  /\ accepted' = Append(accepted, up_taken')
  /\ out_write_buf' = Append(out_write_buf, up_taken')
  /\ ops' = Arm(ops)
  /\ UNCHANGED <<serving, status, out_open, destroyed, to_tunnel, reads>>

(* The socket of Service fails: stop() and an exception.                   *)
ServiceFails ==
  /\ serving /\ serving' = FALSE
  /\ UNCHANGED <<up_taken, status, out_open, ops, destroyed, uplink, reads>>

-----------------------------------------------------------------------------
(* The chain that start() begins.  As in ClientSession no handler of it    *)
(* looks at status.                                                        *)

Resolved ==
  /\ serving /\ ops["ready"]["resolve"] > 0
  /\ LET o == Remove(ops, "resolve", "ready") IN
       \/ Destroy(o) /\ UNCHANGED out_open
       \/ /\ out_open' = TRUE
          /\ ops' \in Begin(o, "connect", TRUE, TRUE)
          /\ UNCHANGED <<status, destroyed>>
  /\ UNCHANGED <<service, uplink, reads>>

Connected ==
  /\ serving
  /\ \E o \in Completed(ops, "connect") :
       ops' \in Begin(o, "handshake", out_open, FALSE)
  /\ UNCHANGED <<service, status, out_open, destroyed, uplink, reads>>

Established ==
  /\ serving
  /\ status' = Busy
  /\ to_tunnel' = to_tunnel \o out_write_buf
  /\ out_write_buf' = Cleared
  /\ UNCHANGED reads
  /\ \E o \in Completed(ops, "handshake") :
       \E r \in OutAsyncRead(o) : ops' \in OutAsyncWrite(r)
  /\ UNCHANGED <<service, out_open, destroyed, accepted>>

-----------------------------------------------------------------------------
(* out_recv: all the whole packets are handed to the client, by send_to of *)
(* Service's socket.  A send that fails throws out of io_context.run().    *)
OutRecv ==
  /\ serving /\ status \in {"FORWARD", "FORWARDING"}
  /\ reads < MaxReads /\ reads' = reads + 1
  /\ \E o \in Completed(ops, "out_read") :
       \/ Destroy(Arm(o)) /\ UNCHANGED serving           \* packet too long
       \/ ops' \in OutAsyncRead(Arm(o)) /\ UNCHANGED <<serving, status, destroyed>>
       \/ serving' = FALSE /\ ops' = Arm(o) /\ UNCHANGED <<status, destroyed>>
  /\ UNCHANGED <<up_taken, out_open, uplink>>

OutSent ==
  /\ serving /\ status = "FORWARDING"
  /\ \E o \in Completed(ops, "out_write") :
       IF out_write_buf = << >>
       THEN status' = "FORWARD" /\ ops' = o /\ UNCHANGED <<out_write_buf, to_tunnel>>
       ELSE /\ to_tunnel' = to_tunnel \o out_write_buf /\ out_write_buf' = Cleared
            /\ status' = Busy /\ ops' \in OutAsyncWrite(o)
  /\ UNCHANGED <<service, out_open, destroyed, accepted, reads>>

(* The gc_timer went off and nothing cancelled its handler.                *)
TimedOut ==
  /\ serving /\ ops["ready"]["gc"] > 0
  /\ Destroy(Remove(ops, "gc", "ready"))
  /\ UNCHANGED <<service, out_open, uplink, reads>>

Dropped ==
  /\ serving /\ status = "DESTROY"
  /\ \E k \in {"out_read", "out_write"} :
       ops["ready"][k] > 0 /\ ops' = Remove(ops, k, "ready")
  /\ UNCHANGED <<service, status, out_open, destroyed, uplink, reads>>

Fail ==
  /\ serving
  /\ \E k \in {"resolve", "connect", "handshake", "out_read", "out_write"} :
       \E p \in {"waiting", "failed", "aborted"} :
         ops[p][k] > 0 /\ Destroy(Remove(ops, k, p))
  /\ UNCHANGED <<service, out_open, uplink, reads>>

IgnoreAbort ==
  /\ serving
  /\ \E k \in {"gc", "shutdown", "timer"} :
       ops["aborted"][k] > 0 /\ ops' = Remove(ops, k, "aborted")
  /\ UNCHANGED <<service, status, out_open, destroyed, uplink, reads>>

ShutdownDone ==
  /\ serving
  /\ \E k \in {"shutdown", "timer"} : \E o \in Completed(ops, k) :
       ops' = Cancel(o, OutOps \cup {"timer"})
  /\ out_open' = FALSE
  /\ UNCHANGED <<service, status, destroyed, uplink, reads>>

(* The resolver, the timers and the reactor queue a handler.               *)
Shares(k) == k \in OutOps /\ \E j \in OutOps : j # k /\ ops["waiting"][j] > 0

Perform ==
  /\ serving
  /\ \E k \in Kinds :
       /\ ops["waiting"][k] > 0
       /\ k \in {"resolve", "gc", "timer", "handshake", "shutdown"} \/ Shares(k)
       /\ k = "out_read" => reads < MaxReads
       /\ ops' = Add(Remove(ops, k, "waiting"), k, "ready")
  /\ UNCHANGED <<service, status, out_open, destroyed, uplink, reads>>

Proceed ==
  \/ Resolved \/ Connected \/ Established \/ OutRecv \/ OutSent \/ TimedOut
  \/ Dropped \/ IgnoreAbort \/ ShutdownDone \/ Perform

Datagram == FirstDatagram \/ Ignored \/ TakeSent \/ TakeBuffered

Next == Proceed \/ Fail \/ Datagram \/ ServiceFails

Spec == Init /\ [][Next]_vars

(* The io_context runs every queued handler, the resolver answers, the     *)
(* kernel ends a connect and the timers go off.                            *)
RunsQueued(k) ==
  \E p \in Phase \ {"waiting"} : ops[p][k] > 0 /\ Next /\ ops'[p][k] < ops[p][k]
Settles(k) ==
  ops["waiting"][k] > 0 /\ Next /\ ops'["waiting"][k] < ops["waiting"][k]
IoContextRuns ==
  /\ \A k \in Kinds : WF_vars(RunsQueued(k))
  /\ \A k \in {"resolve", "connect", "gc", "timer"} : WF_vars(Settles(k))
FairSpec == Spec /\ IoContextRuns

-----------------------------------------------------------------------------
(* Type invariant: the types, and that a destroyed session waits for no    *)
(* resolver and no idle timer, whichever handler destroyed it and whatever *)
(* datagrams and late handlers find it afterwards.                         *)
Types ==
  /\ serving \in BOOLEAN /\ out_open \in BOOLEAN /\ destroyed \in BOOLEAN
  /\ status \in Status /\ IsOps(ops, Kinds)
  /\ up_taken \in Nat /\ reads \in Nat
  /\ out_write_buf \in Seq(Nat) /\ accepted \in Seq(Nat) /\ to_tunnel \in Seq(Nat)

TypeOK ==
  /\ Types
  /\ status = "DESTROY" => \A k \in {"resolve", "gc"} : ops["waiting"][k] = 0

(* What reaches the tunnel is the request and then the datagrams in the    *)
(* order they came, each of them once: FORWARDING keeps what comes during  *)
(* a write behind that write, and CONNECT behind the handshake.            *)
UplinkInOrder ==
  accepted # << >> => to_tunnel \o out_write_buf = <<Header>> \o accepted

(* FORWARDING says that a write is in progress and FORWARD that none is:   *)
(* two never overlap, and what waits in out_write_buf has a write whose    *)
(* end will take it along.  This holds even of a session that a handshake  *)
(* brings back after destroy().                                            *)
OneWrite ==
  /\ Live("out_write") <= 1
  /\ status = "FORWARD" => Live("out_write") = 0 /\ out_write_buf = << >>
  /\ status = "FORWARDING" => Live("out_write") + ops["aborted"]["out_write"] = 1

(* As long as destroy() has not run one gc_timer wait is pending, however  *)
(* often it was put off, or its time-out is queued.                        *)
IdleTimer ==
  ~ destroyed => /\ ops["waiting"]["gc"] <= 1
                 /\ Live("gc") > 0

(* A session that destroy() did not stop from finishing its handshake.     *)
Revived == destroyed /\ status # "DESTROY"

(* When the traffic has ended the session is released, whatever the server *)
(* does, unless it waits for a handshake or was revived by one.            *)
IdleIsReleased ==
  <>[](~ serving \/ Drained(ops) \/ Revived \/ ops["waiting"]["handshake"] > 0)
=============================================================================
