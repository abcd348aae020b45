------------------------ MODULE ServerSessionProofs ------------------------
(* Theorems about ServerSession, for all values of its constants: what the *)
(* peer sends reaches the destination once and in order, the operations of *)
(* a direction never overlap, a user is charged once and for what was      *)
(* relayed, and Relay is implemented.                                      *)
EXTENDS ServerSession, AsioProofs

(* The operations a session has.  Until the destination is connected there *)
(* is one, and none behind it: nothing but its own end can destroy the     *)
(* session then, so that no queued result of the resolver or of connect    *)
(* survives destroy().  The aborts of destroy() come after it.             *)
None(S) == \A k \in S : Live(k) = 0

Hello == Live("handshake") + Live("http_write") + Live("in_read")
Dial  == Live("resolve") + Live("connect")

DialOps == {"handshake", "resolve", "connect"}

ShapeInv ==
  /\ status = "HANDSHAKE" =>
       /\ Hello + Dial = 1 /\ ~ udp_open
       /\ None({"out_read", "out_write", "in_write", "udp_resolve", "udp_read", "udp_write"})
  /\ status = "FORWARD" =>
       None({"handshake", "http_write", "resolve", "connect", "udp_resolve", "udp_read", "udp_write"})
  /\ status = "UDP_FORWARD" =>
       None({"handshake", "http_write", "resolve", "connect", "out_read", "out_write"})
  /\ status = "DESTROY" => None(DialOps)
  /\ status # "DESTROY" =>
       None({"shutdown", "timer"}) /\ \A k \in Kinds : ops["aborted"][k] = 0

(* What was taken, handed on and counted.                                  *)
Reached == IF to_server = << >> THEN <<0>> ELSE to_server

HelloInv ==
  status = "HANDSHAKE" =>
    /\ to_server = << >> /\ udp_data_buf = << >> /\ down_taken = 0
    /\ Dial = 0 => up_taken = 0 /\ sent_len = 0 /\ ~ auth_password
    /\ Dial > 0 => out_write_buf = Count(up_taken) /\ sent_len = up_taken
    /\ Live("http_write") = 0 => recv_len = 0

RelayInv ==
  /\ up_taken <= MaxUp /\ down_taken <= MaxDown /\ to_client = Count(down_taken)
  /\ status = "FORWARD" => sent_len = up_taken /\ recv_len = down_taken
  /\ status = "UDP_FORWARD" =>
       /\ sent_len = Len(Reached) - 1 /\ recv_len = down_taken
       /\ udp_open => to_server # << >>

-----------------------------------------------------------------------------
LEMMA KindsFacts ==
  /\ Kinds = {"handshake", "in_read", "in_write", "http_write", "shutdown", "connect",
              "out_read", "out_write", "udp_read", "udp_write", "resolve", "udp_resolve",
              "timer"}
  /\ Phase = {"waiting", "ready", "failed", "aborted"}
BY DEF Kinds, InOps, OutOps, UdpOps, Phase

LEMMA KindsIn ==
  /\ {"handshake", "in_read", "in_write", "http_write", "shutdown", "connect",
      "out_read", "out_write", "udp_read", "udp_write", "resolve", "udp_resolve",
      "timer"} \subseteq Kinds
  /\ {"waiting", "ready", "failed"} \subseteq Phase \ {"aborted"}
  /\ {"waiting", "ready", "failed", "aborted"} \subseteq Phase
BY KindsFacts

LEMMA TableNat ==
  ASSUME NEW o, IsOps(o, Kinds), NEW j \in Kinds
  PROVE  /\ Outstanding(o, j) \in Nat
         /\ o["waiting"][j] \in Nat /\ o["ready"][j] \in Nat
         /\ o["failed"][j] \in Nat /\ o["aborted"][j] \in Nat
BY KindsIn DEF Outstanding, IsOps

(* r comes from o when one operation of kind a is taken and one of each    *)
(* kind of B is started.                                                   *)
Differs(o, r, a, B) ==
  /\ IsOps(r, Kinds)
  /\ \A j \in Kinds :
       /\ Outstanding(r, j) = Outstanding(o, j) - (IF j = a THEN 1 ELSE 0)
                                                + (IF j \in B THEN 1 ELSE 0)
       /\ r["aborted"][j] = o["aborted"][j]

(* A handler of an operation of kind a that starts those of B.             *)
Turn(a, B) == Live(a) > 0 /\ Differs(ops, ops', a, B)

LEMMA RemoveDiffers ==
  ASSUME NEW o, IsOps(o, Kinds), NEW a \in Kinds, NEW p \in Phase \ {"aborted"}, o[p][a] > 0
  PROVE  Differs(o, Remove(o, a, p), a, {}) /\ Outstanding(o, a) > 0
<1>1. p \in Phase
  OBVIOUS
<1>2. IsOps(Remove(o, a, p), Kinds)
  BY <1>1, RemoveType
<1>3. ASSUME NEW j \in Kinds
      PROVE  /\ Outstanding(Remove(o, a, p), j) = Outstanding(o, j) - (IF j = a THEN 1 ELSE 0)
             /\ Remove(o, a, p)["aborted"][j] = o["aborted"][j]
  <2>1. Outstanding(Remove(o, a, p), j) = IF j = a THEN Outstanding(o, j) - 1 ELSE Outstanding(o, j)
    BY RemoveLive
  <2>2. Outstanding(o, j) \in Nat
    BY TableNat
  <2>3. Remove(o, a, p)["aborted"][j] = o["aborted"][j]
    BY KindsFacts DEF Remove, IsOps
  <2> QED
    BY <2>1, <2>2, <2>3
<1>4. Outstanding(o, a) > 0
  <2>1. o["waiting"][a] \in Nat /\ o["ready"][a] \in Nat /\ o["failed"][a] \in Nat
    BY TableNat
  <2>2. o["waiting"][a] > 0 \/ o["ready"][a] > 0 \/ o["failed"][a] > 0
    BY KindsFacts
  <2> QED
    BY <2>1, <2>2 DEF Outstanding
<1>5. \A j \in Kinds : Outstanding(o, j) \in Nat
  BY TableNat
<1> QED
  BY <1>2, <1>3, <1>4, <1>5 DEF Differs

LEMMA CompletedDiffers ==
  ASSUME NEW o, IsOps(o, Kinds), NEW a \in Kinds, NEW r \in Completed(o, a)
  PROVE  Differs(o, r, a, {}) /\ Outstanding(o, a) > 0 /\ IsOps(r, Kinds)
<1>1. PICK p \in {"waiting", "ready"} : o[p][a] > 0 /\ r = Remove(o, a, p)
  BY DEF Completed
<1>2. p \in Phase \ {"aborted"}
  BY KindsIn
<1> QED
  BY <1>1, <1>2, RemoveDiffers DEF Differs

LEMMA AddDiffers ==
  ASSUME NEW o, IsOps(o, Kinds), NEW a, NEW B, NEW r, Differs(o, r, a, B),
         NEW b \in Kinds, b \notin B, NEW p \in Phase \ {"aborted"}
  PROVE  Differs(o, Add(r, b, p), a, B \cup {b})
<1>1. IsOps(r, Kinds) /\ p \in Phase
  BY DEF Differs
<1>2. IsOps(Add(r, b, p), Kinds)
  BY <1>1, AddType
<1>3. ASSUME NEW j \in Kinds
      PROVE  /\ Outstanding(Add(r, b, p), j) =
                  Outstanding(o, j) - (IF j = a THEN 1 ELSE 0)
                                    + (IF j \in B \cup {b} THEN 1 ELSE 0)
             /\ Add(r, b, p)["aborted"][j] = o["aborted"][j]
  <2>1. Outstanding(Add(r, b, p), j) = IF j = b THEN Outstanding(r, j) + 1 ELSE Outstanding(r, j)
    BY <1>1, AddLive
  <2>2. /\ Outstanding(r, j) = Outstanding(o, j) - (IF j = a THEN 1 ELSE 0)
                                                 + (IF j \in B THEN 1 ELSE 0)
        /\ r["aborted"][j] = o["aborted"][j]
    BY DEF Differs
  <2>3. Outstanding(o, j) \in Nat
    BY TableNat
  <2>4. Add(r, b, p)["aborted"][j] = r["aborted"][j]
    BY <1>1, KindsFacts DEF Add, IsOps
  <2> QED
    BY <2>1, <2>2, <2>3, <2>4
<1> QED
  BY <1>2, <1>3 DEF Differs

LEMMA BeginDiffers ==
  ASSUME NEW o, IsOps(o, Kinds), NEW a, NEW B, NEW r, Differs(o, r, a, B),
         NEW b \in Kinds, b \notin B, NEW open, NEW atOnce, NEW s \in Begin(r, b, open, atOnce)
  PROVE  Differs(o, s, a, B \cup {b}) /\ IsOps(s, Kinds)
<1>1. PICK p \in {"waiting", "ready", "failed"} : s = Add(r, b, p)
  BY DEF Begin
<1>2. p \in Phase \ {"aborted"}
  BY KindsIn
<1>3. Differs(o, s, a, B \cup {b})
  BY <1>1, <1>2, AddDiffers
<1> QED
  BY <1>3 DEF Differs

(* A handler that starts one operation.                                    *)
LEMMA TurnBegin ==
  ASSUME IsOps(ops, Kinds), NEW a \in Kinds, NEW b \in Kinds, NEW o \in Completed(ops, a),
         NEW open, NEW atOnce, ops' \in Begin(o, b, open, atOnce)
  PROVE  Turn(a, {b})
<1>1. Differs(ops, o, a, {}) /\ Outstanding(ops, a) > 0
  BY CompletedDiffers
<1>2. b \notin {} /\ {} \cup {b} = {b}
  OBVIOUS
<1>3. Differs(ops, ops', a, {} \cup {b})
  BY <1>1, <1>2, BeginDiffers
<1> QED
  BY <1>1, <1>2, <1>3 DEF Turn, Live

LEMMA TurnAdd ==
  ASSUME IsOps(ops, Kinds), NEW a \in Kinds, NEW b \in Kinds, NEW o \in Completed(ops, a),
         NEW p \in Phase \ {"aborted"}, ops' = Add(o, b, p)
  PROVE  Turn(a, {b})
<1>1. Differs(ops, o, a, {}) /\ Outstanding(ops, a) > 0
  BY CompletedDiffers
<1>2. b \notin {} /\ {} \cup {b} = {b}
  OBVIOUS
<1>3. Differs(ops, ops', a, {} \cup {b})
  BY <1>1, <1>2, AddDiffers
<1> QED
  BY <1>1, <1>2, <1>3 DEF Turn, Live

-----------------------------------------------------------------------------
(* destroy() starts only the shutdown and its timer.                       *)
Fewer(o, r) ==
  /\ IsOps(r, Kinds)
  /\ \A j \in Kinds \ {"shutdown", "timer"} : Outstanding(r, j) <= Outstanding(o, j)

LEMMA CancelFewer ==
  ASSUME NEW o, IsOps(o, Kinds), NEW S
  PROVE  Fewer(o, Cancel(o, S)) /\ IsOps(Cancel(o, S), Kinds)
<1>1. IsOps(Cancel(o, S), Kinds)
  BY CancelType
<1>2. \A j \in Kinds : Outstanding(Cancel(o, S), j) <= Outstanding(o, j)
  BY CancelPending
<1> QED
  BY <1>1, <1>2 DEF Fewer

LEMMA FewerTrans ==
  ASSUME NEW o, NEW r, NEW s, IsOps(o, Kinds), Fewer(o, r), Fewer(r, s)
  PROVE  Fewer(o, s)
<1>1. IsOps(r, Kinds) /\ IsOps(s, Kinds)
  BY DEF Fewer
<1>2. ASSUME NEW j \in Kinds \ {"shutdown", "timer"}
      PROVE  Outstanding(s, j) <= Outstanding(o, j)
  <2>1. Outstanding(s, j) \in Nat /\ Outstanding(r, j) \in Nat /\ Outstanding(o, j) \in Nat
    BY <1>1, TableNat
  <2>2. Outstanding(s, j) <= Outstanding(r, j) /\ Outstanding(r, j) <= Outstanding(o, j)
    BY DEF Fewer
  <2> QED
    BY <2>1, <2>2
<1> QED
  BY <1>1, <1>2 DEF Fewer

LEMMA ShutdownFewer ==
  ASSUME NEW o, IsOps(o, Kinds), NEW r \in Shutdown(o)
  PROVE  Fewer(o, r)
<1> DEFINE c == Cancel(o, InOps)
<1>1. Fewer(o, c) /\ IsOps(c, Kinds)
  BY CancelFewer
<1>2. PICK s \in Begin(c, "shutdown", TRUE, TRUE) : r = Add(s, "timer", "waiting")
  BY DEF Shutdown
<1> HIDE DEF c
<1>3. "shutdown" \in Kinds /\ "timer" \in Kinds /\ "waiting" \in Phase \ {"aborted"}
      /\ "waiting" \in Phase
  BY KindsIn
<1>q. PICK q \in Phase \ {"aborted"} : s = Add(c, "shutdown", q)
  BY <1>2, KindsIn DEF Begin
<1>4. IsOps(s, Kinds)
  BY <1>1, <1>q, <1>3, AddType
<1>5. IsOps(r, Kinds)
  BY <1>2, <1>3, <1>4, AddType
<1>6. ASSUME NEW j \in Kinds \ {"shutdown", "timer"}
      PROVE  Outstanding(r, j) = Outstanding(c, j)
  <2>0. j \in Kinds /\ j # "shutdown" /\ j # "timer"
    OBVIOUS
  <2>1. Outstanding(s, j) = Outstanding(c, j)
    BY <1>1, <1>q, <1>3, <2>0, AddLive
  <2>2. Outstanding(r, j) = Outstanding(s, j)
    BY <1>2, <1>3, <1>4, <2>0, AddLive
  <2> QED
    BY <2>1, <2>2
<1>7. \A j \in Kinds : Outstanding(c, j) \in Nat
  BY <1>1, TableNat
<1>8. Fewer(c, r)
  BY <1>5, <1>6, <1>7 DEF Fewer
<1> QED
  BY <1>1, <1>8, FewerTrans

LEMMA DestroyFewer ==
  ASSUME NEW o, IsOps(o, Kinds), Destroy(o)
  PROVE  Fewer(o, ops') /\ status' = "DESTROY"
<1>1. CASE status = "DESTROY"
  <2>1. ops' = o /\ status' = "DESTROY"
    BY <1>1 DEF Destroy, closing
  <2>2. \A j \in Kinds : Outstanding(o, j) \in Nat
    BY TableNat
  <2> QED
    BY <2>1, <2>2 DEF Fewer
<1>2. CASE status # "DESTROY"
  <2> DEFINE l == LookupsCancelled(o)
             c == Cancel(l, OutOps)
             u == Cancel(c, UdpOps)
  <2>0. Fewer(o, l) /\ IsOps(l, Kinds)
    BY CancelFewer DEF LookupsCancelled
  <2> HIDE DEF l
  <2>1. Fewer(o, c) /\ IsOps(c, Kinds)
    BY <2>0, CancelFewer, FewerTrans
  <2>2. Fewer(c, u) /\ IsOps(u, Kinds)
    BY <2>1, CancelFewer
  <2>3. ops' \in Shutdown(u) /\ status' = "DESTROY"
    BY <1>2 DEF Destroy, UdpClosed, l
  <2> HIDE DEF c, u
  <2>4. Fewer(u, ops')
    BY <2>2, <2>3, ShutdownFewer
  <2>5. Fewer(o, u)
    BY <2>1, <2>2, FewerTrans
  <2> QED
    BY <2>3, <2>4, <2>5, FewerTrans
<1> QED
  BY <1>1, <1>2

(* A handler that runs before destroy() was the only one of a session that *)
(* has no destination yet.                                                 *)
LEMMA TakenNone ==
  ASSUME Types, ShapeInv, NEW a \in Kinds, a \notin {"shutdown", "timer"}, NEW o,
         Differs(ops, o, a, {}), Live(a) > 0
  PROVE  \A k \in DialOps : Outstanding(o, k) = 0
<1>1. \A j \in Kinds : Live(j) \in Nat /\ Outstanding(o, j) = Live(j) - (IF j = a THEN 1 ELSE 0)
  <2>1. \A j \in Kinds : Live(j) \in Nat
    BY TableNat DEF Types, Live
  <2> QED
    BY <2>1 DEF Differs, Live
<1>2. \A j \in Kinds : Outstanding(o, j) \in Nat
  BY TableNat DEF Differs
<1>3. SUFFICES ASSUME NEW k \in DialOps PROVE Outstanding(o, k) = 0
  OBVIOUS
<1>4. k \in Kinds
  BY KindsIn DEF DialOps
<1>5. CASE status # "HANDSHAKE"
  <2>1. Live(k) = 0
    BY <1>5 DEF ShapeInv, None, Types, Status, DialOps
  <2> QED
    BY <1>1, <1>2, <1>4, <2>1
<1>6. CASE status = "HANDSHAKE"
  <2>1. Live("handshake") + Live("http_write") + Live("in_read") + (Live("resolve") + Live("connect")) = 1
    BY <1>6 DEF ShapeInv, Hello, Dial
  <2>2. a \in {"handshake", "http_write", "in_read", "resolve", "connect"}
    BY <1>6, KindsFacts DEF ShapeInv, None
  <2>3. /\ Live("handshake") \in Nat /\ Live("http_write") \in Nat /\ Live("in_read") \in Nat
        /\ Live("resolve") \in Nat /\ Live("connect") \in Nat
    BY <1>1, KindsIn
  <2>4. \A j \in {"handshake", "resolve", "connect"} : j # a => Live(j) = 0
    BY <2>1, <2>2, <2>3
  <2>5. Live(a) = 1
    <3>1. CASE a \in {"http_write", "in_read"}
      BY <2>1, <2>3, <2>4, <3>1
    <3>2. CASE a = "handshake"
      BY <2>1, <2>3, <3>2
    <3>3. CASE a = "resolve"
      BY <2>1, <2>3, <3>3
    <3>4. CASE a = "connect"
      BY <2>1, <2>3, <3>4
    <3> QED
      BY <2>2, <3>1, <3>2, <3>3, <3>4
  <2> QED
    BY <1>1, <1>4, <2>4, <2>5 DEF DialOps
<1> QED
  BY <1>5, <1>6

-----------------------------------------------------------------------------
(* The shape.                                                              *)
LEMMA DestroyShape ==
  ASSUME NEW o, IsOps(o, Kinds), \A k \in DialOps : Outstanding(o, k) = 0, Destroy(o)
  PROVE  ShapeInv' /\ OneInFlight'
<1>1. Fewer(o, ops') /\ status' = "DESTROY"
  BY DestroyFewer
<1>2. ASSUME NEW k \in DialOps PROVE Outstanding(ops', k) = 0
  <2>1. k \in Kinds \ {"shutdown", "timer"}
    BY KindsFacts DEF DialOps
  <2>2. Outstanding(ops', k) \in Nat
    BY <1>1, <2>1, TableNat DEF Fewer
  <2>3. Outstanding(ops', k) <= 0
    BY <1>1, <2>1 DEF Fewer
  <2> QED
    BY <2>2, <2>3
<1>3. None(DialOps)'
  BY <1>2 DEF None, Live
<1> QED
  BY <1>1, <1>3 DEF ShapeInv, OneInFlight

LEMMA TurnCounts ==
  ASSUME Types, NEW a, NEW B, Turn(a, B), NEW j \in Kinds
  PROVE  /\ Live(j) \in Nat /\ Live(j)' \in Nat
         /\ Live(j)' = Live(j) - (IF j = a THEN 1 ELSE 0) + (IF j \in B THEN 1 ELSE 0)
         /\ ops'["aborted"][j] = ops["aborted"][j]
BY TableNat DEF Types, Turn, Differs, Live

(* Kinds that are not in play stay out.                                    *)
LEMMA TurnNone ==
  ASSUME Types, NEW a, NEW B, Turn(a, B), NEW S \in SUBSET Kinds, None(S), S \cap B = {}
  PROVE  None(S)'
<1> SUFFICES ASSUME NEW k \in S PROVE Live(k)' = 0
  BY DEF None
<1>1. k \in Kinds /\ k \notin B /\ Live(k) = 0
  BY DEF None
<1>2. /\ Live(k)' \in Nat
      /\ Live(k)' = Live(k) - (IF k = a THEN 1 ELSE 0) + (IF k \in B THEN 1 ELSE 0)
  BY <1>1, TurnCounts
<1> QED
  BY <1>1, <1>2

(* Nothing is aborted before destroy().                                    *)
Calm == None({"shutdown", "timer"}) /\ \A k \in Kinds : ops["aborted"][k] = 0

LEMMA TurnCalm ==
  ASSUME Types, NEW a, NEW B, Turn(a, B), Calm, {"shutdown", "timer"} \cap B = {}
  PROVE  Calm'
<1>1. None({"shutdown", "timer"})'
  BY TurnNone, KindsIn DEF Calm
<1>2. \A k \in Kinds : ops'["aborted"][k] = 0
  BY TurnCounts DEF Calm
<1> QED
  BY <1>1, <1>2 DEF Calm

(* One operation of one direction takes the place of another.              *)
LEMMA TurnPair ==
  ASSUME Types, NEW x \in Kinds, NEW y \in Kinds, x # y, Live(x) + Live(y) = 1,
         NEW a \in {x, y}, NEW b \in {x, y}, Turn(a, {b})
  PROVE  (Live(x) + Live(y) = 1)'
<1>1. /\ Live(x) \in Nat /\ Live(x)' \in Nat
      /\ Live(x)' = Live(x) - (IF x = a THEN 1 ELSE 0) + (IF x \in {b} THEN 1 ELSE 0)
  BY TurnCounts
<1>2. /\ Live(y) \in Nat /\ Live(y)' \in Nat
      /\ Live(y)' = Live(y) - (IF y = a THEN 1 ELSE 0) + (IF y \in {b} THEN 1 ELSE 0)
  BY TurnCounts
<1> QED
  BY <1>1, <1>2

LEMMA TurnOther ==
  ASSUME Types, NEW x \in Kinds, NEW y \in Kinds, NEW a, NEW B, Turn(a, B),
         a \notin {x, y}, x \notin B, y \notin B
  PROVE  Live(x)' = Live(x) /\ Live(y)' = Live(y)
<1>1. Live(x) \in Nat /\ Live(x)' = Live(x) - (IF x = a THEN 1 ELSE 0) + (IF x \in B THEN 1 ELSE 0)
  BY TurnCounts
<1>2. Live(y) \in Nat /\ Live(y)' = Live(y) - (IF y = a THEN 1 ELSE 0) + (IF y \in B THEN 1 ELSE 0)
  BY TurnCounts
<1> QED
  BY <1>1, <1>2

LEMMA HelloShape ==
  ASSUME Types, ShapeInv, status = "HANDSHAKE", status' = "HANDSHAKE", udp_open' = udp_open,
         NEW a \in {"handshake", "http_write", "in_read", "resolve", "connect"},
         NEW b \in {"handshake", "http_write", "in_read", "resolve", "connect"},
         Turn(a, {b})
  PROVE  ShapeInv' /\ OneInFlight'
<1>1. Calm /\ ~ udp_open /\ Hello + Dial = 1
      /\ None({"out_read", "out_write", "in_write", "udp_resolve", "udp_read", "udp_write"})
  BY DEF ShapeInv, Calm
<1>2. Calm'
  BY <1>1, TurnCalm
<1>3. None({"out_read", "out_write", "in_write", "udp_resolve", "udp_read", "udp_write"})'
  BY <1>1, TurnNone, KindsIn
<1>4. (Hello + Dial = 1)'
  <2>1. \A j \in {"handshake", "http_write", "in_read", "resolve", "connect"} :
          /\ Live(j) \in Nat /\ Live(j)' \in Nat
          /\ Live(j)' = Live(j) - (IF j = a THEN 1 ELSE 0) + (IF j = b THEN 1 ELSE 0)
    BY TurnCounts, KindsIn
  <2>2. Hello + Dial = 1
    BY <1>1
  <2> DEFINE total == Live("handshake") + Live("http_write") + Live("in_read")
                        + (Live("resolve") + Live("connect"))
  <2>3. total = 1
    BY <2>2 DEF Hello, Dial
  <2>4. total' = total
    <3>1. CASE a = b
      BY <2>1, <3>1
    <3>2. CASE a = "handshake"
      BY <2>1, <3>2
    <3>3. CASE a = "http_write"
      BY <2>1, <3>3
    <3>4. CASE a = "in_read"
      BY <2>1, <3>4
    <3>5. CASE a = "resolve"
      BY <2>1, <3>5
    <3>6. CASE a = "connect"
      BY <2>1, <3>6
    <3> QED
      BY <3>2, <3>3, <3>4, <3>5, <3>6
  <2> QED
    BY <2>3, <2>4 DEF Hello, Dial
<1> QED
  BY <1>1, <1>2, <1>3, <1>4 DEF ShapeInv, OneInFlight, Calm

LEMMA ForwardShape ==
  ASSUME Types, ShapeInv, OneInFlight, status = "FORWARD", status' = "FORWARD",
         NEW a, NEW b, Turn(a, {b}),
         {a, b} \subseteq {"in_read", "out_write"} \/ {a, b} \subseteq {"out_read", "in_write"}
  PROVE  ShapeInv' /\ OneInFlight'
<1>1. Calm /\ None({"handshake", "http_write", "resolve", "connect", "udp_resolve", "udp_read",
                    "udp_write"})
  BY DEF ShapeInv, Calm
<1>2. Calm'
  BY <1>1, TurnCalm
<1>3. None({"handshake", "http_write", "resolve", "connect", "udp_resolve", "udp_read",
            "udp_write"})'
  BY <1>1, TurnNone, KindsIn
<1>4. Live("in_read") + Live("out_write") = 1 /\ Live("out_read") + Live("in_write") = 1
  BY DEF OneInFlight
<1>5. (Live("in_read") + Live("out_write") = 1 /\ Live("out_read") + Live("in_write") = 1)'
  <2>1. CASE {a, b} \subseteq {"in_read", "out_write"}
    <3>1. (Live("in_read") + Live("out_write") = 1)'
      BY <1>4, <2>1, TurnPair, KindsIn
    <3>2. Live("out_read")' = Live("out_read") /\ Live("in_write")' = Live("in_write")
      BY <2>1, TurnOther, KindsIn
    <3> QED
      BY <1>4, <3>1, <3>2
  <2>2. CASE {a, b} \subseteq {"out_read", "in_write"}
    <3>1. (Live("out_read") + Live("in_write") = 1)'
      BY <1>4, <2>2, TurnPair, KindsIn
    <3>2. Live("in_read")' = Live("in_read") /\ Live("out_write")' = Live("out_write")
      BY <2>2, TurnOther, KindsIn
    <3> QED
      BY <1>4, <3>1, <3>2
  <2> QED
    BY <2>1, <2>2
<1> QED
  BY <1>2, <1>3, <1>5 DEF ShapeInv, OneInFlight, Calm

LEMMA TurnThree ==
  ASSUME Types, NEW x \in Kinds, NEW y \in Kinds, NEW z \in Kinds, x # y, y # z, x # z,
         Live(x) + Live(y) + Live(z) = 1,
         NEW a \in {x, y, z}, NEW b \in {x, y, z}, NEW B, Turn(a, B), B \cap {x, y, z} = {b}
  PROVE  (Live(x) + Live(y) + Live(z) = 1)'
<1>1. /\ Live(x) \in Nat /\ Live(x)' \in Nat
      /\ Live(x)' = Live(x) - (IF x = a THEN 1 ELSE 0) + (IF x \in B THEN 1 ELSE 0)
  BY TurnCounts
<1>2. /\ Live(y) \in Nat /\ Live(y)' \in Nat
      /\ Live(y)' = Live(y) - (IF y = a THEN 1 ELSE 0) + (IF y \in B THEN 1 ELSE 0)
  BY TurnCounts
<1>3. /\ Live(z) \in Nat /\ Live(z)' \in Nat
      /\ Live(z)' = Live(z) - (IF z = a THEN 1 ELSE 0) + (IF z \in B THEN 1 ELSE 0)
  BY TurnCounts
<1>4. (x \in B <=> x = b) /\ (y \in B <=> y = b) /\ (z \in B <=> z = b)
  OBVIOUS
<1> QED
  BY <1>1, <1>2, <1>3, <1>4

UdpNone == {"handshake", "http_write", "resolve", "connect", "out_read", "out_write"}

LEMMA UdpShape ==
  ASSUME Types, ShapeInv, OneInFlight, status = "UDP_FORWARD", status' = "UDP_FORWARD",
         NEW a, NEW B, Turn(a, B),
         \/ /\ udp_open' = udp_open
            /\ \E b \in {"in_read", "udp_resolve", "udp_write"} : B = {b}
            /\ a \in {"in_read", "udp_resolve", "udp_write"}
         \/ /\ udp_open' = udp_open
            /\ \E b \in {"udp_read", "in_write"} : B = {b}
            /\ a \in {"udp_read", "in_write"}
         \/ ~ udp_open /\ udp_open' /\ a = "udp_resolve" /\ B = {"udp_read", "udp_write"}
  PROVE  ShapeInv' /\ OneInFlight'
<1>1. Calm /\ None(UdpNone)
  BY DEF ShapeInv, Calm, UdpNone
<1>k. UdpNone \in SUBSET Kinds
  BY KindsIn DEF UdpNone
<1>2. Calm'
  <2>1. {"shutdown", "timer"} \cap B = {}
    OBVIOUS
  <2> QED
    BY <1>1, <2>1, TurnCalm
<1>3. None(UdpNone)'
  <2>1. UdpNone \cap B = {}
    BY DEF UdpNone
  <2> QED
    BY <1>1, <1>k, <2>1, TurnNone
<1>4. /\ Live("in_read") + Live("udp_resolve") + Live("udp_write") = 1
      /\ Live("udp_read") + Live("in_write") = IF udp_open THEN 1 ELSE 0
  BY DEF OneInFlight
<1>n. \A j \in {"in_read", "udp_resolve", "udp_write", "udp_read", "in_write"} :
        j \in Kinds /\ Live(j) \in Nat
  BY KindsIn, TurnCounts
<1>5. /\ (Live("in_read") + Live("udp_resolve") + Live("udp_write") = 1)'
      /\ (Live("udp_read") + Live("in_write"))' = IF udp_open' THEN 1 ELSE 0
  <2>1. ASSUME udp_open' = udp_open, NEW b \in {"in_read", "udp_resolve", "udp_write"},
               B = {b}, a \in {"in_read", "udp_resolve", "udp_write"}
        PROVE  <1>5!:
    <3>0. B \cap {"in_read", "udp_resolve", "udp_write"} = {b}
      BY <2>1
    <3>1. (Live("in_read") + Live("udp_resolve") + Live("udp_write") = 1)'
      BY <1>4, <1>n, <2>1, <3>0, TurnThree
    <3>2. Live("udp_read")' = Live("udp_read") /\ Live("in_write")' = Live("in_write")
      BY <1>n, <2>1, TurnOther
    <3> QED
      BY <1>4, <2>1, <3>1, <3>2
  <2>2. ASSUME udp_open' = udp_open, NEW b \in {"udp_read", "in_write"},
               B = {b}, a \in {"udp_read", "in_write"}
        PROVE  <1>5!:
    <3>1. Live("udp_read") + Live("in_write") = 1
      <4>1. Live(a) > 0 /\ Live(a) \in Nat
        BY <1>n, <2>2 DEF Turn
      <4>2. Live("udp_read") + Live("in_write") > 0
        BY <1>n, <2>2, <4>1
      <4> QED
        BY <1>4, <4>2
    <3>2. (Live("udp_read") + Live("in_write") = 1)'
      BY <1>n, <2>2, <3>1, TurnPair
    <3>3. Live("in_read")' = Live("in_read") /\ Live("udp_resolve")' = Live("udp_resolve")
      BY <1>n, <2>2, TurnOther
    <3>4. Live("udp_write")' = Live("udp_write")
      BY <1>n, <2>2, TurnOther
    <3>5. udp_open'
      BY <1>4, <2>2, <3>1
    <3> QED
      BY <1>4, <3>2, <3>3, <3>4, <3>5
  <2>3. ASSUME ~ udp_open, udp_open', a = "udp_resolve", B = {"udp_read", "udp_write"}
        PROVE  <1>5!:
    <3>0. B \cap {"in_read", "udp_resolve", "udp_write"} = {"udp_write"}
      BY <2>3
    <3>1. (Live("in_read") + Live("udp_resolve") + Live("udp_write") = 1)'
      BY <1>4, <1>n, <2>3, <3>0, TurnThree
    <3>2. Live("udp_read") = 0 /\ Live("in_write") = 0
      BY <1>4, <1>n, <2>3
    <3>3. Live("udp_read")' = Live("udp_read") - 0 + 1 /\ Live("in_write")' = Live("in_write") - 0 + 0
      BY <1>n, <2>3, TurnCounts
    <3> QED
      BY <2>3, <3>1, <3>2, <3>3
  <2> QED
    BY <2>1, <2>2, <2>3
<1> QED
  BY <1>2, <1>3, <1>5 DEF ShapeInv, OneInFlight, Calm, UdpNone

(* The request of a UDP ASSOCIATE is read.                                 *)
LEMMA AssociateShape ==
  ASSUME Types, ShapeInv, status = "HANDSHAKE", status' = "UDP_FORWARD",
         udp_open' = udp_open, NEW b \in {"in_read", "udp_resolve"}, Turn("in_read", {b})
  PROVE  ShapeInv' /\ OneInFlight'
<1>1. Calm /\ ~ udp_open /\ Hello + Dial = 1
      /\ None({"out_read", "out_write", "in_write", "udp_resolve", "udp_read", "udp_write"})
  BY DEF ShapeInv, Calm
<1>2. Calm'
  BY <1>1, TurnCalm
<1>3. \A j \in Kinds :
        /\ Live(j) \in Nat /\ Live(j)' \in Nat
        /\ Live(j)' = Live(j) - (IF j = "in_read" THEN 1 ELSE 0) + (IF j \in {b} THEN 1 ELSE 0)
  BY TurnCounts
<1>4. \A j \in {"handshake", "http_write", "in_read", "resolve", "connect"} :
        j \in Kinds /\ Live(j) \in Nat
  BY <1>3, KindsIn
<1>5. Live("in_read") > 0
  BY DEF Turn
<1>6. /\ Live("in_read") = 1 /\ Live("handshake") = 0 /\ Live("http_write") = 0
      /\ Live("resolve") = 0 /\ Live("connect") = 0
  BY <1>1, <1>4, <1>5 DEF Hello, Dial
<1>7. /\ Live("out_read") = 0 /\ Live("out_write") = 0 /\ Live("in_write") = 0
      /\ Live("udp_resolve") = 0 /\ Live("udp_read") = 0 /\ Live("udp_write") = 0
  BY <1>1 DEF None
<1>8. None(UdpNone)'
  <2>1. None(UdpNone) /\ UdpNone \cap {b} = {} /\ UdpNone \in SUBSET Kinds
    BY <1>6, <1>7, KindsIn DEF None, UdpNone
  <2> QED
    BY <2>1, TurnNone
<1>9. (Live("in_read") + Live("udp_resolve") + Live("udp_write") = 1)'
  <2>1. /\ Live("in_read")' = 1 - 1 + (IF "in_read" = b THEN 1 ELSE 0)
        /\ Live("udp_resolve")' = 0 - 0 + (IF "udp_resolve" = b THEN 1 ELSE 0)
        /\ Live("udp_write")' = 0 - 0 + 0
    BY <1>3, <1>6, <1>7, KindsIn
  <2> QED
    BY <2>1
<1>10. Live("udp_read")' = 0 /\ Live("in_write")' = 0
  BY <1>3, <1>7, KindsIn
<1> QED
  BY <1>1, <1>2, <1>8, <1>9, <1>10 DEF ShapeInv, OneInFlight, Calm, UdpNone

(* The destination of a stream is connected.                               *)
LEMMA ConnectedShape ==
  ASSUME Types, ShapeInv, status = "HANDSHAKE", status' = "FORWARD",
         NEW b \in {"in_read", "out_write"}, Turn("connect", {"out_read", b})
  PROVE  ShapeInv' /\ OneInFlight'
<1>1. Calm /\ Hello + Dial = 1
      /\ None({"out_read", "out_write", "in_write", "udp_resolve", "udp_read", "udp_write"})
  BY DEF ShapeInv, Calm
<1>2. Calm'
  <2>1. {"shutdown", "timer"} \cap {"out_read", b} = {}
    OBVIOUS
  <2> QED
    BY <1>1, <2>1, TurnCalm
<1>3. \A j \in Kinds :
        /\ Live(j) \in Nat /\ Live(j)' \in Nat
        /\ Live(j)' = Live(j) - (IF j = "connect" THEN 1 ELSE 0)
                              + (IF j \in {"out_read", b} THEN 1 ELSE 0)
  BY TurnCounts
<1>4. \A j \in {"handshake", "http_write", "in_read", "resolve", "connect"} :
        j \in Kinds /\ Live(j) \in Nat
  BY <1>3, KindsIn
<1>5. Live("connect") > 0
  BY DEF Turn
<1>6. /\ Live("connect") = 1 /\ Live("handshake") = 0 /\ Live("http_write") = 0
      /\ Live("resolve") = 0 /\ Live("in_read") = 0
  BY <1>1, <1>4, <1>5 DEF Hello, Dial
<1>7. /\ Live("out_read") = 0 /\ Live("out_write") = 0 /\ Live("in_write") = 0
      /\ Live("udp_resolve") = 0 /\ Live("udp_read") = 0 /\ Live("udp_write") = 0
  BY <1>1 DEF None
<1>8. \A j \in {"handshake", "http_write", "resolve", "udp_resolve", "udp_read", "udp_write"} :
        Live(j)' = 0
  BY <1>3, <1>6, <1>7, KindsIn
<1>9. Live("connect")' = 0
  BY <1>3, <1>6, KindsIn
<1>10. (Live("in_read") + Live("out_write") = 1)'
  BY <1>3, <1>6, <1>7, KindsIn
<1>11. Live("out_read")' = 1 /\ Live("in_write")' = 0
  BY <1>3, <1>7, KindsIn
<1>12. None({"handshake", "http_write", "resolve", "connect", "udp_resolve", "udp_read",
             "udp_write"})'
  BY <1>8, <1>9 DEF None
<1> QED
  BY <1>2, <1>10, <1>11, <1>12 DEF ShapeInv, OneInFlight, Calm

(* A destroyed session starts no lookup, connection or handshake.          *)
LEMMA DestroyedShape ==
  ASSUME status' = "DESTROY", \A k \in DialOps : Live(k)' = 0
  PROVE  ShapeInv' /\ OneInFlight'
BY DEF ShapeInv, OneInFlight, None

LEMMA DestroyedTurn ==
  ASSUME Types, ShapeInv, status = "DESTROY", status' = "DESTROY",
         NEW a, NEW B, Turn(a, B), B \cap DialOps = {}
  PROVE  ShapeInv' /\ OneInFlight'
<1>1. None(DialOps) /\ DialOps \in SUBSET Kinds
  BY KindsIn DEF ShapeInv, DialOps
<1>2. None(DialOps)'
  BY <1>1, TurnNone
<1> QED
  BY <1>2, DestroyedShape DEF None

-----------------------------------------------------------------------------
(* When the handlers run.                                                  *)
LEMMA AtWork ==
  ASSUME Types, ShapeInv
  PROVE  /\ \A k \in DialOps : Live(k) > 0 => status = "HANDSHAKE"
         /\ Live("http_write") > 0 => status \in {"HANDSHAKE", "DESTROY"}
         /\ Live("udp_resolve") > 0 => status \in {"UDP_FORWARD", "DESTROY"}
         /\ Live("shutdown") > 0 \/ Live("timer") > 0 => status = "DESTROY"
         /\ \A k \in Kinds : ops["aborted"][k] > 0 => status = "DESTROY"
<1>1. status \in {"HANDSHAKE", "FORWARD", "UDP_FORWARD", "DESTROY"}
  BY DEF Types, Status
<1>2. status \in {"FORWARD", "UDP_FORWARD", "DESTROY"} => \A k \in DialOps : Live(k) = 0
  BY DEF ShapeInv, None, DialOps
<1>3. status \in {"FORWARD", "UDP_FORWARD"} => Live("http_write") = 0
  BY DEF ShapeInv, None
<1>4. status \in {"HANDSHAKE", "FORWARD"} => Live("udp_resolve") = 0
  BY DEF ShapeInv, None
<1>5. status # "DESTROY" => Live("shutdown") = 0 /\ Live("timer") = 0
                            /\ \A k \in Kinds : ops["aborted"][k] = 0
  BY DEF ShapeInv, None
<1> QED
  BY <1>1, <1>2, <1>3, <1>4, <1>5

LEMMA TakenDestroys ==
  ASSUME Types, ShapeInv, NEW a \in Kinds, a \notin {"shutdown", "timer"}, NEW o,
         Differs(ops, o, a, {}), Live(a) > 0, Destroy(o)
  PROVE  ShapeInv' /\ OneInFlight'
<1>1. \A k \in DialOps : Outstanding(o, k) = 0
  BY TakenNone
<1>2. IsOps(o, Kinds)
  BY DEF Differs
<1> QED
  BY <1>1, <1>2, DestroyShape

LEMMA CompletedDestroys ==
  ASSUME Types, ShapeInv, NEW a \in Kinds, a \notin {"shutdown", "timer"},
         NEW o \in Completed(ops, a), Destroy(o)
  PROVE  ShapeInv' /\ OneInFlight'
<1>1. Differs(ops, o, a, {}) /\ Live(a) > 0
  BY CompletedDiffers DEF Types, Live
<1> QED
  BY <1>1, TakenDestroys

LEMMA RemovedDestroys ==
  ASSUME Types, ShapeInv, NEW a \in Kinds, a \notin {"shutdown", "timer"},
         NEW p \in Phase, ops[p][a] > 0, Destroy(Remove(ops, a, p))
  PROVE  ShapeInv' /\ OneInFlight'
<1>o. IsOps(ops, Kinds)
  BY DEF Types
<1>1. CASE p # "aborted"
  <2>1. Differs(ops, Remove(ops, a, p), a, {}) /\ Live(a) > 0
    BY <1>o, <1>1, RemoveDiffers DEF Live
  <2> QED
    BY <2>1, TakenDestroys
<1>2. CASE p = "aborted"
  <2>1. status = "DESTROY"
    BY <1>2, AtWork
  <2>2. ops' = Remove(ops, a, p) /\ status' = "DESTROY"
    BY <2>1 DEF Destroy, closing
  <2>3. \A k \in DialOps : Live(k) = 0 /\ k \in Kinds
    BY <2>1, KindsIn DEF ShapeInv, None, DialOps
  <2>4. \A k \in Kinds : Outstanding(ops', k) = Outstanding(ops, k)
    BY <1>o, <1>2, <2>2, KindsFacts DEF Remove, IsOps, Outstanding
  <2>5. \A k \in DialOps : Live(k)' = 0
    BY <2>3, <2>4 DEF Live
  <2> QED
    BY <2>2, <2>5, DestroyedShape
<1> QED
  BY <1>1, <1>2

(* udp_sent(), from a session that forwards packets.                       *)
LEMMA UdpSentShape ==
  ASSUME Types, ShapeInv, OneInFlight, status = "UDP_FORWARD",
         NEW a \in {"in_read", "udp_write"}, NEW o \in Completed(ops, a),
         NEW buf, UdpSentWith(o, buf)
  PROVE  ShapeInv' /\ OneInFlight'
<1>k. a \in Kinds /\ "udp_resolve" \in Kinds /\ "in_read" \in Kinds
      /\ "waiting" \in Phase \ {"aborted"} /\ a \notin {"shutdown", "timer"}
  BY KindsIn
<1>o. IsOps(ops, Kinds)
  BY DEF Types
<1>1. CASE ops' = Add(o, "udp_resolve", "waiting") /\ status' = "UDP_FORWARD" /\ UNCHANGED sockets
  <2>1. Turn(a, {"udp_resolve"})
    BY <1>k, <1>o, <1>1, TurnAdd
  <2>2. udp_open' = udp_open
    BY <1>1 DEF sockets
  <2> QED
    BY <1>1, <2>1, <2>2, UdpShape
<1>2. CASE Destroy(o)
  BY <1>k, <1>2, CompletedDestroys
<1>3. CASE ops' \in ReadOn(o) /\ status' = "UDP_FORWARD" /\ UNCHANGED sockets
  <2>1. Turn(a, {"in_read"})
    BY <1>k, <1>o, <1>3, TurnBegin DEF ReadOn, InAsyncRead
  <2>2. udp_open' = udp_open
    BY <1>3 DEF sockets
  <2> QED
    BY <1>3, <2>1, <2>2, UdpShape
<1> QED
  BY <1>1, <1>2, <1>3 DEF UdpSentWith

(* Every step keeps the shape and the directions apart.                    *)
LEMMA ShapeStep ==
  ASSUME Types, ShapeInv, OneInFlight, [Next]_vars
  PROVE  ShapeInv' /\ OneInFlight'
<1>o. IsOps(ops, Kinds)
  BY DEF Types
<1>k. /\ {"handshake", "in_read", "in_write", "http_write", "shutdown", "connect",
          "out_read", "out_write", "udp_read", "udp_write", "resolve", "udp_resolve",
          "timer"} \subseteq Kinds
      /\ "waiting" \in Phase \ {"aborted"} /\ "ready" \in Phase \ {"aborted"}
      /\ "waiting" \in Phase /\ "ready" \in Phase
  BY KindsIn
<1>t. \A a \in Kinds, b \in Kinds : \A o \in Completed(ops, a) : \A open, atOnce :
        ops' \in Begin(o, b, open, atOnce) => Turn(a, {b})
  BY <1>o, TurnBegin
<1>1. CASE Handshaken
  <2>1. Turn("handshake", {"in_read"}) /\ status' = status /\ udp_open' = udp_open
    BY <1>k, <1>t, <1>1 DEF Handshaken, InAsyncRead, closing, sockets
  <2>2. status = "HANDSHAKE"
    BY <2>1, AtWork DEF Turn, DialOps
  <2> QED
    BY <2>1, <2>2, HelloShape
<1>2. CASE HttpRequest
  <2> DEFINE o == Remove(ops, "handshake", "waiting")
  <2>1. ops["waiting"]["handshake"] > 0 /\ ops' \in Begin(o, "http_write", in_open, TRUE)
        /\ status' = status /\ udp_open' = udp_open
    BY <1>2 DEF HttpRequest, closing, sockets
  <2>2. Differs(ops, o, "handshake", {}) /\ Live("handshake") > 0
    BY <1>k, <1>o, <2>1, RemoveDiffers DEF Live
  <2> HIDE DEF o
  <2>3. Differs(ops, ops', "handshake", {} \cup {"http_write"})
    BY <1>k, <1>o, <2>1, <2>2, BeginDiffers
  <2>4. Turn("handshake", {"http_write"})
    BY <2>2, <2>3 DEF Turn
  <2>5. status = "HANDSHAKE"
    BY <2>2, AtWork DEF DialOps
  <2> QED
    BY <2>1, <2>4, <2>5, HelloShape
<1>3. CASE HttpSent
  BY <1>k, <1>3, CompletedDestroys DEF HttpSent
<1>4. CASE InRecvStream
  <2>1. PICK o \in Completed(ops, "in_read") : ops' = Add(o, "resolve", "waiting")
    BY <1>4 DEF InRecvStream
  <2>2. Turn("in_read", {"resolve"})
    BY <1>k, <1>o, <2>1, TurnAdd
  <2>3. status = "HANDSHAKE" /\ status' = "HANDSHAKE" /\ udp_open' = udp_open
    BY <1>4 DEF InRecvStream, closing, sockets
  <2> QED
    BY <2>2, <2>3, HelloShape
<1>5. CASE InRecvAssociate
  <2>1. PICK o \in Completed(ops, "in_read") :
          \/ out_write_buf' # << >> /\ UdpSentWith(o, out_write_buf')
          \/ status' = "UDP_FORWARD" /\ ops' \in ReadOn(o) /\ UNCHANGED sockets
    BY <1>5 DEF InRecvAssociate
  <2>2. status = "HANDSHAKE" /\ status' = "UDP_FORWARD" /\ udp_open' = udp_open
        /\ (ops' = Add(o, "udp_resolve", "waiting") \/ ops' \in ReadOn(o))
    BY <1>5, <2>1 DEF InRecvAssociate, UdpSentWith, sockets
  <2>3. Turn("in_read", {"udp_resolve"}) \/ Turn("in_read", {"in_read"})
    BY <1>k, <1>o, <1>t, <2>2, TurnAdd DEF ReadOn, InAsyncRead
  <2> QED
    BY <2>2, <2>3, AssociateShape
<1>6. CASE InRecvForward
  <2>1. Turn("in_read", {"out_write"}) /\ status = "FORWARD" /\ status' = "FORWARD"
    BY <1>k, <1>t, <1>6 DEF InRecvForward, OutAsyncWrite, closing
  <2> QED
    BY <2>1, ForwardShape
<1>7. CASE InRecvUdpForward
  <2>1. status = "UDP_FORWARD" /\ \E o \in Completed(ops, "in_read") : \E buf : UdpSentWith(o, buf)
    BY <1>7 DEF InRecvUdpForward
  <2> QED
    BY <2>1, UdpSentShape
<1>8. CASE Dropped
  <2>1. PICK k \in {"in_read", "in_write", "out_read", "out_write", "udp_read", "udp_write"} :
          ops' \in Completed(ops, k)
    BY <1>8 DEF Dropped, UdpOps
  <2>2. Differs(ops, ops', k, {}) /\ Live(k) > 0
    BY <1>k, <1>o, <2>1, CompletedDiffers DEF Live
  <2>3. status = "DESTROY" /\ status' = "DESTROY"
    BY <1>8 DEF Dropped, closing
  <2> QED
    BY <2>2, <2>3, DestroyedTurn DEF Turn
<1>9. CASE Resolved
  <2> DEFINE o == Remove(ops, "resolve", "ready")
  <2>1. Differs(ops, o, "resolve", {}) /\ Live("resolve") > 0
    BY <1>k, <1>o, <1>9, RemoveDiffers DEF Live, Resolved
  <2>2. \/ Destroy(o)
        \/ ops' \in Begin(o, "connect", TRUE, TRUE) /\ status' = status /\ udp_open' = udp_open
    BY <1>9 DEF Resolved
  <2> HIDE DEF o
  <2>3. CASE Destroy(o)
    BY <1>k, <2>1, <2>3, TakenDestroys
  <2>4. CASE ops' \in Begin(o, "connect", TRUE, TRUE) /\ status' = status /\ udp_open' = udp_open
    <3>1. Differs(ops, ops', "resolve", {} \cup {"connect"})
      BY <1>k, <1>o, <2>1, <2>4, BeginDiffers
    <3>2. Turn("resolve", {"connect"})
      BY <2>1, <3>1 DEF Turn
    <3>3. status = "HANDSHAKE"
      BY <2>1, AtWork DEF DialOps
    <3> QED
      BY <2>4, <3>2, <3>3, HelloShape
  <2> QED
    BY <2>2, <2>3, <2>4
<1>10. CASE Connected
  <2>1. PICK o \in Completed(ops, "connect") :
          \E r \in OutAsyncRead(o) : ops' \in WriteOrRead(r)
    BY <1>10 DEF Connected
  <2>2. PICK r \in OutAsyncRead(o) : ops' \in WriteOrRead(r)
    BY <2>1
  <2>3. Differs(ops, o, "connect", {}) /\ Live("connect") > 0
    BY <1>k, <1>o, CompletedDiffers DEF Live
  <2>4. Differs(ops, r, "connect", {} \cup {"out_read"})
    BY <1>k, <1>o, <2>2, <2>3, BeginDiffers DEF OutAsyncRead
  <2>5. \E b \in {"in_read", "out_write"} : \E open, atOnce : ops' \in Begin(r, b, open, atOnce)
    BY <2>2 DEF WriteOrRead, OutAsyncWrite, InAsyncRead
  <2>6. PICK b \in {"in_read", "out_write"} : Differs(ops, ops', "connect", ({} \cup {"out_read"}) \cup {b})
    BY <1>k, <1>o, <2>4, <2>5, BeginDiffers
  <2>7. ({} \cup {"out_read"}) \cup {b} = {"out_read", b}
    OBVIOUS
  <2>8. Turn("connect", {"out_read", b})
    BY <2>3, <2>6, <2>7 DEF Turn
  <2>9. status = "HANDSHAKE" /\ status' = "FORWARD"
    BY <1>10, <2>3, AtWork DEF Connected, DialOps
  <2> QED
    BY <2>8, <2>9, ConnectedShape
<1>11. CASE OutSent
  <2>1. Turn("out_write", {"in_read"}) /\ status = "FORWARD" /\ status' = "FORWARD"
    BY <1>k, <1>t, <1>11 DEF OutSent, InAsyncRead, closing
  <2> QED
    BY <2>1, ForwardShape
<1>12. CASE OutRecv
  <2>1. Turn("out_read", {"in_write"}) /\ status = "FORWARD" /\ status' = "FORWARD"
    BY <1>k, <1>t, <1>12 DEF OutRecv, InAsyncWrite, closing
  <2> QED
    BY <2>1, ForwardShape
<1>13. CASE InSent
  <2>1. CASE status = "FORWARD"
    <3>1. Turn("in_write", {"out_read"}) /\ status' = "FORWARD"
      BY <1>k, <1>t, <1>13, <2>1 DEF InSent, OutAsyncRead, closing
    <3> QED
      BY <2>1, <3>1, ForwardShape
  <2>2. CASE status = "UDP_FORWARD"
    <3>1. Turn("in_write", {"udp_read"}) /\ status' = "UDP_FORWARD" /\ udp_open' = udp_open
      BY <1>k, <1>t, <1>13, <2>2 DEF InSent, UdpAsyncRead, closing, sockets
    <3> QED
      BY <2>2, <3>1, UdpShape
  <2> QED
    BY <1>13, <2>1, <2>2 DEF InSent
<1>14. CASE ResolvedUdp
  <2> DEFINE o == Remove(ops, "udp_resolve", "ready")
  <2>1. Differs(ops, o, "udp_resolve", {}) /\ Live("udp_resolve") > 0 /\ IsOps(o, Kinds)
    BY <1>k, <1>o, <1>14, RemoveDiffers DEF Live, ResolvedUdp, Differs
  <2>2. \/ Destroy(o)
        \/ /\ udp_open' = TRUE /\ status' = status
           /\ \E r \in IF udp_open THEN {o} ELSE UdpAsyncRead(o) : ops' \in UdpAsyncWrite(r)
    BY <1>14 DEF ResolvedUdp
  <2> HIDE DEF o
  <2>3. CASE Destroy(o)
    BY <1>k, <2>1, <2>3, TakenDestroys
  <2>4. ASSUME udp_open' = TRUE, status' = status,
               NEW r \in IF udp_open THEN {o} ELSE UdpAsyncRead(o), ops' \in UdpAsyncWrite(r)
        PROVE  ShapeInv' /\ OneInFlight'
    <3>1. CASE udp_open
      <4>1. ops' \in UdpAsyncWrite(o)
        BY <2>4, <3>1
      <4>2. Differs(ops, ops', "udp_resolve", {} \cup {"udp_write"})
        BY <1>k, <1>o, <2>1, <4>1, BeginDiffers DEF UdpAsyncWrite
      <4>3. Turn("udp_resolve", {"udp_write"})
        BY <2>1, <4>2 DEF Turn
      <4>4. CASE status = "UDP_FORWARD"
        BY <2>4, <3>1, <4>3, <4>4, UdpShape
      <4>5. CASE status = "DESTROY"
        BY <2>4, <4>3, <4>5, DestroyedTurn DEF DialOps
      <4> QED
        BY <2>1, <4>4, <4>5, AtWork
    <3>2. CASE ~ udp_open
      <4>1. Differs(ops, r, "udp_resolve", {} \cup {"udp_read"})
        BY <1>k, <1>o, <2>1, <2>4, <3>2, BeginDiffers DEF UdpAsyncRead
      <4>2. "udp_write" \notin {} \cup {"udp_read"}
        OBVIOUS
      <4>3. Differs(ops, ops', "udp_resolve", ({} \cup {"udp_read"}) \cup {"udp_write"})
        BY <1>k, <1>o, <2>4, <4>1, <4>2, BeginDiffers DEF UdpAsyncWrite
      <4>4. ({} \cup {"udp_read"}) \cup {"udp_write"} = {"udp_read", "udp_write"}
        OBVIOUS
      <4>5. Turn("udp_resolve", {"udp_read", "udp_write"})
        BY <2>1, <4>3, <4>4 DEF Turn
      <4>6. CASE status = "UDP_FORWARD"
        BY <2>4, <3>2, <4>5, <4>6, UdpShape
      <4>7. CASE status = "DESTROY"
        BY <2>4, <4>5, <4>7, DestroyedTurn DEF DialOps
      <4> QED
        BY <2>1, <4>6, <4>7, AtWork
    <3> QED
      BY <3>1, <3>2
  <2> QED
    BY <2>2, <2>3, <2>4
<1>15. CASE UdpSent
  <2>1. status = "UDP_FORWARD" /\ \E o \in Completed(ops, "udp_write") : UdpSentWith(o, udp_data_buf)
    BY <1>15 DEF UdpSent
  <2> QED
    BY <2>1, UdpSentShape
<1>16. CASE UdpRecv
  <2>1. Turn("udp_read", {"in_write"}) /\ status = "UDP_FORWARD" /\ status' = "UDP_FORWARD"
        /\ udp_open' = udp_open
    BY <1>k, <1>t, <1>16 DEF UdpRecv, InAsyncWrite, closing, sockets
  <2> QED
    BY <2>1, UdpShape
<1>17. CASE Fail
  <2>1. PICK k \in Kinds \ {"shutdown", "timer"}, p \in {"waiting", "failed", "aborted"} :
          ops[p][k] > 0 /\ Destroy(Remove(ops, k, p))
    BY <1>17 DEF Fail
  <2>2. k \in Kinds /\ k \notin {"shutdown", "timer"} /\ p \in Phase
    BY KindsFacts
  <2> QED
    BY <2>1, <2>2, RemovedDestroys
<1>18. CASE IgnoreAbort
  <2>1. PICK k \in {"shutdown", "timer"} :
          ops["aborted"][k] > 0 /\ ops' = Remove(ops, k, "aborted")
    BY <1>18 DEF IgnoreAbort
  <2>2. status = "DESTROY" /\ status' = "DESTROY"
    BY <1>k, <1>18, <2>1, AtWork DEF IgnoreAbort, closing
  <2>3. \A j \in DialOps : Live(j) = 0 /\ j \in Kinds
    BY <1>k, <2>2 DEF ShapeInv, None, DialOps
  <2>4. \A j \in Kinds : Outstanding(ops', j) = Outstanding(ops, j)
    BY <1>o, <2>1, KindsFacts DEF Remove, IsOps, Outstanding
  <2>5. \A j \in DialOps : Live(j)' = 0
    BY <2>3, <2>4 DEF Live
  <2> QED
    BY <2>2, <2>5, DestroyedShape
<1>19. CASE ShutdownDone
  <2>0. PICK k \in {"shutdown", "timer"} :
          \E o \in Completed(ops, k) : ops' = Cancel(o, InOps \cup {"timer"})
    BY <1>19 DEF ShutdownDone
  <2>1. PICK o \in Completed(ops, k) : ops' = Cancel(o, InOps \cup {"timer"})
    BY <2>0
  <2>2. Differs(ops, o, k, {}) /\ Live(k) > 0 /\ IsOps(o, Kinds)
    BY <1>k, <1>o, CompletedDiffers DEF Live
  <2>3. status = "DESTROY" /\ status' = "DESTROY"
    BY <1>19, <2>2, AtWork DEF ShutdownDone
  <2>4. \A j \in DialOps : Live(j) = 0 /\ j \in Kinds /\ j # k
    BY <1>k, <2>3 DEF ShapeInv, None, DialOps
  <2>5. \A j \in DialOps : Outstanding(o, j) = 0
    BY <2>2, <2>4 DEF Differs, Live
  <2>6. Fewer(o, ops') /\ IsOps(ops', Kinds)
    BY <2>1, <2>2, CancelFewer
  <2>7. ASSUME NEW j \in DialOps PROVE Live(j)' = 0
    <3>1. j \in Kinds \ {"shutdown", "timer"}
      BY <1>k DEF DialOps
    <3>2. Outstanding(ops', j) \in Nat
      BY <2>6, <3>1, TableNat
    <3>3. Outstanding(ops', j) <= Outstanding(o, j)
      BY <2>6, <3>1 DEF Fewer
    <3> QED
      BY <2>5, <3>2, <3>3 DEF Live
  <2> QED
    BY <2>3, <2>7, DestroyedShape
<1>20. CASE Perform
  <2>1. PICK k \in Kinds : ops["waiting"][k] > 0 /\ ops' = Add(Remove(ops, k, "waiting"), k, "ready")
    BY <1>20 DEF Perform
  <2>2. UNCHANGED <<status, udp_open>>
    BY <1>20 DEF Perform, closing, sockets
  <2>3. Differs(ops, Remove(ops, k, "waiting"), k, {})
    BY <1>k, <1>o, <2>1, RemoveDiffers
  <2>4. Differs(ops, ops', k, {} \cup {k})
    BY <1>k, <1>o, <2>1, <2>3, AddDiffers
  <2>5. \A j \in Kinds : Live(j)' = Live(j) /\ ops'["aborted"][j] = ops["aborted"][j]
    BY <1>o, <2>4, TableNat DEF Differs, Live
  <2> QED
    BY <1>k, <2>2, <2>5 DEF ShapeInv, OneInFlight, None, Hello, Dial, DialOps
<1>21. CASE UNCHANGED vars
  <2>1. UNCHANGED <<status, udp_open, ops>>
    BY <1>21 DEF vars, closing, sockets
  <2>2. \A j : Live(j)' = Live(j)
    BY <2>1 DEF Live
  <2> QED
    BY <2>1, <2>2 DEF ShapeInv, OneInFlight, None, Hello, Dial
<1> QED
  BY <1>1, <1>2, <1>3, <1>4, <1>5, <1>6, <1>7, <1>8, <1>9, <1>10, <1>11, <1>12, <1>13,
     <1>14, <1>15, <1>16, <1>17, <1>18, <1>19, <1>20, <1>21 DEF Next

-----------------------------------------------------------------------------
(* Type correctness.                                                       *)
ClosingOK ==
  /\ status \in Status /\ in_open \in BOOLEAN /\ out_open \in BOOLEAN /\ udp_open \in BOOLEAN
  /\ recorded \in Seq(Nat \X Nat)

DataOK ==
  /\ auth_password \in BOOLEAN /\ late \in BOOLEAN
  /\ up_taken \in Nat /\ down_taken \in Nat /\ sent_len \in Nat /\ recv_len \in Nat
  /\ packet \in Nat
  /\ out_write_buf \in Seq(Nat) /\ udp_data_buf \in Seq(Nat)
  /\ to_server \in Seq(Nat) /\ to_client \in Seq(Nat)

LEMMA TypeParts == Types <=> ClosingOK /\ DataOK /\ IsOps(ops, Kinds)
BY DEF Types, ClosingOK, DataOK

LEMMA AppendNat ==
  ASSUME NEW s \in Seq(Nat), NEW x \in Nat
  PROVE  Append(s, x) \in Seq(Nat)
BY AppendProperties

LEMMA ConcatNat ==
  ASSUME NEW s \in Seq(Nat), NEW t \in Seq(Nat)
  PROVE  s \o t \in Seq(Nat)
BY ConcatProperties

LEMMA PiecesNat ==
  ASSUME up_taken \in Nat, NEW n \in Nat
  PROVE  Pieces(n) \in Seq(Nat)
<1>1. CASE n - up_taken \in Nat
  <2> DEFINE m == n - up_taken
  <2>1. [i \in 1 .. m |-> up_taken + i] \in [1 .. m -> Nat]
    OBVIOUS
  <2> QED
    BY <1>1, <2>1 DEF Pieces
<1>2. CASE n - up_taken \notin Nat
  <2>1. 1 .. (n - up_taken) = {}
    BY <1>2
  <2>2. Pieces(n) = << >>
    BY <2>1 DEF Pieces
  <2> QED
    BY <2>2, EmptySeq
<1> QED
  BY <1>1, <1>2

LEMMA DestroyType ==
  ASSUME Types, NEW o, IsOps(o, Kinds), Destroy(o)
  PROVE  ClosingOK' /\ IsOps(ops', Kinds)
<1>1. IsOps(ops', Kinds)
  BY DestroyFewer DEF Fewer
<1>2. Usage \in Nat \X Nat
  BY DEF Usage, Types
<1>3. Append(recorded, Usage) \in Seq(Nat \X Nat)
  BY <1>2, AppendProperties DEF Types
<1>4. ClosingOK
  BY TypeParts
<1>5. recorded' \in Seq(Nat \X Nat) /\ status' \in Status
  BY <1>3, <1>4 DEF Destroy, ClosingOK, closing, Status
<1>6. in_open' \in BOOLEAN /\ out_open' \in BOOLEAN /\ udp_open' \in BOOLEAN
  BY <1>4 DEF Destroy, ClosingOK, closing, sockets
<1> QED
  BY <1>1, <1>5, <1>6 DEF ClosingOK

LEMMA UdpSentType ==
  ASSUME Types, NEW o, IsOps(o, Kinds), NEW buf \in Seq(Nat), UdpSentWith(o, buf)
  PROVE  ClosingOK' /\ IsOps(ops', Kinds) /\ packet' \in Nat /\ udp_data_buf' \in Seq(Nat)
<1>k. "udp_resolve" \in Kinds /\ "in_read" \in Kinds /\ "waiting" \in Phase
  BY KindsIn
<1>1. ClosingOK /\ packet \in Nat
  BY TypeParts DEF DataOK
<1>2. CASE buf # << >>
  <2>1. Head(buf) \in Nat /\ Tail(buf) \in Seq(Nat)
    BY <1>2, HeadTailProperties
  <2>2. /\ packet' = Head(buf) /\ udp_data_buf' = Tail(buf)
        /\ ops' = Add(o, "udp_resolve", "waiting")
        /\ UNCHANGED <<sockets, recorded>> /\ status' = "UDP_FORWARD"
    BY <1>2 DEF UdpSentWith, RestPackets
  <2>3. IsOps(ops', Kinds)
    BY <1>k, <2>2, AddType
  <2> QED
    BY <1>1, <2>1, <2>2, <2>3 DEF ClosingOK, sockets, Status
<1>3. CASE buf = << >>
  <2>1. udp_data_buf' = buf /\ packet' = packet
        /\ \/ Destroy(o)
           \/ ops' \in Begin(o, "in_read", in_open, up_taken' < MaxUp)
              /\ UNCHANGED <<sockets, recorded>> /\ status' = "UDP_FORWARD"
    BY <1>3 DEF UdpSentWith, ReadOn, InAsyncRead
  <2>2. CASE Destroy(o)
    BY <1>1, <2>1, <2>2, DestroyType
  <2>3. CASE ops' \in Begin(o, "in_read", in_open, up_taken' < MaxUp)
              /\ UNCHANGED <<sockets, recorded>> /\ status' = "UDP_FORWARD"
    <3>1. IsOps(ops', Kinds)
      BY <1>k, <2>3, BeginType
    <3> QED
      BY <1>1, <2>1, <2>3, <3>1 DEF ClosingOK, sockets, Status
  <2> QED
    BY <2>1, <2>2, <2>3
<1> QED
  BY <1>2, <1>3

LEMMA KeepClosing == ClosingOK /\ UNCHANGED closing => ClosingOK'
BY DEF ClosingOK, closing, sockets

LEMMA KeepData == DataOK /\ UNCHANGED <<uplink, downlink, account>> => DataOK'
BY DEF DataOK, uplink, downlink, account

LEMMA TypeStep ==
  ASSUME Types, [Next]_vars
  PROVE  Types'
<1>o. ClosingOK /\ DataOK /\ IsOps(ops, Kinds)
  BY TypeParts
<1>k. /\ {"handshake", "in_read", "in_write", "http_write", "shutdown", "connect",
          "out_read", "out_write", "udp_read", "udp_write", "resolve", "udp_resolve",
          "timer"} \subseteq Kinds
      /\ {"waiting", "ready", "failed", "aborted"} \subseteq Phase
  BY KindsIn
<1>c. \A k \in Kinds : \A o \in Completed(ops, k) : IsOps(o, Kinds)
  BY <1>o, CompletedType
<1>b. \A o, k, open, atOnce : IsOps(o, Kinds) /\ k \in Kinds =>
        \A r \in Begin(o, k, open, atOnce) : IsOps(r, Kinds)
  BY BeginType
<1>r. \A k \in Kinds, p \in Phase : ops[p][k] > 0 => IsOps(Remove(ops, k, p), Kinds)
  BY <1>o, RemoveType
<1>s. SUFFICES ClosingOK' /\ DataOK' /\ IsOps(ops', Kinds)
  BY TypeParts DEF Types, ClosingOK, DataOK
<1>1. CASE Handshaken
  <2>1. IsOps(ops', Kinds)
    BY <1>1, <1>k, <1>c, <1>b DEF Handshaken, InAsyncRead
  <2> QED
    BY <1>1, <1>o, <2>1, KeepClosing, KeepData DEF Handshaken
<1>2. CASE HttpRequest
  <2>1. IsOps(ops', Kinds)
    BY <1>2, <1>k, <1>r, <1>b DEF HttpRequest
  <2>2. DataOK'
    BY <1>2, <1>o DEF HttpRequest, DataOK, uplink, downlink
  <2> QED
    BY <1>2, <1>o, <2>1, <2>2, KeepClosing DEF HttpRequest
<1>3. CASE HttpSent
  BY <1>3, <1>k, <1>c, <1>o, DestroyType, KeepData DEF HttpSent
<1>4. CASE InRecvStream
  <2>1. IsOps(ops', Kinds)
    BY <1>4, <1>k, <1>c, AddType DEF InRecvStream
  <2>p. PICK r \in Requests \ {"UDP_ASSOCIATE"} :
          /\ up_taken' \in {n \in {0, 1} : n <= MaxUp /\ (r = "STRANGER" => n = 1)}
          /\ auth_password' \in IF r = "STRANGER" THEN {FALSE} ELSE BOOLEAN
    BY <1>4 DEF InRecvStream
  <2>q. up_taken' \in {0, 1}
    BY <2>p
  <2>a. auth_password' \in BOOLEAN
    <3>1. CASE r = "STRANGER"
      BY <2>p, <3>1
    <3>2. CASE r # "STRANGER"
      BY <2>p, <3>2
    <3> QED
      BY <3>1, <3>2
  <2>2. up_taken' \in Nat /\ auth_password' \in BOOLEAN
    BY <2>q, <2>a
  <2>3. out_write_buf' \in Seq(Nat)
    BY <1>4, <1>o, <2>2, PiecesNat DEF InRecvStream, DataOK
  <2>4. sent_len' \in Nat
    <3>1. Len(out_write_buf') \in Nat
      BY <2>3, LenProperties
    <3> QED
      BY <1>4, <1>o, <3>1 DEF InRecvStream, DataOK
  <2>5. DataOK'
    BY <1>4, <1>o, <2>2, <2>3, <2>4 DEF InRecvStream, DataOK, downlink
  <2> QED
    BY <1>4, <1>o, <2>1, <2>5, KeepClosing DEF InRecvStream
<1>5. CASE InRecvAssociate
  <2>1. up_taken' \in Nat /\ auth_password' \in BOOLEAN
    BY <1>5, BoundsAssumption DEF InRecvAssociate
  <2>2. out_write_buf' \in Seq(Nat)
    BY <1>5, <1>o, <2>1, PiecesNat DEF InRecvAssociate, DataOK
  <2>3. PICK o \in Completed(ops, "in_read") :
          \/ UdpSentWith(o, out_write_buf')
          \/ /\ status' = "UDP_FORWARD" /\ ops' \in Begin(o, "in_read", in_open, up_taken' < MaxUp)
             /\ UNCHANGED <<sockets, recorded, udp_data_buf, packet>>
    BY <1>5 DEF InRecvAssociate, ReadOn, InAsyncRead
  <2>4. IsOps(o, Kinds)
    BY <1>k, <1>c
  <2>5. ClosingOK' /\ IsOps(ops', Kinds) /\ packet' \in Nat /\ udp_data_buf' \in Seq(Nat)
    <3>1. CASE UdpSentWith(o, out_write_buf')
      BY <2>2, <2>4, <3>1, UdpSentType
    <3>2. CASE /\ status' = "UDP_FORWARD" /\ ops' \in Begin(o, "in_read", in_open, up_taken' < MaxUp)
               /\ UNCHANGED <<sockets, recorded, udp_data_buf, packet>>
      <4>1. IsOps(ops', Kinds)
        BY <1>k, <1>b, <2>4, <3>2
      <4> QED
        BY <1>o, <3>2, <4>1 DEF ClosingOK, DataOK, sockets, Status
    <3> QED
      BY <2>3, <3>1, <3>2
  <2>6. DataOK'
    BY <1>5, <1>o, <2>1, <2>2, <2>5 DEF InRecvAssociate, DataOK, downlink
  <2> QED
    BY <2>5, <2>6
<1>6. CASE InRecvForward
  <2>1. IsOps(ops', Kinds)
    BY <1>6, <1>k, <1>c, <1>b DEF InRecvForward, OutAsyncWrite
  <2>2. up_taken' \in Nat /\ sent_len' \in Nat
    BY <1>6, <1>o DEF InRecvForward, DataOK
  <2>3. to_server' \in Seq(Nat)
    BY <1>6, <1>o, <2>2, AppendNat DEF InRecvForward, DataOK
  <2>4. DataOK'
    BY <1>6, <1>o, <2>2, <2>3 DEF InRecvForward, DataOK, downlink
  <2> QED
    BY <1>6, <1>o, <2>1, <2>4, KeepClosing DEF InRecvForward
<1>7. CASE InRecvUdpForward
  <2>1. up_taken' \in Nat
    BY <1>7, <1>o, BoundsAssumption DEF InRecvUdpForward, DataOK
  <2>2. udp_data_buf \o Pieces(up_taken') \in Seq(Nat)
    <3>1. Pieces(up_taken') \in Seq(Nat)
      BY <1>o, <2>1, PiecesNat DEF DataOK
    <3> QED
      BY <1>o, <3>1, ConcatNat DEF DataOK
  <2>3. PICK o \in Completed(ops, "in_read") : UdpSentWith(o, udp_data_buf \o Pieces(up_taken'))
    BY <1>7 DEF InRecvUdpForward
  <2>4. IsOps(o, Kinds)
    BY <1>k, <1>c
  <2>5. ClosingOK' /\ IsOps(ops', Kinds) /\ packet' \in Nat /\ udp_data_buf' \in Seq(Nat)
    BY <2>2, <2>3, <2>4, UdpSentType
  <2>6. DataOK'
    BY <1>7, <1>o, <2>1, <2>5 DEF InRecvUdpForward, DataOK, downlink, account
  <2> QED
    BY <2>5, <2>6
<1>8. CASE Dropped
  <2>1. IsOps(ops', Kinds)
    BY <1>8, <1>k, <1>c DEF Dropped, UdpOps
  <2> QED
    BY <1>8, <1>o, <2>1, KeepClosing, KeepData DEF Dropped
<1>9. CASE Resolved
  <2> DEFINE o == Remove(ops, "resolve", "ready")
  <2>1. IsOps(o, Kinds)
    BY <1>9, <1>k, <1>r DEF Resolved
  <2>2. \/ Destroy(o)
        \/ /\ out_open' = TRUE /\ ops' \in Begin(o, "connect", TRUE, TRUE)
           /\ UNCHANGED <<status, in_open, udp_open, recorded>>
    BY <1>9 DEF Resolved
  <2>3. DataOK'
    BY <1>9, <1>o, KeepData DEF Resolved
  <2> HIDE DEF o
  <2>4. CASE Destroy(o)
    BY <2>1, <2>3, <2>4, DestroyType
  <2>5. CASE /\ out_open' = TRUE /\ ops' \in Begin(o, "connect", TRUE, TRUE)
             /\ UNCHANGED <<status, in_open, udp_open, recorded>>
    <3>1. IsOps(ops', Kinds)
      BY <1>k, <2>1, <2>5, BeginType
    <3>2. ClosingOK'
      BY <1>o, <2>5 DEF ClosingOK
    <3> QED
      BY <2>3, <3>1, <3>2
  <2> QED
    BY <2>2, <2>4, <2>5
<1>10. CASE Connected
  <2>1. PICK o \in Completed(ops, "connect") :
          \E r \in OutAsyncRead(o) : ops' \in WriteOrRead(r)
    BY <1>10 DEF Connected
  <2>2. PICK r \in OutAsyncRead(o) : ops' \in WriteOrRead(r)
    BY <2>1
  <2>3. IsOps(r, Kinds)
    BY <1>k, <1>c, <1>b, <2>2 DEF OutAsyncRead
  <2>4. IsOps(ops', Kinds)
    BY <1>k, <1>b, <2>2, <2>3 DEF WriteOrRead, OutAsyncWrite, InAsyncRead
  <2>5. to_server' \in Seq(Nat)
    <3>1. <<0>> \in Seq(Nat) /\ out_write_buf \in Seq(Nat)
      BY <1>o DEF DataOK
    <3>2. <<0>> \o out_write_buf \in Seq(Nat)
      BY <3>1, ConcatNat
    <3> QED
      BY <1>10, <3>2 DEF Connected, FirstFlight
  <2>6. DataOK' /\ ClosingOK'
    BY <1>10, <1>o, <2>5 DEF Connected, DataOK, ClosingOK, downlink, account, sockets, Status
  <2> QED
    BY <2>4, <2>6
<1>11. CASE OutSent
  <2>1. IsOps(ops', Kinds)
    BY <1>11, <1>k, <1>c, <1>b DEF OutSent, InAsyncRead
  <2> QED
    BY <1>11, <1>o, <2>1, KeepClosing, KeepData DEF OutSent
<1>12. CASE OutRecv
  <2>1. IsOps(ops', Kinds)
    BY <1>12, <1>k, <1>c, <1>b DEF OutRecv, InAsyncWrite
  <2>2. down_taken' \in Nat /\ recv_len' \in Nat
    BY <1>12, <1>o DEF OutRecv, DataOK
  <2>3. to_client' \in Seq(Nat)
    BY <1>12, <1>o, <2>2, AppendNat DEF OutRecv, DataOK
  <2>4. DataOK'
    BY <1>12, <1>o, <2>2, <2>3 DEF OutRecv, DataOK, uplink
  <2> QED
    BY <1>12, <1>o, <2>1, <2>4, KeepClosing DEF OutRecv
<1>13. CASE InSent
  <2>1. IsOps(ops', Kinds)
    BY <1>13, <1>k, <1>c, <1>b DEF InSent, OutAsyncRead, UdpAsyncRead
  <2> QED
    BY <1>13, <1>o, <2>1, KeepClosing, KeepData DEF InSent
<1>14. CASE ResolvedUdp
  <2> DEFINE o == Remove(ops, "udp_resolve", "ready")
  <2>1. IsOps(o, Kinds)
    BY <1>14, <1>k, <1>r DEF ResolvedUdp
  <2>2. UNCHANGED <<up_taken, out_write_buf, udp_data_buf, packet, downlink, auth_password,
                    recv_len>>
    BY <1>14 DEF ResolvedUdp
  <2>3. \/ Destroy(o) /\ UNCHANGED <<sent_len, late, to_server>>
        \/ /\ udp_open' = TRUE /\ UNCHANGED <<status, in_open, out_open, recorded>>
           /\ \E r \in IF udp_open THEN {o} ELSE UdpAsyncRead(o) : ops' \in UdpAsyncWrite(r)
           /\ SendPacket
    BY <1>14 DEF ResolvedUdp
  <2> HIDE DEF o
  <2>4. CASE Destroy(o) /\ UNCHANGED <<sent_len, late, to_server>>
    <3>1. DataOK'
      BY <1>o, <2>2, <2>4 DEF DataOK, downlink
    <3> QED
      BY <2>1, <2>4, <3>1, DestroyType
  <2>5. CASE /\ udp_open' = TRUE /\ UNCHANGED <<status, in_open, out_open, recorded>>
             /\ \E r \in IF udp_open THEN {o} ELSE UdpAsyncRead(o) : ops' \in UdpAsyncWrite(r)
             /\ SendPacket
    <3>1. PICK r \in IF udp_open THEN {o} ELSE UdpAsyncRead(o) : ops' \in UdpAsyncWrite(r)
      BY <2>5
    <3>2. IsOps(r, Kinds)
      BY <1>k, <1>b, <2>1, <3>1 DEF UdpAsyncRead
    <3>3. IsOps(ops', Kinds)
      BY <1>k, <1>b, <3>1, <3>2 DEF UdpAsyncWrite
    <3>4. sent_len' \in Nat /\ late' \in BOOLEAN
      <4>1. sent_len' \in Nat
        BY <1>o, <2>5 DEF SendPacket, DataOK
      <4>2. late' = TRUE \/ late' = late
        BY <2>5 DEF SendPacket
      <4> QED
        BY <1>o, <4>1, <4>2 DEF DataOK
    <3>5. to_server' \in Seq(Nat)
      <4>1. /\ <<packet>> \in Seq(Nat) /\ <<0>> \in Seq(Nat) /\ to_server \in Seq(Nat)
        BY <1>o DEF DataOK
      <4>2. <<0>> \o <<packet>> \in Seq(Nat) /\ to_server \o <<packet>> \in Seq(Nat)
        BY <4>1, ConcatNat
      <4> QED
        BY <2>5, <4>1, <4>2 DEF SendPacket
    <3>6. DataOK' /\ ClosingOK'
      BY <1>o, <2>2, <2>5, <3>4, <3>5 DEF DataOK, ClosingOK, downlink
    <3> QED
      BY <3>3, <3>6
  <2> QED
    BY <2>3, <2>4, <2>5
<1>15. CASE UdpSent
  <2>1. PICK o \in Completed(ops, "udp_write") : UdpSentWith(o, udp_data_buf)
    BY <1>15 DEF UdpSent
  <2>2. IsOps(o, Kinds) /\ udp_data_buf \in Seq(Nat)
    BY <1>k, <1>c, <1>o DEF DataOK
  <2>3. ClosingOK' /\ IsOps(ops', Kinds) /\ packet' \in Nat /\ udp_data_buf' \in Seq(Nat)
    BY <2>1, <2>2, UdpSentType
  <2>4. DataOK'
    BY <1>15, <1>o, <2>3 DEF UdpSent, DataOK, downlink, account
  <2> QED
    BY <2>3, <2>4
<1>16. CASE UdpRecv
  <2>1. IsOps(ops', Kinds)
    BY <1>16, <1>k, <1>c, <1>b DEF UdpRecv, InAsyncWrite
  <2>2. down_taken' \in Nat /\ recv_len' \in Nat
    BY <1>16, <1>o DEF UdpRecv, DataOK
  <2>3. to_client' \in Seq(Nat)
    BY <1>16, <1>o, <2>2, AppendNat DEF UdpRecv, DataOK
  <2>4. DataOK'
    BY <1>16, <1>o, <2>2, <2>3 DEF UdpRecv, DataOK, uplink
  <2> QED
    BY <1>16, <1>o, <2>1, <2>4, KeepClosing DEF UdpRecv
<1>17. CASE Fail
  <2>1. PICK k \in Kinds \ {"shutdown", "timer"}, p \in {"waiting", "failed", "aborted"} :
          ops[p][k] > 0 /\ Destroy(Remove(ops, k, p))
    BY <1>17 DEF Fail
  <2>2. IsOps(Remove(ops, k, p), Kinds)
    BY <1>k, <1>r, <2>1
  <2> QED
    BY <1>17, <1>o, <2>1, <2>2, DestroyType, KeepData DEF Fail
<1>18. CASE IgnoreAbort
  <2>1. IsOps(ops', Kinds)
    BY <1>18, <1>k, <1>r DEF IgnoreAbort
  <2> QED
    BY <1>18, <1>o, <2>1, KeepClosing, KeepData DEF IgnoreAbort
<1>19. CASE ShutdownDone
  <2>1. PICK k \in {"shutdown", "timer"} :
          \E o \in Completed(ops, k) : ops' = Cancel(o, InOps \cup {"timer"})
    BY <1>19 DEF ShutdownDone
  <2>2. IsOps(ops', Kinds)
    BY <1>k, <1>c, <2>1, CancelType
  <2>3. ClosingOK'
    BY <1>19, <1>o DEF ShutdownDone, ClosingOK
  <2> QED
    BY <1>19, <1>o, <2>2, <2>3, KeepData DEF ShutdownDone
<1>20. CASE Perform
  <2>1. PICK k \in Kinds : ops["waiting"][k] > 0 /\ ops' = Add(Remove(ops, k, "waiting"), k, "ready")
    BY <1>20 DEF Perform
  <2>2. IsOps(Remove(ops, k, "waiting"), Kinds)
    BY <1>k, <1>r, <2>1
  <2>3. IsOps(ops', Kinds)
    BY <1>k, <2>1, <2>2, AddType
  <2> QED
    BY <1>20, <1>o, <2>3, KeepClosing, KeepData DEF Perform
<1>21. CASE UNCHANGED vars
  BY <1>21, <1>o, KeepClosing, KeepData DEF vars
<1> QED
  BY <1>1, <1>2, <1>3, <1>4, <1>5, <1>6, <1>7, <1>8, <1>9, <1>10, <1>11, <1>12, <1>13,
     <1>14, <1>15, <1>16, <1>17, <1>18, <1>19, <1>20, <1>21 DEF Next

-----------------------------------------------------------------------------
(* The pieces and the account.                                             *)
DataInv == HelloInv /\ RelayInv /\ UplinkComplete /\ UsageRecorded

LEMMA StreamIs == \A n : Stream(n) = Numbered(n)
BY DEF Stream, Numbered

LEMMA NatSeq ==
  ASSUME NEW s \in Seq(Nat)
  PROVE  s \in Seq(Int) /\ Len(s) \in Nat
OBVIOUS

LEMMA LiveNat ==
  ASSUME Types, NEW j \in Kinds
  PROVE  Live(j) \in Nat
BY TableNat DEF Types, Live

(* Before the destination is connected there is one operation.             *)
HelloOps == {"handshake", "http_write", "in_read", "resolve", "connect"}

LEMMA HelloOnly ==
  ASSUME Types, ShapeInv, status = "HANDSHAKE", NEW a \in HelloOps, Live(a) > 0
  PROVE  Live(a) = 1 /\ \A j \in HelloOps \ {a} : Live(j) = 0
<1>1. Live("handshake") + Live("http_write") + Live("in_read")
        + (Live("resolve") + Live("connect")) = 1
  BY DEF ShapeInv, Hello, Dial
<1>2. /\ Live("handshake") \in Nat /\ Live("http_write") \in Nat /\ Live("in_read") \in Nat
      /\ Live("resolve") \in Nat /\ Live("connect") \in Nat
  BY LiveNat, KindsIn
<1>3. CASE a = "handshake"
  BY <1>1, <1>2, <1>3 DEF HelloOps
<1>4. CASE a = "http_write"
  BY <1>1, <1>2, <1>4 DEF HelloOps
<1>5. CASE a = "in_read"
  BY <1>1, <1>2, <1>5 DEF HelloOps
<1>6. CASE a = "resolve"
  <2>1. /\ Live("handshake") = 0 /\ Live("http_write") = 0 /\ Live("in_read") = 0
        /\ Live("connect") = 0 /\ Live("resolve") = 1
    BY <1>1, <1>2, <1>6
  <2> QED
    BY <1>6, <2>1 DEF HelloOps
<1>7. CASE a = "connect"
  BY <1>1, <1>2, <1>7 DEF HelloOps
<1> QED
  BY <1>3, <1>4, <1>5, <1>6, <1>7 DEF HelloOps

(* What is charged when a session of a user ends.                          *)
LEMMA Charged ==
  ASSUME Types, ShapeInv, DataInv, status # "DESTROY", auth_password
  PROVE  recv_len = Len(to_client) /\ sent_len \in Relayed
<1>o. /\ up_taken \in Nat /\ down_taken \in Nat /\ sent_len \in Nat /\ recv_len \in Nat
      /\ status \in {"HANDSHAKE", "FORWARD", "UDP_FORWARD"}
      /\ to_server \in Seq(Nat) /\ to_client \in Seq(Nat)
  BY DEF Types, Status
<1>1. Len(to_client) = down_taken
  BY <1>o, CountFacts DEF DataInv, RelayInv
<1>2. CASE status = "HANDSHAKE"
  <2>1. Live("resolve") \in Nat /\ Live("connect") \in Nat
    BY LiveNat, KindsIn
  <2>2. Dial # 0
    BY <1>2 DEF DataInv, HelloInv
  <2>3. Dial > 0 /\ (Live("resolve") > 0 \/ Live("connect") > 0)
    BY <2>1, <2>2 DEF Dial
  <2>4. Live("http_write") = 0
    BY <1>2, <2>3, HelloOnly DEF HelloOps
  <2>5. /\ to_server = << >> /\ down_taken = 0 /\ recv_len = 0
        /\ out_write_buf = Count(up_taken) /\ sent_len = up_taken
    BY <1>2, <2>3, <2>4 DEF DataInv, HelloInv
  <2>6. Len(out_write_buf) = sent_len
    BY <1>o, <2>5, CountFacts
  <2> QED
    BY <1>1, <2>5, <2>6 DEF Relayed
<1>3. CASE status = "FORWARD"
  <2>1. to_server = Numbered(up_taken) /\ sent_len = up_taken /\ recv_len = down_taken
    BY <1>3, StreamIs DEF DataInv, UplinkComplete, RelayInv
  <2>2. to_server # << >> /\ Len(to_server) = up_taken + 1
    BY <1>o, <2>1, NumberedFacts
  <2> QED
    BY <1>o, <1>1, <2>1, <2>2 DEF Relayed
<1>4. CASE status = "UDP_FORWARD"
  <2>1. sent_len = Len(Reached) - 1 /\ recv_len = down_taken
    BY <1>4 DEF DataInv, RelayInv
  <2>2. CASE to_server = << >>
    <3>1. Len(<<0>>) = 1 /\ 1 - 1 = 0
      OBVIOUS
    <3>2. sent_len = 0
      BY <2>1, <2>2, <3>1 DEF Reached
    <3> QED
      BY <1>1, <2>1, <2>2, <3>2 DEF Relayed
  <2>3. CASE to_server # << >>
    BY <1>1, <2>1, <2>3 DEF Relayed, Reached
  <2> QED
    BY <2>2, <2>3
<1> QED
  BY <1>o, <1>2, <1>3, <1>4

LEMMA DestroyData ==
  ASSUME Types, ShapeInv, DataInv, NEW o, Destroy(o),
         UNCHANGED <<out_write_buf, to_server, down_taken, to_client, auth_password>>,
         up_taken' <= MaxUp
  PROVE  DataInv'
<1>1. status' = "DESTROY"
  BY DEF Destroy, closing
<1>2. HelloInv' /\ UplinkComplete'
  BY <1>1 DEF HelloInv, UplinkComplete
<1>3. RelayInv'
  <2>1. Count(down_taken)' = Count(down_taken)
    BY DEF Count
  <2> QED
    BY <1>1, <2>1 DEF DataInv, RelayInv
<1>4. UsageRecorded'
  <2>1. Relayed' = Relayed
    BY DEF Relayed
  <2>2. CASE status = "DESTROY"
    <3>1. recorded' = recorded
      BY <2>2 DEF Destroy, closing
    <3> QED
      BY <1>1, <2>1, <2>2, <3>1 DEF DataInv, UsageRecorded
  <2>3. CASE status # "DESTROY" /\ ~ auth_password
    <3>1. recorded' = recorded /\ recorded = << >>
      BY <2>3 DEF Destroy, DataInv, UsageRecorded
    <3> QED
      BY <2>3, <3>1 DEF UsageRecorded
  <2>4. CASE status # "DESTROY" /\ auth_password
    <3>1. recorded' = Append(<< >>, <<recv_len, sent_len>>)
      BY <2>4 DEF Destroy, Usage, DataInv, UsageRecorded
    <3>2. recorded' = << <<recv_len, sent_len>> >>
      BY <3>1
    <3>3. recv_len = Len(to_client) /\ sent_len \in Relayed
      BY <2>4, Charged
    <3> QED
      BY <1>1, <2>1, <2>4, <3>2, <3>3 DEF UsageRecorded
  <2> QED
    BY <2>2, <2>3, <2>4
<1> QED
  BY <1>2, <1>3, <1>4 DEF DataInv

(* Steps that move no piece.                                               *)
LEMMA SameData ==
  ASSUME DataInv, UNCHANGED <<status, udp_open, recorded, uplink, downlink, account>>,
         status = "HANDSHAKE" => Dial' = Dial /\ Live("http_write")' = Live("http_write"),
         status = "UDP_FORWARD" => Live("udp_resolve")' = Live("udp_resolve")
  PROVE  DataInv'
<1>1. UNCHANGED <<status, udp_open, recorded, up_taken, out_write_buf, udp_data_buf, packet,
                  to_server, down_taken, to_client, auth_password, sent_len, recv_len>>
  BY DEF uplink, downlink, account
<1>2. HelloInv'
  <2>1. Count(up_taken)' = Count(up_taken)
    BY <1>1 DEF Count
  <2> QED
    BY <1>1, <2>1 DEF DataInv, HelloInv
<1>3. RelayInv'
  <2>1. Count(down_taken)' = Count(down_taken) /\ Reached' = Reached
    BY <1>1 DEF Count, Reached
  <2> QED
    BY <1>1, <2>1 DEF DataInv, RelayInv
<1>4. UplinkComplete'
  <2>1. Stream(up_taken)' = Stream(up_taken)
    BY <1>1 DEF Stream
  <2>2. status = "UDP_FORWARD" => InHand' = InHand
    BY <1>1 DEF InHand
  <2> QED
    BY <1>1, <2>1, <2>2 DEF DataInv, UplinkComplete
<1>5. UsageRecorded'
  <2>1. Relayed' = Relayed
    BY <1>1 DEF Relayed
  <2> QED
    BY <1>1, <2>1 DEF DataInv, UsageRecorded
<1> QED
  BY <1>2, <1>3, <1>4, <1>5 DEF DataInv

(* A piece in hand is the first of what waited.                            *)
LEMMA InHandMoves ==
  ASSUME NEW s \in Seq(Int), NEW t \in Seq(Int), t # << >>
  PROVE  (s \o <<Head(t)>>) \o Tail(t) = s \o t
<1>1. Append(s, Head(t)) \o Tail(t) = s \o t /\ Head(t) \in Int
  BY HeadMoves
<1>2. Append(s, Head(t)) = s \o <<Head(t)>>
  BY <1>1, AppendIsConcat
<1> QED
  BY <1>1, <1>2

LEMMA ReachedInt ==
  ASSUME Types
  PROVE  Reached \in Seq(Int) /\ Reached # << >>
<1>1. to_server \in Seq(Int)
  BY NatSeq DEF Types
<1>2. <<0>> \in Seq(Int) /\ <<0>> # << >>
  OBVIOUS
<1> QED
  BY <1>1, <1>2 DEF Reached

(* udp_sent() takes a packet in hand or reads on.                          *)
LEMMA UdpSentData ==
  ASSUME Types, ShapeInv, DataInv, status = "UDP_FORWARD", Types',
         NEW a \in {"in_read", "udp_write"}, NEW o \in Completed(ops, a),
         NEW buf \in Seq(Nat), UdpSentWith(o, buf),
         UNCHANGED <<out_write_buf, to_server, downlink, account>>,
         up_taken' <= MaxUp, Reached \o buf = Stream(up_taken'),
         Live("udp_resolve") = 0
  PROVE  DataInv'
<1>k. a \in Kinds /\ "udp_resolve" \in Kinds /\ "in_read" \in Kinds /\ a # "udp_resolve"
      /\ "waiting" \in Phase \ {"aborted"}
  BY KindsIn
<1>o. IsOps(ops, Kinds)
  BY DEF Types
<1>u. UNCHANGED <<down_taken, to_client, auth_password, sent_len, recv_len>>
  BY DEF downlink, account
<1>1. CASE Destroy(o)
  BY <1>1, <1>u, DestroyData
<1>2. ASSUME UNCHANGED <<sockets, recorded>>, status' = "UDP_FORWARD",
             (Reached \o InHand' \o udp_data_buf') = Stream(up_taken')
      PROVE  DataInv'
  <2>1. udp_open' = udp_open /\ recorded' = recorded /\ recorded = << >>
    BY <1>2 DEF sockets, DataInv, UsageRecorded
  <2>2. HelloInv' /\ UsageRecorded'
    BY <1>2, <2>1 DEF HelloInv, UsageRecorded
  <2>3. Reached' = Reached /\ Count(down_taken)' = Count(down_taken)
    BY <1>u DEF Reached, Count
  <2>4. RelayInv'
    BY <1>2, <1>u, <2>1, <2>3 DEF DataInv, RelayInv
  <2>5. Stream(up_taken)' = Stream(up_taken')
    BY DEF Stream
  <2>6. UplinkComplete'
    BY <1>2, <2>3, <2>5 DEF UplinkComplete, Reached
  <2> QED
    BY <2>2, <2>4, <2>6 DEF DataInv
<1>i. Reached \in Seq(Int) /\ buf \in Seq(Int)
  BY ReachedInt, NatSeq
<1>3. CASE buf # << >> /\ ~ Destroy(o)
  <2>1. /\ packet' = Head(buf) /\ udp_data_buf' = Tail(buf)
        /\ ops' = Add(o, "udp_resolve", "waiting")
        /\ UNCHANGED <<sockets, recorded>> /\ status' = "UDP_FORWARD"
    BY <1>3 DEF UdpSentWith, RestPackets
  <2>2. Turn(a, {"udp_resolve"})
    BY <1>k, <1>o, <2>1, TurnAdd
  <2>3. Live("udp_resolve")' > 0
    <3>1. Live("udp_resolve")' = Live("udp_resolve") - 0 + 1
      BY <1>k, <2>2, TurnCounts
    <3> QED
      BY <3>1
  <2>4. InHand' = <<Head(buf)>>
    BY <2>1, <2>3 DEF InHand
  <2>5. (Reached \o <<Head(buf)>>) \o Tail(buf) = Reached \o buf
    BY <1>3, <1>i, InHandMoves
  <2>6. Reached \o InHand' \o udp_data_buf' = Stream(up_taken')
    BY <2>1, <2>4, <2>5
  <2> QED
    BY <1>2, <2>1, <2>6
<1>4. CASE buf = << >> /\ ~ Destroy(o)
  <2>1. /\ udp_data_buf' = buf /\ ops' \in ReadOn(o)
        /\ UNCHANGED <<sockets, recorded>> /\ status' = "UDP_FORWARD"
    BY <1>4 DEF UdpSentWith
  <2>2. Turn(a, {"in_read"})
    BY <1>k, <1>o, <2>1, TurnBegin DEF ReadOn, InAsyncRead
  <2>3. Live("udp_resolve")' = 0
    <3>1. "udp_resolve" \notin {"in_read"} /\ a \notin {"udp_resolve"}
      BY <1>k
    <3>2. Live("udp_resolve")' = Live("udp_resolve")
      BY <1>k, <2>2, <3>1, TurnOther
    <3> QED
      BY <3>2
  <2>4. InHand' = << >>
    BY <2>3 DEF InHand
  <2>5. Reached \o << >> = Reached
    BY <1>i, ConcatEmptySeq
  <2>6. Reached \o InHand' \o udp_data_buf' = Stream(up_taken')
    BY <2>1, <2>4, <2>5
  <2> QED
    BY <1>2, <2>1, <2>6
<1> QED
  BY <1>1, <1>3, <1>4

(* The answer of a packet's resolver.                                      *)
LEMMA SendPacketData ==
  ASSUME Types, ShapeInv, OneInFlight, DataInv, status = "UDP_FORWARD", status' = "UDP_FORWARD",
         udp_open' = TRUE, recorded' = recorded, SendPacket,
         Live("udp_resolve") > 0, Live("udp_resolve")' = Live("udp_resolve") - 1,
         UNCHANGED <<up_taken, out_write_buf, udp_data_buf, packet, downlink, auth_password,
                     recv_len>>
  PROVE  /\ DataInv'
         /\ to_server' = Reached \o <<packet>>
         /\ Reached \o <<packet>> \o udp_data_buf = Stream(up_taken)
<1>1. Reached \in Seq(Int) /\ Reached # << >> /\ udp_data_buf \in Seq(Int) /\ packet \in Int
  BY ReachedInt, NatSeq DEF Types
<1>2. to_server' = Reached \o <<packet>> /\ sent_len' = sent_len + 1
  BY DEF SendPacket, Reached
<1>3. <<packet>> \in Seq(Int) /\ Len(<<packet>>) = 1
  BY <1>1
<1> DEFINE p == <<packet>>
<1>h. p \in Seq(Int) /\ Len(p) = 1
  BY <1>3
<1> HIDE DEF p
<1>c. Reached \o p \in Seq(Int) /\ Len(Reached \o p) = Len(Reached) + Len(p)
  BY <1>1, <1>h, ConcatInt
<1>4. Len(Reached) \in Nat /\ Len(Reached) # 0
  BY <1>1, EmptySeq, LenProperties
<1>5. Reached \o p \in Seq(Int) /\ Len(Reached \o p) = Len(Reached) + 1 /\ Reached \o p # << >>
  <2>1. Len(Reached \o p) # 0
    BY <1>c, <1>h, <1>4
  <2> QED
    BY <1>c, <1>h, <2>1, EmptySeq
<1>6. to_server' = Reached \o p /\ Reached' = Reached \o p
  <2>1. to_server' = Reached \o p
    BY <1>2 DEF p
  <2> QED
    BY <1>5, <2>1 DEF Reached
<1>7. Reached \o p \o udp_data_buf = Stream(up_taken)
  BY DEF DataInv, UplinkComplete, InHand, Reached, p
<1>8. Live("udp_resolve")' = 0
  <2>1. Live("udp_resolve") \in Nat /\ Live("in_read") \in Nat /\ Live("udp_write") \in Nat
    BY LiveNat, KindsIn
  <2> QED
    BY <2>1 DEF OneInFlight
<1>9. InHand' = << >>
  BY <1>8 DEF InHand
<1>10. (Reached \o p) \o << >> = Reached \o p
  BY <1>5, ConcatEmptySeq
<1>11. UplinkComplete'
  <2>1. Stream(up_taken)' = Stream(up_taken)
    BY DEF Stream
  <2>2. Reached' \o InHand' \o udp_data_buf' = Stream(up_taken)'
    BY <1>6, <1>7, <1>9, <1>10, <2>1
  <2> QED
    BY <2>2 DEF UplinkComplete, Reached
<1>12. RelayInv'
  <2>1. UNCHANGED <<down_taken, to_client>> /\ Count(down_taken)' = Count(down_taken)
    BY DEF downlink, Count
  <2>2. sent_len = Len(Reached) - 1
    BY DEF DataInv, RelayInv
  <2>3. sent_len' = Len(Reached') - 1
    BY <1>2, <1>4, <1>5, <1>6, <2>2
  <2>4. to_server' # << >>
    BY <1>5, <1>6
  <2> QED
    BY <2>1, <2>3, <2>4 DEF DataInv, RelayInv
<1>13. HelloInv' /\ UsageRecorded'
  BY DEF HelloInv, UsageRecorded, DataInv
<1> QED
  BY <1>2, <1>7, <1>11, <1>12, <1>13 DEF DataInv, p

(* A piece from the destination goes to the peer.                          *)
LEMMA DownData ==
  ASSUME Types, DataInv, status \in {"FORWARD", "UDP_FORWARD"}, down_taken < MaxDown,
         down_taken' = down_taken + 1, recv_len' = recv_len + 1,
         to_client' = Append(to_client, down_taken'),
         UNCHANGED <<closing, uplink, auth_password, sent_len>>,
         Live("udp_resolve")' = Live("udp_resolve")
  PROVE  DataInv' /\ to_client' = Append(to_client, Len(to_client) + 1) /\ Len(to_client) < MaxDown
<1>1. UNCHANGED <<status, udp_open, recorded, up_taken, out_write_buf, udp_data_buf, packet,
                  to_server>>
  BY DEF closing, sockets, uplink
<1>2. down_taken \in Nat /\ recv_len \in Nat /\ MaxDown \in Nat /\ down_taken + 1 <= MaxDown
  BY BoundsAssumption DEF Types
<1>3. to_client = Count(down_taken)
  BY DEF DataInv, RelayInv
<1>4. to_client' = Count(down_taken + 1) /\ Len(to_client) = down_taken
  BY <1>2, <1>3, CountNext, CountFacts
<1>5. RelayInv'
  <2>1. Count(down_taken)' = Count(down_taken + 1) /\ Reached' = Reached
    BY <1>1 DEF Count, Reached
  <2> QED
    BY <1>1, <1>2, <1>4, <2>1 DEF DataInv, RelayInv
<1>6. UplinkComplete'
  <2>1. Stream(up_taken)' = Stream(up_taken) /\ InHand' = InHand
    BY <1>1 DEF Stream, InHand
  <2> QED
    BY <1>1, <2>1 DEF DataInv, UplinkComplete
<1>7. HelloInv' /\ UsageRecorded'
  BY <1>1 DEF DataInv, HelloInv, UsageRecorded
<1> QED
  BY <1>2, <1>4, <1>5, <1>6, <1>7 DEF DataInv

(* The read of the request.                                                *)
LEMMA PiecesCount ==
  ASSUME up_taken = 0, NEW n \in Nat
  PROVE  Pieces(n) = Count(n)
<1>1. n - up_taken = n /\ \A i \in 1 .. n : up_taken + i = i
  OBVIOUS
<1> QED
  BY <1>1 DEF Pieces, Count

LEMMA StreamData ==
  ASSUME Types, ShapeInv, DataInv, InRecvStream, Types'
  PROVE  DataInv'
<1>1. PICK o \in Completed(ops, "in_read"), r \in Requests \ {"UDP_ASSOCIATE"} :
        /\ ops' = Add(o, "resolve", "waiting")
        /\ up_taken' \in {n \in {0, 1} : n <= MaxUp /\ (r = "STRANGER" => n = 1)}
  BY DEF InRecvStream
<1>2. /\ status = "HANDSHAKE" /\ status' = "HANDSHAKE" /\ recorded' = recorded
      /\ out_write_buf' = Pieces(up_taken') /\ sent_len' = sent_len + Len(out_write_buf')
      /\ UNCHANGED <<udp_data_buf, to_server, down_taken, to_client, recv_len>>
  BY DEF InRecvStream, closing, downlink
<1>k. "in_read" \in Kinds /\ "resolve" \in Kinds /\ "connect" \in Kinds /\ "http_write" \in Kinds
      /\ "waiting" \in Phase \ {"aborted"}
  BY KindsIn
<1>3. Turn("in_read", {"resolve"})
  BY <1>1, <1>k, TurnAdd DEF Types
<1>4. Live("http_write") = 0 /\ Live("resolve") = 0 /\ Live("connect") = 0
  BY <1>2, <1>3, HelloOnly DEF HelloOps, Turn
<1>5. /\ Live("http_write")' = 0 - 0 + 0 /\ Live("resolve")' = 0 - 0 + 1
      /\ Live("connect")' = 0 - 0 + 0
  BY <1>3, <1>4, <1>k, TurnCounts
<1>6. Dial = 0 /\ Dial' > 0
  BY <1>4, <1>5 DEF Dial
<1>7. /\ up_taken = 0 /\ sent_len = 0 /\ recv_len = 0
      /\ to_server = << >> /\ udp_data_buf = << >> /\ down_taken = 0
  BY <1>2, <1>4, <1>6 DEF DataInv, HelloInv
<1>8. up_taken' \in Nat /\ up_taken' <= MaxUp
  <2>1. up_taken' \in {0, 1} /\ up_taken' <= MaxUp
    BY <1>1
  <2> QED
    BY <2>1
<1>9. out_write_buf' = Count(up_taken') /\ Len(out_write_buf') = up_taken'
  BY <1>2, <1>7, <1>8, PiecesCount, CountFacts
<1>10. sent_len' = up_taken'
  <2>1. sent_len' = 0 + Len(out_write_buf')
    BY <1>2, <1>7
  <2>2. Len(out_write_buf') = up_taken'
    BY <1>9
  <2>3. 0 + up_taken' = up_taken'
    <3>1. \A n \in Nat : 0 + n = n
      OBVIOUS
    <3> QED
      BY <1>8, <3>1
  <2> QED
    BY <2>1, <2>2, <2>3
<1>11. Count(up_taken)' = Count(up_taken') /\ Count(down_taken)' = Count(down_taken)
  BY <1>2 DEF Count
<1>12. HelloInv'
  <2>1. to_server' = << >> /\ udp_data_buf' = << >> /\ down_taken' = 0 /\ recv_len' = 0
    BY <1>2, <1>7
  <2>2. out_write_buf' = Count(up_taken)'
    BY <1>9, <1>11
  <2> QED
    BY <1>6, <1>10, <2>1, <2>2 DEF HelloInv
<1>13. RelayInv'
  BY <1>2, <1>8, <1>11 DEF DataInv, RelayInv
<1>14. UplinkComplete' /\ UsageRecorded'
  BY <1>2 DEF DataInv, UplinkComplete, UsageRecorded
<1> QED
  BY <1>12, <1>13, <1>14 DEF DataInv

LEMMA AssociateData ==
  ASSUME Types, ShapeInv, DataInv, InRecvAssociate, Types'
  PROVE  DataInv'
<1>1. /\ status = "HANDSHAKE" /\ up_taken' \in 0 .. MaxUp
      /\ out_write_buf' = Pieces(up_taken')
      /\ UNCHANGED <<to_server, down_taken, to_client, sent_len, recv_len>>
  BY DEF InRecvAssociate, downlink
<1>2. PICK o \in Completed(ops, "in_read") :
        \/ out_write_buf' # << >> /\ UdpSentWith(o, out_write_buf')
        \/ /\ out_write_buf' = << >> /\ status' = "UDP_FORWARD" /\ ops' \in ReadOn(o)
           /\ UNCHANGED <<sockets, recorded, udp_data_buf, packet>>
  BY DEF InRecvAssociate
<1>k. "in_read" \in Kinds /\ "udp_resolve" \in Kinds /\ "waiting" \in Phase \ {"aborted"}
      /\ "in_read" # "udp_resolve"
  BY KindsIn
<1>o. IsOps(ops, Kinds) /\ up_taken' \in Nat /\ up_taken' <= MaxUp
  BY <1>1, BoundsAssumption DEF Types
<1>3. Live("in_read") > 0
  BY <1>k, <1>o, CompletedDiffers DEF Live
<1>4. /\ Live("http_write") = 0 /\ Live("resolve") = 0 /\ Live("connect") = 0
  BY <1>1, <1>3, HelloOnly DEF HelloOps
<1>5. Dial = 0 /\ Live("udp_resolve") = 0 /\ ~ udp_open
  BY <1>1, <1>4 DEF Dial, ShapeInv, None
<1>6. /\ up_taken = 0 /\ sent_len = 0 /\ recv_len = 0
      /\ to_server = << >> /\ udp_data_buf = << >> /\ down_taken = 0
  BY <1>1, <1>4, <1>5 DEF DataInv, HelloInv
<1>7. out_write_buf' = Count(up_taken') /\ out_write_buf' \in Seq(Int)
  BY <1>1, <1>o, <1>6, PiecesCount, CountFacts
<1> DEFINE z == <<0>>
<1>z. z \in Seq(Int)
  OBVIOUS
<1>8. z \o out_write_buf' = Stream(up_taken')
  BY <1>7, <1>o, StreamIs, NumberedSplit
<1>9. Reached' = z
  BY <1>1, <1>6 DEF Reached
<1> HIDE DEF z
<1>10. ASSUME status' = "UDP_FORWARD", UNCHANGED <<sockets, recorded>>,
              z \o InHand' \o udp_data_buf' = Stream(up_taken')
       PROVE  DataInv'
  <2>1. udp_open' = udp_open /\ recorded = << >>
    BY <1>1, <1>10 DEF sockets, DataInv, UsageRecorded
  <2>2. HelloInv' /\ UsageRecorded'
    BY <1>10, <2>1 DEF HelloInv, UsageRecorded
  <2>3. Len(Reached') - 1 = 0
    <3>1. Len(z) = 1 /\ 1 - 1 = 0
      BY DEF z
    <3> QED
      BY <1>9, <3>1
  <2>4. Count(down_taken)' = Count(down_taken)
    BY <1>1 DEF Count
  <2>5. RelayInv'
    BY <1>1, <1>o, <1>5, <1>6, <1>10, <2>1, <2>3, <2>4 DEF DataInv, RelayInv
  <2>6. Stream(up_taken)' = Stream(up_taken')
    BY DEF Stream
  <2>7. UplinkComplete'
    BY <1>9, <1>10, <2>6 DEF UplinkComplete, Reached
  <2> QED
    BY <2>2, <2>5, <2>7 DEF DataInv
<1>11. CASE out_write_buf' # << >>
  <2>1. /\ packet' = Head(out_write_buf') /\ udp_data_buf' = Tail(out_write_buf')
        /\ ops' = Add(o, "udp_resolve", "waiting")
        /\ UNCHANGED <<sockets, recorded>> /\ status' = "UDP_FORWARD"
    BY <1>2, <1>11 DEF UdpSentWith, RestPackets
  <2>2. Turn("in_read", {"udp_resolve"})
    BY <1>k, <1>o, <2>1, TurnAdd
  <2>3. Live("udp_resolve")' > 0
    <3>1. Live("udp_resolve")' = Live("udp_resolve") - 0 + 1
      BY <1>k, <2>2, TurnCounts
    <3> QED
      BY <1>5, <3>1
  <2>4. InHand' = <<Head(out_write_buf')>>
    BY <2>1, <2>3 DEF InHand
  <2>5. z \o InHand' \o udp_data_buf' = Stream(up_taken')
    BY <1>z, <1>7, <1>8, <1>11, <2>1, <2>4, InHandMoves
  <2> QED
    BY <1>10, <2>1, <2>5
<1>12. CASE out_write_buf' = << >>
  <2>1. /\ status' = "UDP_FORWARD" /\ ops' \in ReadOn(o)
        /\ UNCHANGED <<sockets, recorded, udp_data_buf>>
    BY <1>2, <1>12
  <2>2. Turn("in_read", {"in_read"})
    BY <1>k, <1>o, <2>1, TurnBegin DEF ReadOn, InAsyncRead
  <2>3. Live("udp_resolve")' = Live("udp_resolve")
    <3>1. "udp_resolve" \notin {"in_read"} /\ "in_read" \notin {"udp_resolve"}
      OBVIOUS
    <3> QED
      BY <1>k, <2>2, <3>1, TurnOther
  <2>4. InHand' = << >>
    BY <1>5, <2>3 DEF InHand
  <2>5. z \o << >> = z
    BY <1>z, ConcatEmptySeq
  <2>6. z \o InHand' \o udp_data_buf' = Stream(up_taken')
    BY <1>6, <1>8, <1>12, <2>1, <2>4, <2>5
  <2> QED
    BY <1>10, <2>1, <2>6
<1> QED
  BY <1>11, <1>12

LEMMA ConnectedData ==
  ASSUME Types, ShapeInv, DataInv, Connected
  PROVE  /\ DataInv'
         /\ to_server = << >> /\ to_server' = Stream(up_taken) /\ up_taken <= MaxUp
<1>1. /\ status' = "FORWARD" /\ to_server' = <<0>> \o out_write_buf
      /\ UNCHANGED <<sockets, recorded, up_taken, down_taken, to_client, sent_len, recv_len>>
  BY DEF Connected, FirstFlight, downlink, account
<1>2. Live("connect") > 0
  BY CompletedDiffers, KindsIn DEF Connected, Types, Live
<1>3. status = "HANDSHAKE"
  BY <1>2, AtWork DEF DialOps
<1>4. Live("http_write") = 0 /\ Dial > 0
  <2>1. Live("http_write") = 0 /\ Live("resolve") = 0 /\ Live("connect") = 1
    BY <1>2, <1>3, HelloOnly DEF HelloOps
  <2> QED
    BY <2>1 DEF Dial
<1>5. /\ to_server = << >> /\ down_taken = 0 /\ recv_len = 0
      /\ out_write_buf = Count(up_taken) /\ sent_len = up_taken
  BY <1>3, <1>4 DEF DataInv, HelloInv
<1>6. up_taken \in Nat
  BY DEF Types
<1>7. to_server' = Stream(up_taken)
  BY <1>1, <1>5, <1>6, StreamIs, NumberedSplit
<1>8. Stream(up_taken)' = Stream(up_taken) /\ Count(down_taken)' = Count(down_taken)
  BY <1>1 DEF Stream, Count
<1>9. HelloInv' /\ UplinkComplete'
  BY <1>1, <1>7, <1>8 DEF HelloInv, UplinkComplete
<1>10. RelayInv'
  BY <1>1, <1>5, <1>8 DEF DataInv, RelayInv
<1>11. UsageRecorded'
  BY <1>1, <1>3 DEF DataInv, UsageRecorded
<1> QED
  BY <1>5, <1>7, <1>9, <1>10, <1>11 DEF DataInv, RelayInv

LEMMA UpData ==
  ASSUME Types, DataInv, InRecvForward
  PROVE  DataInv' /\ to_server' = Append(to_server, Len(to_server)) /\ Len(to_server) <= MaxUp
                  /\ to_server # << >>
<1>1. /\ status = "FORWARD" /\ status' = "FORWARD" /\ up_taken < MaxUp
      /\ up_taken' = up_taken + 1 /\ sent_len' = sent_len + 1
      /\ to_server' = Append(to_server, up_taken')
      /\ UNCHANGED <<recorded, out_write_buf, down_taken, to_client, auth_password, recv_len>>
  BY DEF InRecvForward, closing, downlink
<1>2. up_taken \in Nat /\ sent_len \in Nat /\ MaxUp \in Nat /\ up_taken + 1 \in Nat
  BY BoundsAssumption DEF Types
<1>3. to_server = Numbered(up_taken) /\ sent_len = up_taken /\ recv_len = down_taken
  BY <1>1, StreamIs DEF DataInv, UplinkComplete, RelayInv
<1>4. /\ Len(to_server) = up_taken + 1 /\ to_server # << >>
      /\ to_server' = Numbered(up_taken + 1)
  BY <1>1, <1>2, <1>3, NumberedFacts, NumberedNext
<1>5. Stream(up_taken)' = Numbered(up_taken + 1)
  <2>1. Stream(up_taken)' = Stream(up_taken + 1)
    BY <1>1 DEF Stream
  <2> QED
    BY <2>1, StreamIs
<1>6. HelloInv' /\ UplinkComplete' /\ UsageRecorded'
  BY <1>1, <1>4, <1>5 DEF HelloInv, UplinkComplete, DataInv, UsageRecorded
<1>7. RelayInv'
  <2>1. Count(down_taken)' = Count(down_taken)
    BY <1>1 DEF Count
  <2>2. up_taken' <= MaxUp /\ sent_len' = up_taken'
    BY <1>1, <1>2, <1>3
  <2> QED
    BY <1>1, <1>3, <2>1, <2>2 DEF DataInv, RelayInv
<1> QED
  BY <1>1, <1>2, <1>4, <1>6, <1>7 DEF DataInv

(* Every step keeps the pieces and the account.                            *)
LEMMA DataStep ==
  ASSUME Types, ShapeInv, OneInFlight, DataInv, Types', [Next]_vars
  PROVE  DataInv'
<1>o. IsOps(ops, Kinds)
  BY DEF Types
<1>k. /\ {"handshake", "in_read", "in_write", "http_write", "shutdown", "connect",
          "out_read", "out_write", "udp_read", "udp_write", "resolve", "udp_resolve",
          "timer"} \subseteq Kinds
      /\ "waiting" \in Phase \ {"aborted"} /\ "ready" \in Phase \ {"aborted"}
  BY KindsIn
<1>t. \A a \in Kinds, b \in Kinds : \A o \in Completed(ops, a) : \A open, atOnce :
        ops' \in Begin(o, b, open, atOnce) => Turn(a, {b})
  BY <1>o, TurnBegin
<1>m. up_taken <= MaxUp
  BY DEF DataInv, RelayInv
<1>n. ASSUME NEW a, NEW B, Turn(a, B), NEW j \in Kinds, j # a, j \notin B
      PROVE  Live(j)' = Live(j)
  BY <1>n, TurnOther
<1>d. ASSUME NEW o, Destroy(o), UNCHANGED <<uplink, downlink, account>>
      PROVE  DataInv'
  BY <1>d, <1>m, DestroyData DEF uplink, downlink, account
<1>1. CASE Handshaken
  <2>1. Turn("handshake", {"in_read"})
    BY <1>k, <1>t, <1>1 DEF Handshaken, InAsyncRead
  <2>2. status = "HANDSHAKE"
    BY <2>1, AtWork DEF Turn, DialOps
  <2>3. /\ Live("http_write")' = Live("http_write")
        /\ Live("resolve")' = Live("resolve") /\ Live("connect")' = Live("connect")
    BY <1>k, <1>n, <2>1
  <2> QED
    BY <1>1, <2>2, <2>3, SameData DEF Handshaken, closing, sockets, Dial
<1>2. CASE HttpRequest
  <2> DEFINE o == Remove(ops, "handshake", "waiting")
  <2>1. ops["waiting"]["handshake"] > 0 /\ ops' \in Begin(o, "http_write", in_open, TRUE)
    BY <1>2 DEF HttpRequest
  <2>2. Differs(ops, o, "handshake", {}) /\ Live("handshake") > 0
    BY <1>k, <1>o, <2>1, RemoveDiffers DEF Live
  <2> HIDE DEF o
  <2>3. Differs(ops, ops', "handshake", {} \cup {"http_write"})
    BY <1>k, <1>o, <2>1, <2>2, BeginDiffers
  <2>4. Turn("handshake", {"http_write"})
    BY <2>2, <2>3 DEF Turn
  <2>5. status = "HANDSHAKE"
    BY <2>2, AtWork DEF DialOps
  <2>6. Live("http_write") = 0 /\ Live("resolve") = 0 /\ Live("connect") = 0
    BY <2>2, <2>5, HelloOnly DEF HelloOps
  <2>7. Live("resolve")' = 0 /\ Live("connect")' = 0
    BY <1>k, <1>n, <2>4, <2>6
  <2>8. Live("http_write")' # 0
    <3>1. Live("http_write")' = Live("http_write") - 0 + 1
      BY <1>k, <2>4, TurnCounts
    <3> QED
      BY <2>6, <3>1
  <2>9. Dial = 0 /\ Dial' = 0
    BY <2>6, <2>7 DEF Dial
  <2>10. UNCHANGED <<status, udp_open, recorded, up_taken, out_write_buf, udp_data_buf,
                     to_server, down_taken, to_client, auth_password, sent_len>>
    BY <1>2 DEF HttpRequest, closing, sockets, uplink, downlink
  <2>11. HelloInv'
    BY <2>5, <2>8, <2>9, <2>10 DEF DataInv, HelloInv
  <2>12. Count(down_taken)' = Count(down_taken)
    BY <2>10 DEF Count
  <2>13. RelayInv' /\ UplinkComplete' /\ UsageRecorded'
    BY <2>5, <2>10, <2>12 DEF DataInv, RelayInv, UplinkComplete, UsageRecorded
  <2> QED
    BY <2>11, <2>13 DEF DataInv
<1>3. CASE HttpSent
  BY <1>3, <1>d DEF HttpSent
<1>4. CASE InRecvStream
  BY <1>4, StreamData
<1>5. CASE InRecvAssociate
  BY <1>5, AssociateData
<1>6. CASE InRecvForward
  BY <1>6, UpData
<1>7. CASE InRecvUdpForward
  <2>1. PICK o \in Completed(ops, "in_read") : UdpSentWith(o, udp_data_buf \o Pieces(up_taken'))
    BY <1>7 DEF InRecvUdpForward
  <2>2. /\ status = "UDP_FORWARD" /\ up_taken' \in up_taken .. MaxUp
        /\ UNCHANGED <<out_write_buf, to_server, downlink, account>>
    BY <1>7 DEF InRecvUdpForward
  <2>3. up_taken \in Nat /\ up_taken' \in Nat /\ up_taken <= up_taken' /\ up_taken' <= MaxUp
    BY <2>2, BoundsAssumption DEF Types
  <2>4. Live("udp_resolve") = 0
    <3>1. Live("in_read") > 0
      BY <1>k, <1>o, CompletedDiffers DEF Live
    <3>2. /\ Live("in_read") \in Nat /\ Live("udp_resolve") \in Nat /\ Live("udp_write") \in Nat
          /\ Live("in_read") + Live("udp_resolve") + Live("udp_write") = 1
      BY <1>k, <2>2, LiveNat DEF OneInFlight
    <3> QED
      BY <3>1, <3>2
  <2> DEFINE new == Pieces(up_taken')
  <2>5. new \in Seq(Int) /\ Numbered(up_taken) \o new = Numbered(up_taken')
    BY <2>3, NumberedJoin DEF Pieces
  <2>6. Reached \in Seq(Int) /\ udp_data_buf \in Seq(Int)
    BY ReachedInt, NatSeq DEF Types
  <2>7. Reached \o udp_data_buf = Numbered(up_taken)
    <3>1. Reached \o << >> = Reached
      BY <2>6, ConcatEmptySeq
    <3>2. Reached \o InHand \o udp_data_buf = Numbered(up_taken)
      BY <2>2, StreamIs DEF DataInv, UplinkComplete, Reached
    <3>3. InHand = << >>
      BY <2>4 DEF InHand
    <3> QED
      BY <3>1, <3>2, <3>3
  <2>8. udp_data_buf \o new \in Seq(Nat)
    <3>1. new \in Seq(Nat) /\ udp_data_buf \in Seq(Nat)
      BY <2>3, PiecesNat DEF Types
    <3> HIDE DEF new
    <3> QED
      BY <3>1, ConcatNat
  <2> HIDE DEF new
  <2>9. Reached \o (udp_data_buf \o new) = (Reached \o udp_data_buf) \o new
    BY <2>5, <2>6, ConcatThree
  <2>10. Reached \o (udp_data_buf \o new) = Stream(up_taken')
    BY <2>5, <2>7, <2>9, StreamIs
  <2>11. UdpSentWith(o, udp_data_buf \o new)
    BY <2>1 DEF new
  <2> QED
    BY <2>2, <2>3, <2>4, <2>8, <2>10, <2>11, UdpSentData
<1>8. CASE Dropped
  <2>1. status = "DESTROY"
    BY <1>8 DEF Dropped
  <2> QED
    BY <1>8, <2>1, SameData DEF Dropped, closing, sockets
<1>9. CASE Resolved
  <2> DEFINE o == Remove(ops, "resolve", "ready")
  <2>1. Differs(ops, o, "resolve", {}) /\ Live("resolve") > 0
    BY <1>k, <1>o, <1>9, RemoveDiffers DEF Live, Resolved
  <2>2. \/ Destroy(o)
        \/ /\ ops' \in Begin(o, "connect", TRUE, TRUE)
           /\ UNCHANGED <<status, in_open, udp_open, recorded>>
    BY <1>9 DEF Resolved
  <2>d. UNCHANGED <<uplink, downlink, account>>
    BY <1>9 DEF Resolved
  <2> HIDE DEF o
  <2>3. CASE Destroy(o)
    BY <1>d, <2>d, <2>3
  <2>4. CASE /\ ops' \in Begin(o, "connect", TRUE, TRUE)
             /\ UNCHANGED <<status, in_open, udp_open, recorded>>
    <3>1. Differs(ops, ops', "resolve", {} \cup {"connect"})
      BY <1>k, <1>o, <2>1, <2>4, BeginDiffers
    <3>2. Turn("resolve", {"connect"})
      BY <2>1, <3>1 DEF Turn
    <3>3. status = "HANDSHAKE"
      BY <2>1, AtWork DEF DialOps
    <3>4. Live("http_write")' = Live("http_write")
      BY <1>k, <1>n, <3>2
    <3>5. /\ Live("resolve") \in Nat /\ Live("connect") \in Nat
          /\ Live("resolve")' = Live("resolve") - 1 + 0
          /\ Live("connect")' = Live("connect") - 0 + 1
      BY <1>k, <3>2, TurnCounts
    <3>6. Dial' = Dial
      BY <3>5 DEF Dial
    <3> QED
      BY <2>d, <2>4, <3>3, <3>4, <3>6, SameData
  <2> QED
    BY <2>2, <2>3, <2>4
<1>10. CASE Connected
  BY <1>10, ConnectedData
<1>11. CASE OutSent
  BY <1>11, SameData DEF OutSent, closing, sockets
<1>12. CASE OutRecv
  <2>1. Turn("out_read", {"in_write"})
    BY <1>k, <1>t, <1>12 DEF OutRecv, InAsyncWrite
  <2>2. Live("udp_resolve")' = Live("udp_resolve")
    BY <1>k, <1>n, <2>1
  <2> QED
    BY <1>12, <2>2, DownData DEF OutRecv
<1>13. CASE InSent
  <2>1. CASE status = "FORWARD"
    BY <1>13, <2>1, SameData DEF InSent, closing, sockets
  <2>2. CASE status = "UDP_FORWARD"
    <3>1. Turn("in_write", {"udp_read"})
      BY <1>k, <1>t, <1>13, <2>2 DEF InSent, UdpAsyncRead
    <3>2. Live("udp_resolve")' = Live("udp_resolve")
      BY <1>k, <1>n, <3>1
    <3> QED
      BY <1>13, <2>2, <3>2, SameData DEF InSent, closing, sockets
  <2> QED
    BY <1>13, <2>1, <2>2 DEF InSent
<1>14. CASE ResolvedUdp
  <2> DEFINE o == Remove(ops, "udp_resolve", "ready")
  <2>1. Differs(ops, o, "udp_resolve", {}) /\ Live("udp_resolve") > 0 /\ IsOps(o, Kinds)
    BY <1>k, <1>o, <1>14, RemoveDiffers DEF Live, ResolvedUdp, Differs
  <2>2. \/ Destroy(o) /\ UNCHANGED <<sent_len, late, to_server>>
        \/ /\ udp_open' = TRUE /\ UNCHANGED <<status, in_open, out_open, recorded>>
           /\ \E r \in IF udp_open THEN {o} ELSE UdpAsyncRead(o) : ops' \in UdpAsyncWrite(r)
           /\ SendPacket
    BY <1>14 DEF ResolvedUdp
  <2>3. UNCHANGED <<up_taken, out_write_buf, udp_data_buf, packet, downlink, auth_password,
                    recv_len>>
    BY <1>14 DEF ResolvedUdp
  <2> HIDE DEF o
  <2>4. CASE Destroy(o) /\ UNCHANGED <<sent_len, late, to_server>>
    BY <1>m, <2>3, <2>4, DestroyData DEF downlink
  <2>5. ASSUME udp_open' = TRUE, UNCHANGED <<status, recorded>>, SendPacket,
               NEW r \in IF udp_open THEN {o} ELSE UdpAsyncRead(o), ops' \in UdpAsyncWrite(r)
        PROVE  DataInv'
    <3>1. CASE status = "UDP_FORWARD"
      <4>1. Live("udp_resolve")' = Live("udp_resolve") - 1
        <5>1. \E B : Differs(ops, r, "udp_resolve", B) /\ "udp_write" \notin B /\ "udp_resolve" \notin B
          <6>1. CASE udp_open
            BY <2>1, <2>5, <6>1
          <6>2. CASE ~ udp_open
            <7>1. Differs(ops, r, "udp_resolve", {} \cup {"udp_read"})
              BY <1>k, <1>o, <2>1, <2>5, <6>2, BeginDiffers DEF UdpAsyncRead
            <7> QED
              BY <7>1
          <6> QED
            BY <6>1, <6>2
        <5>2. PICK B : Differs(ops, r, "udp_resolve", B) /\ "udp_write" \notin B /\ "udp_resolve" \notin B
          BY <5>1
        <5>3. Differs(ops, ops', "udp_resolve", B \cup {"udp_write"})
          BY <1>k, <1>o, <2>5, <5>2, BeginDiffers DEF UdpAsyncWrite
        <5>4. Live("udp_resolve")' = Live("udp_resolve") - 1 + 0
          BY <1>k, <5>2, <5>3 DEF Differs, Live
        <5>5. Live("udp_resolve") \in Nat
          BY <1>k, LiveNat
        <5> QED
          BY <5>4, <5>5
      <4> QED
        BY <2>1, <2>3, <2>5, <3>1, <4>1, SendPacketData
    <3>2. CASE status = "DESTROY"
      <4>1. UNCHANGED <<to_server, down_taken, to_client>> /\ status' = "DESTROY"
        BY <2>3, <2>5, <3>2 DEF SendPacket, downlink
      <4>2. Count(down_taken)' = Count(down_taken) /\ Relayed' = Relayed
        BY <2>3, <4>1 DEF Count, Relayed
      <4>3. HelloInv' /\ UplinkComplete'
        BY <4>1 DEF HelloInv, UplinkComplete
      <4>4. RelayInv' /\ UsageRecorded'
        BY <2>3, <2>5, <3>2, <4>1, <4>2 DEF DataInv, RelayInv, UsageRecorded
      <4> QED
        BY <4>3, <4>4 DEF DataInv
    <3> QED
      BY <2>1, <3>1, <3>2, AtWork
  <2> QED
    BY <2>2, <2>4, <2>5
<1>15. CASE UdpSent
  <2>1. PICK o \in Completed(ops, "udp_write") : UdpSentWith(o, udp_data_buf)
    BY <1>15 DEF UdpSent
  <2>2. /\ status = "UDP_FORWARD" /\ up_taken' = up_taken
        /\ UNCHANGED <<out_write_buf, to_server, downlink, account>>
    BY <1>15 DEF UdpSent
  <2>3. Live("udp_resolve") = 0
    <3>1. Live("udp_write") > 0
      BY <1>k, <1>o, CompletedDiffers DEF Live
    <3>2. /\ Live("in_read") \in Nat /\ Live("udp_resolve") \in Nat /\ Live("udp_write") \in Nat
          /\ Live("in_read") + Live("udp_resolve") + Live("udp_write") = 1
      BY <1>k, <2>2, LiveNat DEF OneInFlight
    <3> QED
      BY <3>1, <3>2
  <2>4. Reached \o << >> = Reached
    BY ReachedInt, ConcatEmptySeq
  <2>5. Reached \o udp_data_buf = Stream(up_taken')
    <3>1. Reached \o InHand \o udp_data_buf = Stream(up_taken)
      BY <2>2 DEF DataInv, UplinkComplete, Reached
    <3>2. InHand = << >>
      BY <2>3 DEF InHand
    <3> QED
      BY <2>2, <2>4, <3>1, <3>2
  <2>6. udp_data_buf \in Seq(Nat) /\ up_taken' <= MaxUp
    BY <1>m, <2>2 DEF Types
  <2> QED
    BY <2>1, <2>2, <2>3, <2>5, <2>6, UdpSentData
<1>16. CASE UdpRecv
  <2>1. Turn("udp_read", {"in_write"})
    BY <1>k, <1>t, <1>16 DEF UdpRecv, InAsyncWrite
  <2>2. Live("udp_resolve")' = Live("udp_resolve")
    BY <1>k, <1>n, <2>1
  <2> QED
    BY <1>16, <2>2, DownData DEF UdpRecv
<1>17. CASE Fail
  <2>1. \E o : Destroy(o)
    BY <1>17 DEF Fail
  <2> QED
    BY <1>17, <1>d, <2>1 DEF Fail
<1>18. CASE IgnoreAbort
  <2>1. status = "DESTROY"
    BY <1>k, <1>18, AtWork DEF IgnoreAbort
  <2> QED
    BY <1>18, <2>1, SameData DEF IgnoreAbort, closing, sockets
<1>19. CASE ShutdownDone
  <2>1. PICK k \in {"shutdown", "timer"} : \E o \in Completed(ops, k) : TRUE
    BY <1>19 DEF ShutdownDone
  <2>2. Live(k) > 0
    BY <1>k, <1>o, <2>1, CompletedDiffers DEF Live
  <2>3. status = "DESTROY"
    BY <2>2, AtWork
  <2> QED
    BY <1>19, <2>3, SameData DEF ShutdownDone
<1>20. CASE Perform
  <2>1. PICK k \in Kinds : ops["waiting"][k] > 0 /\ ops' = Add(Remove(ops, k, "waiting"), k, "ready")
    BY <1>20 DEF Perform
  <2>3. Differs(ops, Remove(ops, k, "waiting"), k, {})
    BY <1>k, <1>o, <2>1, RemoveDiffers
  <2>4. Differs(ops, ops', k, {} \cup {k})
    BY <1>k, <1>o, <2>1, <2>3, AddDiffers
  <2>5. \A j \in Kinds : Live(j)' = Live(j)
    BY <1>o, <2>4, TableNat DEF Differs, Live
  <2>6. Dial' = Dial /\ Live("http_write")' = Live("http_write")
        /\ Live("udp_resolve")' = Live("udp_resolve")
    BY <1>k, <2>5 DEF Dial
  <2> QED
    BY <1>20, <2>6, SameData DEF Perform, closing, sockets
<1>21. CASE UNCHANGED vars
  <2>1. \A j : Live(j)' = Live(j)
    BY <1>21 DEF vars, Live
  <2>2. Dial' = Dial
    BY <2>1 DEF Dial
  <2> QED
    BY <1>21, <2>1, <2>2, SameData DEF vars, closing, sockets
<1> QED
  BY <1>1, <1>2, <1>3, <1>4, <1>5, <1>6, <1>7, <1>8, <1>9, <1>10, <1>11, <1>12, <1>13,
     <1>14, <1>15, <1>16, <1>17, <1>18, <1>19, <1>20, <1>21 DEF Next

-----------------------------------------------------------------------------
(* The whole invariant.                                                    *)
SafetyInv == Types /\ ShapeInv /\ OneInFlight /\ DataInv

LEMMA SafetyInit == Init => SafetyInv
<1> SUFFICES ASSUME Init PROVE SafetyInv
  OBVIOUS
<1>1. PICK p \in {"waiting"} : ops = Add(NoOps(Kinds), "handshake", p)
  BY DEF Init, Begin
<1>k. "handshake" \in Kinds /\ p \in Phase /\ p \in Phase \ {"aborted"}
  BY KindsFacts
<1>2. IsOps(NoOps(Kinds), Kinds)
  BY NoOpsType
<1>3. IsOps(ops, Kinds)
  BY <1>1, <1>2, <1>k, AddType
<1>4. \A j \in Kinds : Outstanding(NoOps(Kinds), j) = 0
  BY KindsFacts DEF NoOps, Outstanding
<1>5. \A j \in Kinds : Live(j) = IF j = "handshake" THEN 1 ELSE 0
  <2>1. ASSUME NEW j \in Kinds
        PROVE  Live(j) = IF j = "handshake" THEN Outstanding(NoOps(Kinds), j) + 1
                                            ELSE Outstanding(NoOps(Kinds), j)
    BY <1>1, <1>2, <1>k, AddLive DEF Live
  <2> QED
    BY <1>4, <2>1
<1>6. \A j \in Kinds : ops["aborted"][j] = 0
  BY <1>1, KindsFacts DEF NoOps, Add
<1>7. /\ status = "HANDSHAKE" /\ in_open = TRUE /\ out_open = FALSE /\ udp_open = FALSE
      /\ auth_password = FALSE /\ late = FALSE
      /\ sent_len = 0 /\ recv_len = 0 /\ up_taken = 0 /\ down_taken = 0 /\ packet = 0
      /\ out_write_buf = << >> /\ udp_data_buf = << >> /\ to_server = << >>
      /\ to_client = << >> /\ recorded = << >>
  BY DEF Init
<1>8. Types
  <2>1. << >> \in Seq(Nat) /\ << >> \in Seq(Nat \X Nat)
    BY EmptySeq
  <2>2. ClosingOK /\ DataOK
    BY <1>7, <2>1 DEF ClosingOK, DataOK, Status
  <2> QED
    BY <1>3, <2>2, TypeParts
<1>9. Hello + Dial = 1 /\ Dial = 0 /\ Live("http_write") = 0
  BY <1>5, KindsIn DEF Hello, Dial
<1>10. ShapeInv /\ OneInFlight
  BY <1>5, <1>6, <1>7, <1>9, KindsIn DEF ShapeInv, OneInFlight, None
<1>11. Count(0) = << >>
  <2>1. Count(0) \in Seq(Int) /\ Len(Count(0)) = 0
    BY CountFacts
  <2> QED
    BY <2>1, EmptySeq
<1>12. DataInv
  BY <1>7, <1>9, <1>11, BoundsAssumption
     DEF DataInv, HelloInv, RelayInv, UplinkComplete, UsageRecorded
<1> QED
  BY <1>8, <1>10, <1>12 DEF SafetyInv

LEMMA SafetyStep ==
  ASSUME SafetyInv, [Next]_vars
  PROVE  SafetyInv'
<1>1. Types'
  BY TypeStep DEF SafetyInv
<1>2. ShapeInv' /\ OneInFlight'
  BY ShapeStep DEF SafetyInv
<1>3. DataInv'
  BY <1>1, DataStep DEF SafetyInv
<1> QED
  BY <1>1, <1>2, <1>3 DEF SafetyInv

(* Every step is a step of Relay, or changes nothing that Relay sees.      *)
LEMMA PacketRelayed ==
  ASSUME SafetyInv, to_server' = Reached \o <<packet>>, NEW rest \in Seq(Int),
         Reached \o <<packet>> \o rest = Stream(up_taken),
         status # "DESTROY", status' # "DESTROY", to_client' = to_client
  PROVE  R!Flush \/ R!Up
<1>1. Types /\ up_taken \in Nat /\ up_taken <= MaxUp /\ MaxUp \in Nat /\ packet \in Int
  BY BoundsAssumption DEF SafetyInv, Types, DataInv, RelayInv
<1>2. Reached \in Seq(Int) /\ Reached # << >>
  BY <1>1, ReachedInt
<1> DEFINE t == <<packet>> \o rest
           q == <<packet>>
<1>3. q \in Seq(Int) /\ Len(q) = 1 /\ q[1] = packet
  BY <1>1
<1>4. t \in Seq(Int) /\ t # << >> /\ Head(t) = packet
  <2> HIDE DEF q
  <2>1. /\ q \o rest \in Seq(Int) /\ Len(q \o rest) = Len(q) + Len(rest)
        /\ \A i \in 1..(Len(q) + Len(rest)) :
             (q \o rest)[i] = IF i <= Len(q) THEN q[i] ELSE rest[i - Len(q)]
    BY <1>3, ConcatInt
  <2>2. Len(rest) \in Nat
    BY LenProperties
  <2>3. Len(q \o rest) > 0 /\ (q \o rest)[1] = packet
    BY <1>3, <2>1, <2>2
  <2>4. q \o rest # << >>
    BY <2>1, <2>3, EmptySeq
  <2>5. Head(q \o rest) = (q \o rest)[1]
    BY <2>1, <2>4, HeadTailProperties
  <2> QED
    BY <2>1, <2>3, <2>4, <2>5 DEF q
<1>5. Reached \o t = Numbered(up_taken)
  <2>1. (Reached \o <<packet>>) \o rest = Reached \o t
    BY <1>2, <1>3, ConcatThree
  <2> QED
    BY <2>1, StreamIs
<1> HIDE DEF t, q
<1>6. packet = Len(Reached) /\ Len(Reached) <= up_taken /\ Len(Reached) \in Nat
  BY <1>1, <1>2, <1>4, <1>5, NumberedHead, LenProperties
<1>7. to_server' = Append(Reached, packet)
  BY <1>1, <1>2, AppendIsConcat
<1>8. CASE to_server = << >>
  <2>1. Reached = <<0>> /\ Len(<<0>>) = 1
    BY <1>8 DEF Reached
  <2>2. packet = 1 /\ 1 \in 0..MaxUp
    BY <1>1, <1>6, <2>1
  <2>3. to_server' = Append(Numbered(0), 1)
    BY <1>7, <2>1, <2>2, NumberedFirst
  <2>4. to_server' = Numbered(1)
    <3>1. 0 \in Nat /\ 0 + 1 = 1
      OBVIOUS
    <3>2. Append(Numbered(0), 0 + 1) = Numbered(0 + 1)
      BY <3>1, NumberedNext
    <3> QED
      BY <2>3, <3>1, <3>2
  <2>5. to_server' = [i \in 1..(1 + 1) |-> i - 1]
    BY <2>4 DEF Numbered
  <2> QED
    BY <1>8, <2>2, <2>5 DEF R!Flush
<1>9. CASE to_server # << >>
  <2>1. Reached = to_server
    BY <1>9 DEF Reached
  <2>2. Len(to_server) <= MaxUp
    BY <1>1, <1>6, <2>1
  <2> QED
    BY <1>6, <1>7, <1>9, <2>1, <2>2 DEF R!Up
<1> QED
  BY <1>8, <1>9

(* Who moves a piece, and that nobody revives a destroyed session.         *)
LEMMA Quiet ==
  ASSUME Types, ShapeInv, [Next]_vars,
         ~ InRecvForward, ~ Connected, ~ OutRecv, ~ UdpRecv, ~ ResolvedUdp
  PROVE  /\ UNCHANGED <<to_server, to_client>>
         /\ status = "DESTROY" => status' = "DESTROY"
<1> USE DEF vars, closing, uplink, downlink, Destroy, UdpSentWith
<1>1. CASE Handshaken \/ HttpRequest \/ HttpSent
  BY <1>1 DEF Handshaken, HttpRequest, HttpSent
<1>2. CASE InRecvStream
  BY <1>2 DEF InRecvStream
<1>3. CASE InRecvAssociate
  BY <1>3 DEF InRecvAssociate
<1>4. CASE InRecvUdpForward
  BY <1>4 DEF InRecvUdpForward
<1>5. CASE Dropped \/ OutSent \/ InSent
  BY <1>5 DEF Dropped, OutSent, InSent
<1>6. CASE Resolved
  BY <1>6 DEF Resolved
<1>7. CASE UdpSent
  BY <1>7 DEF UdpSent
<1>8. CASE Fail
  BY <1>8 DEF Fail
<1>9. CASE IgnoreAbort \/ ShutdownDone \/ Perform
  BY <1>9 DEF IgnoreAbort, ShutdownDone, Perform
<1>10. CASE UNCHANGED vars
  BY <1>10
<1> QED
  BY <1>1, <1>2, <1>3, <1>4, <1>5, <1>6, <1>7, <1>8, <1>9, <1>10 DEF Next

LEMMA RelayStep ==
  ASSUME SafetyInv, SafetyInv', [Next]_vars
  PROVE  R!Next \/ UNCHANGED <<to_server, to_client, (status # "DESTROY")>>
<1>1. Types /\ ShapeInv /\ OneInFlight /\ DataInv
  BY DEF SafetyInv
<1>2. CASE InRecvForward
  <2>1. /\ to_server' = Append(to_server, Len(to_server)) /\ Len(to_server) <= MaxUp
        /\ to_server # << >>
    BY <1>1, <1>2, UpData
  <2>2. status = "FORWARD" /\ status' = "FORWARD" /\ to_client' = to_client
    BY <1>2 DEF InRecvForward, closing, downlink
  <2> QED
    BY <2>1, <2>2 DEF R!Next, R!Up
<1>3. CASE Connected
  <2>1. to_server = << >> /\ to_server' = Stream(up_taken) /\ up_taken <= MaxUp
    BY <1>1, <1>3, ConnectedData
  <2>2. Live("connect") > 0
    BY <1>1, <1>3, CompletedDiffers, KindsIn DEF Connected, Types, Live
  <2>3. status = "HANDSHAKE" /\ status' = "FORWARD" /\ to_client' = to_client
    BY <1>1, <1>3, <2>2, AtWork DEF DialOps, Connected, downlink
  <2>4. up_taken \in 0..MaxUp
    BY <1>1, <2>1, BoundsAssumption DEF Types
  <2> QED
    BY <2>1, <2>3, <2>4 DEF R!Next, R!Flush, Stream
<1>4. CASE OutRecv \/ UdpRecv
  <2>1. /\ status \in {"FORWARD", "UDP_FORWARD"} /\ down_taken < MaxDown
        /\ down_taken' = down_taken + 1 /\ to_client' = Append(to_client, down_taken')
        /\ status' = status /\ to_server' = to_server
    BY <1>4 DEF OutRecv, UdpRecv, closing, uplink
  <2>2. to_client = Count(down_taken) /\ down_taken \in Nat
    BY <1>1 DEF DataInv, RelayInv, Types
  <2>3. Len(to_client) = down_taken
    BY <2>2, CountFacts
  <2>4. to_server # << >>
    <3>1. CASE status = "FORWARD"
      <4>1. to_server = Numbered(up_taken) /\ up_taken \in Nat
        BY <1>1, <3>1, StreamIs DEF DataInv, UplinkComplete, Types
      <4> QED
        BY <4>1, NumberedFacts
    <3>2. CASE status = "UDP_FORWARD"
      <4>1. UdpRecv
        BY <1>4, <3>2 DEF OutRecv
      <4>2. Live("udp_read") > 0
        BY <1>1, <4>1, CompletedDiffers, KindsIn DEF UdpRecv, Types, Live
      <4>3. Live("udp_read") \in Nat /\ Live("in_write") \in Nat
        BY <1>1, LiveNat, KindsIn
      <4>4. udp_open
        BY <1>1, <3>2, <4>2, <4>3 DEF OneInFlight
      <4> QED
        BY <1>1, <3>2, <4>4 DEF DataInv, RelayInv
    <3> QED
      BY <2>1, <3>1, <3>2
  <2> QED
    BY <2>1, <2>3, <2>4 DEF R!Next, R!Down
<1>5. CASE ResolvedUdp
  <2> DEFINE o == Remove(ops, "udp_resolve", "ready")
  <2>1. Live("udp_resolve") > 0
    <3>1. /\ ops["ready"]["udp_resolve"] > 0 /\ "udp_resolve" \in Kinds
          /\ "ready" \in Phase \ {"aborted"} /\ IsOps(ops, Kinds)
      BY <1>1, <1>5, KindsIn DEF ResolvedUdp, Types
    <3> QED
      BY <3>1, RemoveDiffers DEF Live
  <2>2. \/ Destroy(o) /\ UNCHANGED to_server
        \/ status' = status /\ SendPacket
    BY <1>5 DEF ResolvedUdp
  <2>3. to_client' = to_client
    BY <1>5 DEF ResolvedUdp, downlink
  <2> HIDE DEF o
  <2>4. CASE Destroy(o) /\ UNCHANGED to_server
    <3>1. status' = "DESTROY"
      BY <2>4 DEF Destroy, closing
    <3> QED
      BY <2>3, <2>4, <3>1 DEF R!Next, R!Close
  <2>5. CASE status' = status /\ SendPacket /\ status = "DESTROY"
    BY <2>3, <2>5 DEF SendPacket
  <2>6. CASE status' = status /\ SendPacket /\ status # "DESTROY"
    <3>1. status = "UDP_FORWARD"
      BY <1>1, <2>1, <2>6, AtWork
    <3>2. InHand = <<packet>>
      BY <2>1 DEF InHand
    <3>3. Reached \o <<packet>> \o udp_data_buf = Stream(up_taken)
      BY <1>1, <3>1, <3>2 DEF DataInv, UplinkComplete, Reached
    <3>4. to_server' = Reached \o <<packet>>
      BY <2>6 DEF SendPacket, Reached
    <3>5. udp_data_buf \in Seq(Int)
      BY <1>1, NatSeq DEF Types
    <3>6. R!Flush \/ R!Up
      BY <2>3, <2>6, <3>3, <3>4, <3>5, PacketRelayed
    <3> QED
      BY <3>6 DEF R!Next
  <2> QED
    BY <2>2, <2>4, <2>5, <2>6
<1>6. CASE ~ (InRecvForward \/ Connected \/ OutRecv \/ UdpRecv \/ ResolvedUdp)
  <2>1. /\ UNCHANGED <<to_server, to_client>>
        /\ status = "DESTROY" => status' = "DESTROY"
    BY <1>1, <1>6, Quiet
  <2>2. CASE status # "DESTROY" /\ status' = "DESTROY"
    BY <2>1, <2>2 DEF R!Next, R!Close
  <2>3. CASE ~ (status # "DESTROY" /\ status' = "DESTROY")
    BY <2>1, <2>3
  <2> QED
    BY <2>2, <2>3
<1> QED
  BY <1>2, <1>3, <1>4, <1>5, <1>6

-----------------------------------------------------------------------------
(* What a destroyed session still has.  That no lookup of a stream is left *)
(* is said by ShapeInv.                                                    *)
ClosedInv == status = "DESTROY" => ~ out_open /\ ops["waiting"]["udp_resolve"] = 0

(* Starting an operation of another kind leaves the lookups alone.         *)
LEMMA AddLookups ==
  ASSUME NEW o, IsOps(o, Kinds), NEW k \in Kinds \ {"udp_resolve"}, NEW p \in Phase
  PROVE  /\ IsOps(Add(o, k, p), Kinds)
         /\ Add(o, k, p)["waiting"]["udp_resolve"] = o["waiting"]["udp_resolve"]
<1>1. "udp_resolve" \in Kinds
  BY KindsIn
<1> QED
  BY <1>1, AddType, AddWaiting

(* destroy() cancels them.                                                 *)
LEMMA DestroyCloses ==
  ASSUME NEW o, IsOps(o, Kinds), status # "DESTROY", Destroy(o)
  PROVE  ~ out_open' /\ ops'["waiting"]["udp_resolve"] = 0
<1> DEFINE j == "udp_resolve"
           l == LookupsCancelled(o)
           c == Cancel(l, OutOps)
           u == Cancel(c, UdpOps)
           all == Cancel(u, InOps)
<1>1. j \in Kinds /\ "shutdown" \in Kinds \ {j} /\ "timer" \in Kinds \ {j} /\ "waiting" \in Phase
  BY KindsIn
<1>2. IsOps(l, Kinds) /\ l["waiting"][j] = 0
  BY <1>1, CancelType, CancelLive DEF LookupsCancelled
<1> HIDE DEF l, j
<1>3. IsOps(c, Kinds) /\ c["waiting"][j] = 0
  BY <1>1, <1>2, CancelType, CancelLive
<1> HIDE DEF c
<1>4. IsOps(u, Kinds) /\ u["waiting"][j] = 0
  BY <1>1, <1>3, CancelType, CancelLive
<1> HIDE DEF u
<1>5. IsOps(all, Kinds) /\ all["waiting"][j] = 0
  BY <1>1, <1>4, CancelType, CancelLive
<1> HIDE DEF all
<1>6. ASSUME NEW s \in Begin(all, "shutdown", TRUE, TRUE)
      PROVE  Add(s, "timer", "waiting")["waiting"][j] = 0
  <2>1. PICK p \in Phase : s = Add(all, "shutdown", p)
    BY DEF Begin, Phase
  <2>2. IsOps(s, Kinds) /\ s["waiting"][j] = 0
    BY <1>1, <1>5, <2>1, AddLookups DEF j
  <2> QED
    BY <1>1, <2>2, AddLookups DEF j
<1>7. ops' \in Shutdown(u) /\ out_open' = FALSE
  BY DEF Destroy, UdpClosed, u, c, l
<1> QED
  BY <1>6, <1>7 DEF Shutdown, all, j

(* Where destroy() is called.                                              *)
LEMMA WhoDestroys ==
  ASSUME Types, [Next]_vars, status # "DESTROY", status' = "DESTROY"
  PROVE  \E o : IsOps(o, Kinds) /\ Destroy(o)
<1>o. IsOps(ops, Kinds)
  BY DEF Types
<1>c. \A k \in Kinds : \A o \in Completed(ops, k) : IsOps(o, Kinds)
  BY <1>o, CompletedType
<1>r. \A k \in Kinds : \A p \in Phase : ops[p][k] > 0 => IsOps(Remove(ops, k, p), Kinds)
  BY <1>o, RemoveType
<1>u. \A o, buf : UdpSentWith(o, buf) => Destroy(o)
  BY DEF UdpSentWith
<1>1. CASE HttpSent
  BY <1>c, <1>1, KindsIn DEF HttpSent
<1>2. CASE InRecvAssociate
  BY <1>c, <1>u, <1>2, KindsIn DEF InRecvAssociate
<1>3. CASE InRecvUdpForward
  BY <1>c, <1>u, <1>3, KindsIn DEF InRecvUdpForward
<1>4. CASE UdpSent
  BY <1>c, <1>u, <1>4, KindsIn DEF UdpSent
<1>5. CASE Resolved
  <2>1. IsOps(Remove(ops, "resolve", "ready"), Kinds)
    BY <1>r, <1>5, KindsIn DEF Resolved
  <2> QED
    BY <1>5, <2>1 DEF Resolved
<1>6. CASE ResolvedUdp
  <2>1. IsOps(Remove(ops, "udp_resolve", "ready"), Kinds)
    BY <1>r, <1>6, KindsIn DEF ResolvedUdp
  <2> QED
    BY <1>6, <2>1 DEF ResolvedUdp
<1>7. CASE Fail
  <2>1. PICK k \in Kinds \ {"shutdown", "timer"}, p \in {"waiting", "failed", "aborted"} :
          ops[p][k] > 0 /\ Destroy(Remove(ops, k, p))
    BY <1>7 DEF Fail
  <2>2. IsOps(Remove(ops, k, p), Kinds)
    BY <1>r, <2>1, KindsIn
  <2> QED
    BY <2>1, <2>2
<1>8. CASE Handshaken \/ HttpRequest \/ InRecvStream \/ InRecvForward \/ Dropped \/ OutSent
           \/ OutRecv \/ InSent \/ UdpRecv \/ IgnoreAbort \/ Perform
  BY <1>8 DEF Handshaken, HttpRequest, InRecvStream, InRecvForward, Dropped, OutSent, OutRecv,
              InSent, UdpRecv, IgnoreAbort, Perform, closing
<1>9. CASE Connected \/ ShutdownDone \/ UNCHANGED vars
  BY <1>9 DEF Connected, ShutdownDone, vars, closing
<1> QED
  BY <1>1, <1>2, <1>3, <1>4, <1>5, <1>6, <1>7, <1>8, <1>9 DEF Next

(* A destroyed session starts no lookup and opens no connection.           *)
LEMMA NothingDialled ==
  ASSUME Types, ShapeInv, [Next]_vars, status = "DESTROY", status' = "DESTROY"
  PROVE  /\ ops'["waiting"]["udp_resolve"] <= ops["waiting"]["udp_resolve"]
         /\ out_open' = out_open \/ out_open' = FALSE
<1> DEFINE j == "udp_resolve"
<1>o. IsOps(ops, Kinds) /\ ops["waiting"][j] \in Nat /\ j \in Kinds
  BY KindsIn, TableNat DEF Types
<1>c. \A k \in Kinds : \A o \in Completed(ops, k) :
        IsOps(o, Kinds) /\ o["waiting"][j] <= ops["waiting"][j]
  BY <1>o, CompletedType, CompletedWaiting
<1>r. \A k \in Kinds : \A p \in Phase : ops[p][k] > 0 =>
        IsOps(Remove(ops, k, p), Kinds) /\ Remove(ops, k, p)["waiting"][j] <= ops["waiting"][j]
  BY <1>o, RemoveType, RemoveWaiting
<1>d. \A o : Destroy(o) => ops' = o /\ UNCHANGED closing
  BY DEF Destroy
<1>1. CASE Handshaken
  <2>1. PICK o \in Completed(ops, "handshake") : ops' \in InAsyncRead(o)
    BY <1>1 DEF Handshaken
  <2>2. PICK p \in Phase : ops' = Add(o, "in_read", p)
    BY <2>1 DEF InAsyncRead, Begin, Phase
  <2>3. IsOps(o, Kinds) /\ o["waiting"][j] <= ops["waiting"][j]
    BY <1>c, KindsIn
  <2>4. ops'["waiting"][j] = o["waiting"][j]
    BY <2>2, <2>3, KindsIn, AddLookups
  <2> QED
    BY <1>1, <2>3, <2>4 DEF Handshaken, closing, sockets
<1>2. CASE HttpRequest
  <2> DEFINE o == Remove(ops, "handshake", "waiting")
  <2>1. ops["waiting"]["handshake"] > 0 /\ ops' \in Begin(o, "http_write", in_open, TRUE)
    BY <1>2 DEF HttpRequest
  <2>2. PICK p \in Phase : ops' = Add(o, "http_write", p)
    BY <2>1 DEF Begin, Phase
  <2>3. IsOps(o, Kinds) /\ o["waiting"][j] <= ops["waiting"][j]
    BY <1>r, <2>1, KindsIn
  <2> HIDE DEF o
  <2>4. ops'["waiting"][j] = o["waiting"][j]
    BY <2>2, <2>3, KindsIn, AddLookups
  <2> QED
    BY <1>2, <2>3, <2>4 DEF HttpRequest, closing, sockets
<1>3. CASE HttpSent
  BY <1>3, <1>c, <1>d, KindsIn DEF HttpSent, closing, sockets
<1>4. CASE Dropped
  <2>1. PICK k \in {"in_read", "in_write", "out_read", "out_write"} \cup UdpOps :
          ops' \in Completed(ops, k)
    BY <1>4 DEF Dropped
  <2>2. k \in Kinds
    BY KindsFacts DEF UdpOps
  <2> QED
    BY <1>4, <1>c, <2>1, <2>2 DEF Dropped, closing, sockets
<1>5. CASE Resolved
  <2>1. Live("resolve") = 0
    BY DEF ShapeInv, None, DialOps
  <2>2. Live("resolve") > 0
    <3>1. /\ ops["waiting"]["resolve"] \in Nat /\ ops["ready"]["resolve"] \in Nat
          /\ ops["failed"]["resolve"] \in Nat
      BY <1>o, KindsIn, TableNat
    <3> QED
      BY <1>5, <3>1 DEF Resolved, Live, Outstanding
  <2> QED
    BY <2>1, <2>2
<1>6. CASE ResolvedUdp
  <2> DEFINE o == Remove(ops, "udp_resolve", "ready")
  <2>1. IsOps(o, Kinds) /\ o["waiting"][j] <= ops["waiting"][j]
    BY <1>6, <1>r, KindsIn DEF ResolvedUdp
  <2> HIDE DEF o
  <2>2. CASE Destroy(o)
    BY <1>d, <2>1, <2>2 DEF closing, sockets
  <2>3. CASE /\ udp_open' = TRUE /\ UNCHANGED <<status, in_open, out_open, recorded>>
             /\ \E r \in IF udp_open THEN {o} ELSE UdpAsyncRead(o) : ops' \in UdpAsyncWrite(r)
    <3>1. PICK r \in IF udp_open THEN {o} ELSE UdpAsyncRead(o) : ops' \in UdpAsyncWrite(r)
      BY <2>3
    <3>2. r = o \/ \E p \in Phase : r = Add(o, "udp_read", p)
      BY <3>1 DEF UdpAsyncRead, Begin, Phase
    <3>3. IsOps(r, Kinds) /\ r["waiting"][j] = o["waiting"][j]
      <4>1. "udp_read" \in Kinds \ {"udp_resolve"}
        BY KindsIn
      <4> QED
        BY <2>1, <3>2, <4>1, AddLookups
    <3>4. PICK p \in Phase : ops' = Add(r, "udp_write", p)
      BY <3>1 DEF UdpAsyncWrite, Begin, Phase
    <3>5. ops'["waiting"][j] = r["waiting"][j]
      BY <3>3, <3>4, KindsIn, AddLookups
    <3> QED
      BY <2>1, <2>3, <3>3, <3>5
  <2> QED
    BY <1>6, <2>2, <2>3 DEF ResolvedUdp, o
<1>7. CASE Fail
  <2>1. PICK k \in Kinds \ {"shutdown", "timer"}, p \in {"waiting", "failed", "aborted"} :
          ops[p][k] > 0 /\ Destroy(Remove(ops, k, p))
    BY <1>7 DEF Fail
  <2> QED
    BY <1>r, <1>d, <2>1, KindsIn DEF closing, sockets
<1>8. CASE IgnoreAbort
  <2>1. PICK k \in {"shutdown", "timer"} :
          ops["aborted"][k] > 0 /\ ops' = Remove(ops, k, "aborted")
    BY <1>8 DEF IgnoreAbort
  <2> QED
    BY <1>8, <1>r, <2>1, KindsIn DEF IgnoreAbort, closing, sockets
<1>9. CASE ShutdownDone
  <2>1. PICK k \in {"shutdown", "timer"} : \E o \in Completed(ops, k) :
          ops' = Cancel(o, InOps \cup {"timer"})
    BY <1>9 DEF ShutdownDone
  <2>2. PICK o \in Completed(ops, k) : ops' = Cancel(o, InOps \cup {"timer"})
    BY <2>1
  <2>3. IsOps(o, Kinds) /\ o["waiting"][j] <= ops["waiting"][j]
    BY <1>c, KindsIn
  <2>4. ops'["waiting"][j] = o["waiting"][j]
    BY <1>o, <2>2, <2>3, CancelLive DEF InOps
  <2> QED
    BY <1>9, <2>3, <2>4 DEF ShutdownDone
<1>10. CASE Perform
  <2>1. PICK k \in Kinds : ops["waiting"][k] > 0 /\ ops' = Add(Remove(ops, k, "waiting"), k, "ready")
    BY <1>10 DEF Perform
  <2> DEFINE o == Remove(ops, k, "waiting")
  <2>2. IsOps(o, Kinds) /\ o["waiting"][j] <= ops["waiting"][j]
    BY <1>r, <2>1, KindsIn
  <2> HIDE DEF o
  <2>3. Add(o, k, "ready")["waiting"][j] = o["waiting"][j]
    BY <1>o, <2>2, KindsIn, AddWaiting
  <2> QED
    BY <1>10, <2>1, <2>2, <2>3 DEF Perform, closing, sockets, o
<1>11. CASE InRecvStream \/ InRecvAssociate \/ InRecvForward \/ InRecvUdpForward \/ Connected
            \/ OutSent \/ OutRecv \/ InSent \/ UdpSent \/ UdpRecv
  BY <1>11 DEF InRecvStream, InRecvAssociate, InRecvForward, InRecvUdpForward, Connected,
               OutSent, OutRecv, InSent, UdpSent, UdpRecv
<1>12. CASE UNCHANGED vars
  BY <1>o, <1>12 DEF vars, closing, sockets
<1> QED
  BY <1>1, <1>2, <1>3, <1>4, <1>5, <1>6, <1>7, <1>8, <1>9, <1>10, <1>11, <1>12 DEF Next

LEMMA ClosedStep ==
  ASSUME Types, Types', ShapeInv, ClosedInv, [Next]_vars
  PROVE  ClosedInv'
<1> SUFFICES ASSUME status' = "DESTROY"
             PROVE  ~ out_open' /\ ops'["waiting"]["udp_resolve"] = 0
  BY DEF ClosedInv
<1>1. CASE status = "DESTROY"
  <2>0. ops["waiting"]["udp_resolve"] = 0 /\ ~ out_open
    BY <1>1 DEF ClosedInv
  <2>1. /\ ops'["waiting"]["udp_resolve"] <= 0
        /\ out_open' = out_open \/ out_open' = FALSE
    BY <1>1, <2>0, NothingDialled
  <2>2. ops'["waiting"]["udp_resolve"] \in Nat
    BY KindsIn, TableNat DEF Types
  <2> QED
    BY <2>0, <2>1, <2>2
<1>2. CASE status # "DESTROY"
  BY <1>2, WhoDestroys, DestroyCloses
<1> QED
  BY <1>1, <1>2

(* Every state of a session is well typed; and a destroyed session has     *)
(* closed its socket to the destination and waits for no resolver.         *)
THEOREM TypeCorrect == Spec => []TypeOK
<1>1. SafetyInv /\ [Next]_vars => SafetyInv'
  BY SafetyStep
<1>2. Init => ClosedInv
  BY DEF Init, ClosedInv
<1>3. SafetyInv /\ SafetyInv' /\ ClosedInv /\ [Next]_vars => ClosedInv'
  BY ClosedStep DEF SafetyInv
<1>4. SafetyInv /\ ClosedInv => TypeOK
  <2> SUFFICES ASSUME SafetyInv, ClosedInv PROVE TypeOK
    OBVIOUS
  <2>1. status = "DESTROY" => ops["waiting"]["resolve"] = 0
    <3>1. /\ ops["waiting"]["resolve"] \in Nat /\ ops["ready"]["resolve"] \in Nat
          /\ ops["failed"]["resolve"] \in Nat
      BY KindsIn, TableNat DEF SafetyInv, Types
    <3>2. status = "DESTROY" => Live("resolve") = 0
      BY DEF SafetyInv, ShapeInv, None, DialOps
    <3> QED
      BY <3>1, <3>2 DEF Live, Outstanding
  <2> QED
    BY <2>1 DEF TypeOK, SafetyInv, ClosedInv
<1> QED
  BY <1>1, <1>2, <1>3, <1>4, SafetyInit, PTL DEF Spec

(* Of each direction exactly one read, lookup or write is under way while  *)
(* the session forwards: no handler starts a second one.                   *)
THEOREM OneInFlightAlways == Spec => []OneInFlight
<1>1. SafetyInv /\ [Next]_vars => SafetyInv'
  BY SafetyStep
<1>2. SafetyInv => OneInFlight
  BY DEF SafetyInv
<1> QED
  BY <1>1, <1>2, SafetyInit, PTL DEF Spec

(* The payload of the request, the packets that came in one read and those *)
(* whose destination is being looked up reach the destination once and in  *)
(* order.                                                                  *)
THEOREM UplinkNeverLoses == Spec => []UplinkComplete
<1>1. SafetyInv /\ [Next]_vars => SafetyInv'
  BY SafetyStep
<1>2. SafetyInv => UplinkComplete
  BY DEF SafetyInv, DataInv
<1> QED
  BY <1>1, <1>2, SafetyInit, PTL DEF Spec

(* destroy() charges a user of the Authenticator once, with the lengths    *)
(* that were relayed, however the session ends and whatever its queued     *)
(* handlers do afterwards.                                                 *)
THEOREM ChargedOnce == Spec => []UsageRecorded
<1>1. SafetyInv /\ [Next]_vars => SafetyInv'
  BY SafetyStep
<1>2. SafetyInv => UsageRecorded
  BY DEF SafetyInv, DataInv
<1> QED
  BY <1>1, <1>2, SafetyInit, PTL DEF Spec

(* The session implements Relay: each handler connects and hands on the    *)
(* first flight, relays one piece up or down, ends the session for good,   *)
(* or does nothing that the two ends see.                                  *)
THEOREM RelayImplemented == Spec => ImplementsRelay
<1>1. SafetyInv /\ [Next]_vars => SafetyInv'
  BY SafetyStep
<1>2. Init => R!Init
  BY DEF Init, R!Init
<1>3. SafetyInv /\ SafetyInv' /\ [Next]_vars =>
        [R!Next]_<<to_server, to_client, (status # "DESTROY")>>
  BY RelayStep
<1> QED
  BY <1>1, <1>2, <1>3, SafetyInit, PTL DEF Spec, ImplementsRelay, R!Spec
=============================================================================
