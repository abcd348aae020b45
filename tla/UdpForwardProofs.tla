-------------------------- MODULE UdpForwardProofs --------------------------
(* Theorems about UdpForward, for all values of its constants.             *)
EXTENDS UdpForward, AsioProofs, SequenceTheorems

LEMMA KindsFacts ==
  /\ Kinds = {"connect", "handshake", "out_read", "out_write", "shutdown",
              "resolve", "gc", "timer"}
  /\ OutOps = {"connect", "handshake", "out_read", "out_write", "shutdown"}
  /\ Phase = {"waiting", "ready", "failed", "aborted"}
BY DEF Kinds, OutOps, Phase

(* What the invariant counts in an operation table: the step of the chain  *)
(* resolve, connect, handshake that is outstanding, and the writes whose   *)
(* handler has not run.                                                    *)
ChainOps == {"resolve", "connect", "handshake"}
Chain(o) == Outstanding(o, "resolve") + Outstanding(o, "connect") + Outstanding(o, "handshake")
Writes(o) == Pending(o, "out_write")

(* A handler, or part of one, that adds at most c steps to the chain and w *)
(* writes; and one that does not touch the waits of the gc_timer.          *)
Effect(o, r, c, w) ==
  /\ IsOps(o, Kinds) /\ IsOps(r, Kinds)
  /\ Chain(o) \in Nat /\ Chain(r) \in Nat /\ Writes(o) \in Nat /\ Writes(r) \in Nat
  /\ Chain(r) <= Chain(o) + c
  /\ Writes(r) = Writes(o) + w

SameIdle(o, r) ==
  r["waiting"]["gc"] = o["waiting"]["gc"] /\ Outstanding(r, "gc") = Outstanding(o, "gc")

LEMMA CountsNat ==
  ASSUME NEW o, IsOps(o, Kinds)
  PROVE  Chain(o) \in Nat /\ Writes(o) \in Nat
<1>1. \A k \in Kinds : Outstanding(o, k) \in Nat /\ Pending(o, k) \in Nat
  BY OutstandingNat, PendingNat
<1> QED
  BY <1>1, KindsFacts DEF Chain, Writes

LEMMA AddEffect ==
  ASSUME NEW o, IsOps(o, Kinds), NEW k \in Kinds, NEW p \in Phase \ {"aborted"}
  PROVE  /\ Effect(o, Add(o, k, p), IF k \in ChainOps THEN 1 ELSE 0,
                   IF k = "out_write" THEN 1 ELSE 0)
         /\ k # "gc" => SameIdle(o, Add(o, k, p))
<1> USE KindsFacts
<1>1. IsOps(Add(o, k, p), Kinds)
  BY AddType
<1>2. \A j \in Kinds :
        /\ Outstanding(Add(o, k, p), j) = IF j = k THEN Outstanding(o, j) + 1 ELSE Outstanding(o, j)
        /\ Pending(Add(o, k, p), j) = IF j = k THEN Pending(o, j) + 1 ELSE Pending(o, j)
        /\ Outstanding(o, j) \in Nat /\ Pending(o, j) \in Nat
  <2>1. \A j \in Kinds :
          Outstanding(Add(o, k, p), j) = IF j = k THEN Outstanding(o, j) + 1 ELSE Outstanding(o, j)
    BY AddLive
  <2>2. \A j \in Kinds :
          Pending(Add(o, k, p), j) = IF j = k THEN Pending(o, j) + 1 ELSE Pending(o, j)
    BY AddPending
  <2>3. \A j \in Kinds : Outstanding(o, j) \in Nat /\ Pending(o, j) \in Nat
    BY OutstandingNat, PendingNat
  <2> QED
    BY <2>1, <2>2, <2>3
<1>3. Chain(Add(o, k, p)) = Chain(o) + IF k \in ChainOps THEN 1 ELSE 0
  BY <1>2 DEF Chain, ChainOps
<1>4. k # "gc" => Add(o, k, p)["waiting"]["gc"] = o["waiting"]["gc"]
  BY DEF Add, IsOps
<1>5. Writes(Add(o, k, p)) = Writes(o) + IF k = "out_write" THEN 1 ELSE 0
  BY <1>2 DEF Writes
<1>6. k # "gc" => SameIdle(o, Add(o, k, p))
  BY <1>2, <1>4 DEF SameIdle
<1>7. /\ Chain(o) \in Nat /\ Chain(Add(o, k, p)) \in Nat
      /\ Writes(o) \in Nat /\ Writes(Add(o, k, p)) \in Nat
  BY <1>1, CountsNat
<1>8. /\ Chain(Add(o, k, p)) <= Chain(o) + IF k \in ChainOps THEN 1 ELSE 0
  BY <1>3, <1>7
<1> QED
  BY <1>1, <1>5, <1>6, <1>7, <1>8 DEF Effect

LEMMA BeginEffect ==
  ASSUME NEW o, IsOps(o, Kinds), NEW k \in Kinds, NEW open, NEW atOnce,
         NEW r \in Begin(o, k, open, atOnce)
  PROVE  /\ Effect(o, r, IF k \in ChainOps THEN 1 ELSE 0, IF k = "out_write" THEN 1 ELSE 0)
         /\ k # "gc" => SameIdle(o, r)
<1>1. PICK p \in Phase \ {"aborted"} : r = Add(o, k, p)
  BY DEF Begin, Phase
<1> QED
  BY <1>1, AddEffect

LEMMA RemoveEffect ==
  ASSUME NEW o, IsOps(o, Kinds), NEW k \in Kinds, NEW p \in Phase, o[p][k] > 0
  PROVE  /\ Effect(o, Remove(o, k, p), 0, IF k = "out_write" THEN -1 ELSE 0)
         /\ k \in ChainOps /\ p # "aborted" =>
              /\ Effect(o, Remove(o, k, p), -1, 0)
              /\ Chain(o) > 0
         /\ k # "gc" \/ p = "aborted" => SameIdle(o, Remove(o, k, p))
<1> USE KindsFacts
<1>1. IsOps(Remove(o, k, p), Kinds)
  BY RemoveType
<1>2. \A j \in Kinds :
        /\ Outstanding(Remove(o, k, p), j) =
             IF j = k /\ p # "aborted" THEN Outstanding(o, j) - 1 ELSE Outstanding(o, j)
        /\ Pending(Remove(o, k, p), j) = IF j = k THEN Pending(o, j) - 1 ELSE Pending(o, j)
        /\ Outstanding(o, j) \in Nat /\ Pending(o, j) \in Nat
  <2>1. \A j \in Kinds :
          Outstanding(Remove(o, k, p), j) =
             IF j = k /\ p # "aborted" THEN Outstanding(o, j) - 1 ELSE Outstanding(o, j)
    BY DEF IsOps, Remove, Outstanding
  <2> QED
    BY <2>1, RemovePending, OutstandingNat, PendingNat
<1>3. p # "aborted" => Outstanding(o, k) > 0
  BY DEF IsOps, Outstanding
<1>4. /\ Chain(Remove(o, k, p)) = Chain(o) - IF k \in ChainOps /\ p # "aborted" THEN 1 ELSE 0
      /\ k \in ChainOps /\ p # "aborted" => Chain(o) > 0
  <2>1. CASE k \in ChainOps /\ p # "aborted"
    BY <1>2, <1>3, <2>1 DEF Chain, ChainOps
  <2>2. CASE ~ (k \in ChainOps /\ p # "aborted")
    <3>1. \A j \in ChainOps : Outstanding(Remove(o, k, p), j) = Outstanding(o, j)
      BY <1>2, <2>2 DEF ChainOps
    <3>2. Chain(o) \in Nat
      BY CountsNat
    <3> QED
      BY <2>2, <3>1, <3>2 DEF Chain, ChainOps
  <2> QED
    BY <2>1, <2>2
<1>5. k # "gc" \/ p = "aborted" => Remove(o, k, p)["waiting"]["gc"] = o["waiting"]["gc"]
  BY DEF Remove, IsOps
<1>6. Writes(Remove(o, k, p)) = Writes(o) - IF k = "out_write" THEN 1 ELSE 0
  BY <1>2 DEF Writes
<1>7. k \in ChainOps => k # "out_write"
  BY DEF ChainOps
<1> QED
  BY <1>1, <1>2, <1>4, <1>5, <1>6, <1>7, CountsNat DEF Effect, SameIdle

LEMMA CompletedEffect ==
  ASSUME NEW o, IsOps(o, Kinds), NEW k \in Kinds, NEW r \in Completed(o, k)
  PROVE  /\ Effect(o, r, IF k \in ChainOps THEN -1 ELSE 0, IF k = "out_write" THEN -1 ELSE 0)
         /\ k \in ChainOps => Chain(o) > 0
         /\ k # "gc" => SameIdle(o, r)
<1>1. PICK p \in {"waiting", "ready"} : o[p][k] > 0 /\ r = Remove(o, k, p)
  BY DEF Completed
<1>2. p \in Phase /\ p # "aborted" /\ (k \in ChainOps => k # "out_write")
  BY DEF Phase, ChainOps
<1> QED
  BY <1>1, <1>2, RemoveEffect

LEMMA CancelEffect ==
  ASSUME NEW o, IsOps(o, Kinds), NEW S
  PROVE  /\ Effect(o, Cancel(o, S), 0, 0)
         /\ "gc" \notin S => SameIdle(o, Cancel(o, S))
<1> USE KindsFacts
<1>1. IsOps(Cancel(o, S), Kinds)
  BY CancelType
<1>2. \A j \in Kinds :
        /\ Outstanding(Cancel(o, S), j) <= Outstanding(o, j)
        /\ Pending(Cancel(o, S), j) = Pending(o, j)
        /\ j \notin S => \A p \in Phase : Cancel(o, S)[p][j] = o[p][j]
        /\ Outstanding(o, j) \in Nat /\ Outstanding(Cancel(o, S), j) \in Nat
  BY <1>1, CancelPending, OutstandingNat
<1>3. Chain(Cancel(o, S)) <= Chain(o)
  BY <1>2 DEF Chain
<1>4. "gc" \notin S => SameIdle(o, Cancel(o, S))
  BY <1>2 DEF SameIdle, Outstanding
<1> QED
  BY <1>1, <1>2, <1>3, <1>4, CountsNat DEF Effect, Writes

(* timer_async_wait leaves one wait of the gc_timer.                       *)
LEMMA ArmEffect ==
  ASSUME NEW o, IsOps(o, Kinds)
  PROVE  /\ Effect(o, Arm(o), 0, 0)
         /\ Arm(o)["waiting"]["gc"] = 1 /\ Outstanding(Arm(o), "gc") > 0
<1> USE KindsFacts
<1> DEFINE c == Cancel(o, {"gc"})
<1>1. Effect(o, c, 0, 0)
  BY CancelEffect
<1>2. IsOps(c, Kinds)
  BY <1>1 DEF Effect
<1>3. c["waiting"]["gc"] = 0
  BY CancelLive
<1> HIDE DEF c
<1>4. Effect(c, Add(c, "gc", "waiting"), 0, 0)
  BY <1>2, AddEffect DEF ChainOps
<1>5. /\ Add(c, "gc", "waiting")["waiting"]["gc"] = 1
      /\ Outstanding(Add(c, "gc", "waiting"), "gc") > 0
  <2>1. Outstanding(Add(c, "gc", "waiting"), "gc") = Outstanding(c, "gc") + 1
    BY <1>2, AddLive
  <2>2. Outstanding(c, "gc") \in Nat
    BY <1>2, OutstandingNat
  <2>3. Add(c, "gc", "waiting")["waiting"]["gc"] = c["waiting"]["gc"] + 1
    BY <1>2 DEF Add, IsOps
  <2> QED
    BY <1>3, <2>1, <2>2, <2>3
<1>6. Effect(o, Add(c, "gc", "waiting"), 0, 0)
  BY <1>1, <1>4 DEF Effect
<1> QED
  BY <1>5, <1>6 DEF Arm, c

(* destroy() only cancels, and starts the shutdown.                        *)
LEMMA DestroyEffect ==
  ASSUME NEW o, IsOps(o, Kinds), Destroy(o), status = "DESTROY" => destroyed = TRUE
  PROVE  Effect(o, ops', 0, 0) /\ status' = "DESTROY" /\ destroyed' = TRUE
<1> USE KindsFacts
<1>1. CASE status = "DESTROY"
  <2>1. Effect(o, o, 0, 0)
    BY CountsNat DEF Effect
  <2> QED
    BY <1>1, <2>1 DEF Destroy
<1>2. CASE status # "DESTROY"
  <2> DEFINE quiet == Quieted(o)
             all == Cancel(quiet, OutOps \cup {"timer"})
  <2>1. Effect(o, quiet, 0, 0)
    BY CancelEffect DEF Quieted
  <2>2. Effect(quiet, all, 0, 0)
    BY <2>1, CancelEffect DEF Effect
  <2>3. IsOps(all, Kinds)
    BY <2>2 DEF Effect
  <2> HIDE DEF all
  <2>4. ASSUME NEW s \in Begin(all, "shutdown", TRUE, TRUE)
        PROVE  Effect(quiet, Add(s, "timer", "waiting"), 0, 0)
    <3>1. Effect(all, s, 0, 0)
      BY <2>3, BeginEffect DEF ChainOps
    <3>2. IsOps(s, Kinds)
      BY <3>1 DEF Effect
    <3>3. Effect(s, Add(s, "timer", "waiting"), 0, 0)
      BY <3>2, AddEffect DEF ChainOps
    <3> QED
      BY <2>2, <3>1, <3>3 DEF Effect
  <2>5. \A s \in Shutdown(quiet) : Effect(quiet, s, 0, 0)
    BY <2>4 DEF Shutdown, all
  <2>6. Effect(quiet, ops', 0, 0) \/ ops' = quiet
    BY <1>2, <2>5 DEF Destroy
  <2> HIDE DEF quiet
  <2>7. Effect(o, ops', 0, 0)
    BY <2>1, <2>6 DEF Effect
  <2> QED
    BY <1>2, <2>7 DEF Destroy
<1> QED
  BY <1>1, <1>2

-----------------------------------------------------------------------------
(* The invariant.  Before the end of the handshake there is no write, and  *)
(* at most one step of the chain is outstanding; from then on status says  *)
(* whether one is in progress.  destroy() leaves at most one behind.       *)
SessionInv ==
  /\ status # "DESTROY" \/ Chain(ops) > 0 => accepted # << >>
  /\ status = "DESTROY" => destroyed
  /\ Chain(ops) <= 1 /\ Writes(ops) <= 1
  /\ Chain(ops) > 0 => status \in {"CONNECT", "DESTROY"} /\ Writes(ops) = 0
  /\ status \in {"CONNECT", "FORWARD"} => Writes(ops) = 0
  /\ status = "FORWARDING" => Writes(ops) = 1
  /\ status = "FORWARD" => out_write_buf = << >>

SafetyInv == Types /\ SessionInv /\ UplinkInOrder /\ IdleTimer

(* A step that starts no write and no new chain and keeps status.          *)
LEMMA QuietStep ==
  ASSUME SafetyInv, Effect(ops, ops', 0, 0),
         UNCHANGED <<status, destroyed, out_write_buf, accepted, to_tunnel>>,
         SameIdle(ops, ops') \/ (ops'["waiting"]["gc"] <= 1 /\ Outstanding(ops', "gc") > 0),
         serving' \in BOOLEAN, out_open' \in BOOLEAN, reads' \in Nat, up_taken' \in Nat
  PROVE  SafetyInv'
<1>1. SessionInv'
  BY DEF SafetyInv, SessionInv, Effect
<1>2. UplinkInOrder'
  BY DEF SafetyInv, UplinkInOrder
<1>3. IdleTimer'
  BY DEF SafetyInv, IdleTimer, SameIdle, Live
<1>4. Types'
  BY DEF SafetyInv, Types, Effect
<1> QED
  BY <1>1, <1>2, <1>3, <1>4 DEF SafetyInv

(* A step after which the session is destroyed: a write may have ended.    *)
LEMMA DestroyedStep ==
  ASSUME SafetyInv, Effect(ops, ops', 0, 0) \/ Effect(ops, ops', 0, -1),
         status' = "DESTROY", destroyed' = TRUE,
         UNCHANGED <<out_write_buf, accepted, to_tunnel>>,
         serving' \in BOOLEAN, out_open' \in BOOLEAN, reads' \in Nat, up_taken' \in Nat
  PROVE  SafetyInv'
<1>1. SessionInv'
  BY DEF SafetyInv, SessionInv, Effect
<1>2. UplinkInOrder'
  BY DEF SafetyInv, UplinkInOrder
<1>3. IdleTimer'
  BY DEF IdleTimer
<1>4. Types'
  BY DEF SafetyInv, Types, Effect, Status
<1> QED
  BY <1>1, <1>2, <1>3, <1>4 DEF SafetyInv

LEMMA SameEffect ==
  ASSUME NEW o, IsOps(o, Kinds)
  PROVE  Effect(o, o, 0, 0) /\ SameIdle(o, o)
BY CountsNat DEF Effect, SameIdle

(* destroy() at the end of a handler.                                      *)
LEMMA DestroyStep ==
  ASSUME SafetyInv, NEW o, Effect(ops, o, 0, 0) \/ Effect(ops, o, 0, -1), Destroy(o),
         serving' \in BOOLEAN, out_open' \in BOOLEAN, reads' \in Nat, up_taken' \in Nat,
         UNCHANGED <<out_write_buf, accepted, to_tunnel>>
  PROVE  SafetyInv'
<1>1. IsOps(o, Kinds) /\ (status = "DESTROY" => destroyed = TRUE)
  BY DEF Effect, SafetyInv, SessionInv, Types
<1>2. Effect(o, ops', 0, 0) /\ status' = "DESTROY" /\ destroyed' = TRUE
  BY <1>1, DestroyEffect
<1>3. Effect(ops, ops', 0, 0) \/ Effect(ops, ops', 0, -1)
  BY <1>2 DEF Effect
<1> QED
  BY <1>2, <1>3, DestroyedStep

LEMMA TypedFacts ==
  ASSUME SafetyInv
  PROVE  /\ IsOps(ops, Kinds) /\ serving \in BOOLEAN /\ out_open \in BOOLEAN
         /\ reads \in Nat /\ up_taken \in Nat
BY DEF SafetyInv, Types

LEMMA ResolvedStep ==
  ASSUME SafetyInv, Resolved
  PROVE  SafetyInv'
<1> USE KindsFacts, TypedFacts
<1> DEFINE o == Remove(ops, "resolve", "ready")
<1>1. Effect(ops, o, -1, 0) /\ SameIdle(ops, o) /\ IsOps(o, Kinds)
  <2>1. "resolve" \in ChainOps
    BY DEF ChainOps
  <2> QED
    BY <2>1, RemoveEffect DEF Resolved, Effect
<1>2. Effect(ops, o, 0, 0)
  BY <1>1 DEF Effect
<1> HIDE DEF o
<1>3. CASE Destroy(o) /\ UNCHANGED out_open
  BY <1>2, <1>3, DestroyStep DEF Resolved, service, uplink
<1>4. CASE out_open' = TRUE /\ ops' \in Begin(o, "connect", TRUE, TRUE) /\ UNCHANGED <<status, destroyed>>
  <2>1. Effect(o, ops', 1, 0) /\ SameIdle(o, ops')
    BY <1>1, <1>4, BeginEffect DEF ChainOps
  <2>2. Effect(ops, ops', 0, 0) /\ SameIdle(ops, ops')
    BY <1>1, <2>1 DEF Effect, SameIdle
  <2> QED
    BY <1>4, <2>2, QuietStep DEF Resolved, service, uplink
<1> QED
  BY <1>3, <1>4 DEF Resolved, o

LEMMA ConnectedStep ==
  ASSUME SafetyInv, Connected
  PROVE  SafetyInv'
<1> USE KindsFacts, TypedFacts
<1>1. PICK o \in Completed(ops, "connect") : ops' \in Begin(o, "handshake", out_open, FALSE)
  BY DEF Connected
<1>2. Effect(ops, o, -1, 0) /\ SameIdle(ops, o) /\ IsOps(o, Kinds)
  BY <1>1, CompletedEffect DEF ChainOps, Effect
<1>3. Effect(o, ops', 1, 0) /\ SameIdle(o, ops')
  BY <1>1, <1>2, BeginEffect DEF ChainOps
<1>4. Effect(ops, ops', 0, 0) /\ SameIdle(ops, ops')
  BY <1>2, <1>3 DEF Effect, SameIdle
<1> QED
  BY <1>4, QuietStep DEF Connected, service, uplink

LEMMA OutRecvStep ==
  ASSUME SafetyInv, OutRecv
  PROVE  SafetyInv'
<1> USE KindsFacts, TypedFacts
<1>1. PICK o \in Completed(ops, "out_read") :
       \/ Destroy(Arm(o)) /\ UNCHANGED serving
       \/ ops' \in OutAsyncRead(Arm(o)) /\ UNCHANGED <<serving, status, destroyed>>
       \/ serving' = FALSE /\ ops' = Arm(o) /\ UNCHANGED <<status, destroyed>>
  BY DEF OutRecv
<1>2. Effect(ops, o, 0, 0) /\ IsOps(o, Kinds)
  BY <1>1, CompletedEffect DEF ChainOps, Effect
<1> DEFINE a == Arm(o)
<1>3. Effect(o, a, 0, 0) /\ a["waiting"]["gc"] = 1 /\ Outstanding(a, "gc") > 0
  BY <1>2, ArmEffect
<1> HIDE DEF a
<1>4. Effect(ops, a, 0, 0) /\ IsOps(a, Kinds)
  BY <1>2, <1>3 DEF Effect
<1>5. /\ serving' \in BOOLEAN /\ reads' \in Nat
      /\ UNCHANGED <<up_taken, out_open, out_write_buf, accepted, to_tunnel>>
  <2>1. serving' = serving \/ serving' = FALSE
    BY <1>1
  <2>2. reads' = reads + 1 /\ UNCHANGED <<up_taken, out_open, out_write_buf, accepted, to_tunnel>>
    BY DEF OutRecv, uplink
  <2>3. serving' \in BOOLEAN
    <3>1. CASE serving' = serving
      BY <3>1, Zenon
    <3>2. CASE serving' = FALSE
      BY <3>2
    <3> QED
      BY <2>1, <3>1, <3>2
  <2> QED
    BY <2>2, <2>3
<1>6. CASE Destroy(a)
  BY <1>4, <1>5, <1>6, DestroyStep
<1>7. CASE ops' \in OutAsyncRead(a) /\ UNCHANGED <<status, destroyed>>
  <2>1. Effect(a, ops', 0, 0) /\ SameIdle(a, ops')
    BY <1>4, <1>7, BeginEffect DEF OutAsyncRead, ChainOps
  <2>2. Effect(ops, ops', 0, 0) /\ ops'["waiting"]["gc"] <= 1 /\ Outstanding(ops', "gc") > 0
    BY <1>3, <1>4, <2>1 DEF Effect, SameIdle
  <2> QED
    BY <1>5, <1>7, <2>2, QuietStep
<1>8. CASE ops' = a /\ UNCHANGED <<status, destroyed>>
  BY <1>3, <1>4, <1>5, <1>8, QuietStep
<1> QED
  BY <1>1, <1>6, <1>7, <1>8 DEF a

LEMMA TimedOutStep ==
  ASSUME SafetyInv, TimedOut
  PROVE  SafetyInv'
<1> USE KindsFacts, TypedFacts
<1>1. Effect(ops, Remove(ops, "gc", "ready"), 0, 0)
  BY RemoveEffect DEF TimedOut, ChainOps
<1> QED
  BY <1>1, DestroyStep DEF TimedOut, service, uplink

LEMMA FailStep ==
  ASSUME SafetyInv, Fail
  PROVE  SafetyInv'
<1> USE KindsFacts, TypedFacts
<1>1. PICK k \in {"resolve", "connect", "handshake", "out_read", "out_write"} :
        \E p \in {"waiting", "failed", "aborted"} : ops[p][k] > 0 /\ Destroy(Remove(ops, k, p))
  BY DEF Fail
<1>2. PICK p \in {"waiting", "failed", "aborted"} : ops[p][k] > 0 /\ Destroy(Remove(ops, k, p))
  BY <1>1
<1>3. k \in Kinds /\ p \in Phase
  OBVIOUS
<1>4. Effect(ops, Remove(ops, k, p), 0, IF k = "out_write" THEN -1 ELSE 0)
  BY <1>2, <1>3, RemoveEffect
<1>5. Effect(ops, Remove(ops, k, p), 0, 0) \/ Effect(ops, Remove(ops, k, p), 0, -1)
  BY <1>4
<1> QED
  BY <1>2, <1>5, DestroyStep DEF Fail, service, uplink

LEMMA DroppedStep ==
  ASSUME SafetyInv, Dropped
  PROVE  SafetyInv'
<1> USE KindsFacts, TypedFacts
<1>1. PICK k \in {"out_read", "out_write"} :
        ops["ready"][k] > 0 /\ ops' = Remove(ops, k, "ready")
  BY DEF Dropped
<1>2. k \in Kinds /\ "ready" \in Phase /\ k # "gc"
  OBVIOUS
<1>3. Effect(ops, ops', 0, IF k = "out_write" THEN -1 ELSE 0) /\ SameIdle(ops, ops')
  BY <1>1, <1>2, RemoveEffect
<1>4. Effect(ops, ops', 0, 0) \/ Effect(ops, ops', 0, -1)
  BY <1>3
<1>5. /\ status' = "DESTROY" /\ destroyed' = TRUE
      /\ UNCHANGED <<serving, up_taken, out_open, out_write_buf, accepted, to_tunnel, reads>>
  BY DEF Dropped, service, uplink, SafetyInv, SessionInv, Types
<1> QED
  BY <1>4, <1>5, DestroyedStep

LEMMA IgnoreAbortStep ==
  ASSUME SafetyInv, IgnoreAbort
  PROVE  SafetyInv'
<1> USE KindsFacts, TypedFacts
<1>1. PICK k \in {"gc", "shutdown", "timer"} :
        ops["aborted"][k] > 0 /\ ops' = Remove(ops, k, "aborted")
  BY DEF IgnoreAbort
<1>2. k \in Kinds /\ "aborted" \in Phase /\ k # "out_write"
  OBVIOUS
<1>3. Effect(ops, ops', 0, 0) /\ SameIdle(ops, ops')
  BY <1>1, <1>2, RemoveEffect
<1> QED
  BY <1>3, QuietStep DEF IgnoreAbort, service, uplink

LEMMA ShutdownDoneStep ==
  ASSUME SafetyInv, ShutdownDone
  PROVE  SafetyInv'
<1> USE KindsFacts, TypedFacts
<1>1. PICK k \in {"shutdown", "timer"} : \E o \in Completed(ops, k) :
        ops' = Cancel(o, OutOps \cup {"timer"})
  BY DEF ShutdownDone
<1>2. PICK o \in Completed(ops, k) : ops' = Cancel(o, OutOps \cup {"timer"})
  BY <1>1
<1>3. k \in Kinds /\ k \notin ChainOps /\ k # "out_write" /\ k # "gc"
  BY DEF ChainOps
<1>4. Effect(ops, o, 0, 0) /\ SameIdle(ops, o) /\ IsOps(o, Kinds)
  BY <1>2, <1>3, CompletedEffect DEF Effect
<1>5. Effect(o, ops', 0, 0) /\ SameIdle(o, ops')
  BY <1>2, <1>4, CancelEffect
<1>6. Effect(ops, ops', 0, 0) /\ SameIdle(ops, ops')
  BY <1>4, <1>5 DEF Effect, SameIdle
<1>7. /\ out_open' \in BOOLEAN
      /\ UNCHANGED <<serving, up_taken, status, destroyed, out_write_buf, accepted, to_tunnel, reads>>
  BY DEF ShutdownDone, service, uplink
<1> QED
  BY <1>6, <1>7, QuietStep

LEMMA PerformStep ==
  ASSUME SafetyInv, Perform
  PROVE  SafetyInv'
<1> USE KindsFacts, TypedFacts
<1>1. PICK k \in Kinds : ops["waiting"][k] > 0 /\ ops' = Add(Remove(ops, k, "waiting"), k, "ready")
  BY DEF Perform
<1> DEFINE o == Remove(ops, k, "waiting")
<1>2. IsOps(o, Kinds)
  BY <1>1, RemoveType
<1>3. IsOps(ops', Kinds)
  BY <1>1, <1>2, AddType
<1>4. \A j \in Kinds :
        /\ Outstanding(ops', j) = Outstanding(ops, j) /\ Pending(ops', j) = Pending(ops, j)
        /\ ops'["waiting"][j] <= ops["waiting"][j]
  <2>1. \A p \in Phase, j \in Kinds :
          ops'[p][j] = IF p = "waiting" /\ j = k THEN ops[p][j] - 1
                       ELSE IF p = "ready" /\ j = k THEN ops[p][j] + 1 ELSE ops[p][j]
    BY <1>1 DEF Add, Remove, IsOps
  <2>2. \A p \in Phase, j \in Kinds : ops[p][j] \in Nat
    BY DEF IsOps
  <2>3. ASSUME NEW j \in Kinds, j # k
        PROVE  /\ Outstanding(ops', j) = Outstanding(ops, j) /\ Pending(ops', j) = Pending(ops, j)
               /\ ops'["waiting"][j] <= ops["waiting"][j]
    BY <2>1, <2>2, <2>3 DEF Outstanding, Pending
  <2>4. /\ Outstanding(ops', k) = Outstanding(ops, k) /\ Pending(ops', k) = Pending(ops, k)
        /\ ops'["waiting"][k] <= ops["waiting"][k]
    <3>1. /\ ops'["waiting"][k] = ops["waiting"][k] - 1 /\ ops'["ready"][k] = ops["ready"][k] + 1
          /\ ops'["failed"][k] = ops["failed"][k] /\ ops'["aborted"][k] = ops["aborted"][k]
      BY <2>1
    <3>2. /\ ops["waiting"][k] \in Nat /\ ops["ready"][k] \in Nat
          /\ ops["failed"][k] \in Nat /\ ops["aborted"][k] \in Nat
      BY <2>2
    <3> QED
      BY <3>1, <3>2 DEF Outstanding, Pending
  <2> QED
    BY <2>3, <2>4
<1>5. Effect(ops, ops', 0, 0)
  <2>1. Chain(ops') = Chain(ops) /\ Writes(ops') = Writes(ops)
    BY <1>4 DEF Chain, Writes
  <2> QED
    BY <1>3, <2>1, CountsNat DEF Effect
<1>6. ~ destroyed => ops'["waiting"]["gc"] <= 1 /\ Outstanding(ops', "gc") > 0
  <2>1. ops["waiting"]["gc"] \in Nat /\ ops'["waiting"]["gc"] \in Nat
    BY <1>3 DEF IsOps
  <2>2. ~ destroyed => ops["waiting"]["gc"] <= 1 /\ Outstanding(ops, "gc") > 0
    BY DEF IdleTimer, Live, SafetyInv
  <2> QED
    BY <1>4, <2>1, <2>2
<1>7. UNCHANGED <<serving, up_taken, status, out_open, destroyed, out_write_buf, accepted, to_tunnel, reads>>
  BY DEF Perform, service, uplink
<1>8. SessionInv' /\ UplinkInOrder'
  BY <1>5, <1>7 DEF SessionInv, UplinkInOrder, Effect, uplink, SafetyInv
<1>9. IdleTimer' /\ Types'
  BY <1>3, <1>6, <1>7 DEF IdleTimer, Types, Live, uplink, SafetyInv
<1> QED
  BY <1>8, <1>9 DEF SafetyInv

(* The end of the handshake, whatever status was: what was kept is sent,   *)
(* in the first write.                                                     *)
LEMMA EstablishedStep ==
  ASSUME SafetyInv, Established
  PROVE  SafetyInv'
<1> USE KindsFacts, TypedFacts
<1>1. PICK o \in Completed(ops, "handshake") : \E r \in OutAsyncRead(o) : ops' \in OutAsyncWrite(r)
  BY DEF Established
<1>2. PICK r \in OutAsyncRead(o) : ops' \in OutAsyncWrite(r)
  BY <1>1
<1>3. Effect(ops, o, -1, 0) /\ SameIdle(ops, o) /\ Chain(ops) > 0 /\ IsOps(o, Kinds)
  BY CompletedEffect DEF ChainOps, Effect
<1>4. Effect(o, r, 0, 0) /\ SameIdle(o, r) /\ IsOps(r, Kinds)
  BY <1>3, BeginEffect DEF ChainOps, OutAsyncRead, Effect
<1>5. Effect(r, ops', 0, 1) /\ SameIdle(r, ops')
  BY <1>2, <1>4, BeginEffect DEF ChainOps, OutAsyncWrite
<1>6. Effect(ops, ops', -1, 1) /\ SameIdle(ops, ops')
  BY <1>3, <1>4, <1>5 DEF Effect, SameIdle
<1>7. /\ status' = "FORWARDING" /\ to_tunnel' = to_tunnel \o out_write_buf
      /\ out_write_buf' = << >>
      /\ UNCHANGED <<serving, up_taken, out_open, destroyed, accepted, reads>>
  BY DEF Established, Busy, Cleared, service
<1>8. to_tunnel' \in Seq(Nat) /\ to_tunnel' \o out_write_buf' = to_tunnel \o out_write_buf
  <2>1. to_tunnel \in Seq(Nat) /\ out_write_buf \in Seq(Nat)
    BY DEF SafetyInv, Types
  <2>2. to_tunnel \o out_write_buf \in Seq(Nat)
    BY <2>1, ConcatProperties
  <2> QED
    BY <1>7, <2>2, ConcatEmptySeq
<1>9. SessionInv'
  BY <1>3, <1>6, <1>7 DEF SafetyInv, SessionInv, Effect
<1>10. UplinkInOrder'
  BY <1>7, <1>8 DEF SafetyInv, UplinkInOrder
<1>11. IdleTimer'
  BY <1>6, <1>7 DEF SafetyInv, IdleTimer, SameIdle, Live
<1>12. Types'
  <2>1. << >> \in Seq(Nat)
    BY EmptySeq
  <2> QED
    BY <1>6, <1>7, <1>8, <2>1 DEF SafetyInv, Types, Effect, Status
<1> QED
  BY <1>9, <1>10, <1>11, <1>12 DEF SafetyInv

(* The end of a write: the next one takes what came meanwhile.             *)
LEMMA OutSentStep ==
  ASSUME SafetyInv, OutSent
  PROVE  SafetyInv'
<1> USE KindsFacts, TypedFacts
<1>1. PICK o \in Completed(ops, "out_write") :
       IF out_write_buf = << >>
       THEN status' = "FORWARD" /\ ops' = o /\ UNCHANGED <<out_write_buf, to_tunnel>>
       ELSE /\ to_tunnel' = to_tunnel \o out_write_buf /\ out_write_buf' = Cleared
            /\ status' = Busy /\ ops' \in OutAsyncWrite(o)
  BY DEF OutSent
<1>2. Effect(ops, o, 0, -1) /\ SameIdle(ops, o) /\ IsOps(o, Kinds)
  BY CompletedEffect DEF ChainOps, Effect
<1>3. /\ status = "FORWARDING"
      /\ UNCHANGED <<serving, up_taken, out_open, destroyed, accepted, reads>>
  BY DEF OutSent, service
<1>4. CASE out_write_buf = << >>
  <2>1. /\ status' = "FORWARD" /\ ops' = o
        /\ UNCHANGED <<out_write_buf, to_tunnel>>
    BY <1>1, <1>4
  <2>2. SessionInv'
    BY <1>2, <1>3, <1>4, <2>1 DEF SafetyInv, SessionInv, Effect
  <2>3. UplinkInOrder'
    BY <1>3, <2>1 DEF SafetyInv, UplinkInOrder
  <2>4. IdleTimer'
    BY <1>2, <1>3, <2>1 DEF SafetyInv, IdleTimer, SameIdle, Live
  <2>5. Types'
    BY <1>2, <1>3, <2>1 DEF SafetyInv, Types, Status
  <2> QED
    BY <2>2, <2>3, <2>4, <2>5 DEF SafetyInv
<1>5. CASE out_write_buf # << >>
  <2>1. /\ to_tunnel' = to_tunnel \o out_write_buf /\ out_write_buf' = << >>
        /\ status' = "FORWARDING" /\ ops' \in OutAsyncWrite(o)
    BY <1>1, <1>5 DEF Cleared, Busy
  <2>2. Effect(o, ops', 0, 1) /\ SameIdle(o, ops')
    BY <1>2, <2>1, BeginEffect DEF ChainOps, OutAsyncWrite
  <2>3. Effect(ops, ops', 0, 0) /\ SameIdle(ops, ops')
    BY <1>2, <2>2 DEF Effect, SameIdle
  <2>4. to_tunnel' \in Seq(Nat) /\ to_tunnel' \o out_write_buf' = to_tunnel \o out_write_buf
    <3>1. to_tunnel \in Seq(Nat) /\ out_write_buf \in Seq(Nat)
      BY DEF SafetyInv, Types
    <3>2. to_tunnel \o out_write_buf \in Seq(Nat)
      BY <3>1, ConcatProperties
    <3> QED
      BY <2>1, <3>2, ConcatEmptySeq
  <2>5. SessionInv'
    BY <1>3, <2>1, <2>3 DEF SafetyInv, SessionInv, Effect
  <2>6. UplinkInOrder'
    BY <1>3, <2>4 DEF SafetyInv, UplinkInOrder
  <2>7. IdleTimer'
    BY <1>3, <2>3 DEF SafetyInv, IdleTimer, SameIdle, Live
  <2>8. Types'
    <3>1. << >> \in Seq(Nat)
      BY EmptySeq
    <3> QED
      BY <1>3, <2>1, <2>3, <2>4, <3>1 DEF SafetyInv, Types, Effect, Status
  <2> QED
    BY <2>5, <2>6, <2>7, <2>8 DEF SafetyInv
<1> QED
  BY <1>4, <1>5

LEMMA ConcatNat ==
  ASSUME NEW a \in Seq(Nat), NEW b \in Seq(Nat), NEW c \in Seq(Nat)
  PROVE  (a \o b) \o c = a \o (b \o c)
BY ConcatAssociative, SMTT(30)

LEMMA AppendNat ==
  ASSUME NEW a \in Seq(Nat), NEW x \in Nat
  PROVE  /\ Append(a, x) \in Seq(Nat) /\ Append(a, x) # << >>
         /\ Append(a, x) = a \o <<x>> /\ Append(a, x) \o << >> = Append(a, x)
<1>1. Append(a, x) \in Seq(Nat) /\ Append(a, x) # << >>
  BY AppendProperties
<1>2. Append(a, x) = a \o <<x>>
  BY AppendIsConcat
<1>3. Append(a, x) \o << >> = Append(a, x)
  BY <1>1, ConcatEmptySeq
<1> QED
  BY <1>1, <1>2, <1>3

(* A datagram at the end of what was sent and kept.                        *)
LEMMA AppendAtEnd ==
  ASSUME NEW s \in Seq(Nat), NEW t \in Seq(Nat), NEW u \in Seq(Nat), NEW x \in Nat,
         s \o t = <<Header>> \o u
  PROVE  /\ s \o Append(t, x) = <<Header>> \o Append(u, x)
         /\ t = << >> => Append(s, x) \o << >> = <<Header>> \o Append(u, x)
<1>1. <<Header>> \in Seq(Nat) /\ <<x>> \in Seq(Nat)
  BY DEF Header
<1>2. PICK h \in Seq(Nat) : h = <<Header>>
  BY <1>1
<1>3. PICK y \in Seq(Nat) : y = <<x>>
  BY <1>1
<1>4. Append(t, x) = t \o y /\ Append(u, x) = u \o y /\ Append(s, x) = s \o y
  BY <1>3, AppendNat
<1>5. Append(s, x) \o << >> = Append(s, x)
  BY AppendNat
<1>6. t = << >> => s \o t = s
  BY ConcatEmptySeq
<1>7. (s \o t) \o y = s \o (t \o y)
  BY ONLY s \in Seq(Nat), t \in Seq(Nat), y \in Seq(Nat), ConcatNat, SMTT(30)
<1>8. (h \o u) \o y = h \o (u \o y)
  BY ONLY h \in Seq(Nat), u \in Seq(Nat), y \in Seq(Nat), ConcatNat, Zenon
<1>9. s \o Append(t, x) = h \o Append(u, x)
  BY <1>2, <1>4, <1>7, <1>8
<1>10. t = << >> => Append(s, x) \o << >> = h \o Append(u, x)
  BY <1>2, <1>4, <1>5, <1>6, <1>8
<1> QED
  BY <1>2, <1>9, <1>10

LEMMA TakeSentStep ==
  ASSUME SafetyInv, TakeSent
  PROVE  SafetyInv'
<1> USE KindsFacts, TypedFacts
<1> DEFINE a == Arm(ops)
<1>1. Effect(ops, a, 0, 0) /\ a["waiting"]["gc"] = 1 /\ Outstanding(a, "gc") > 0 /\ IsOps(a, Kinds)
  BY ArmEffect DEF Effect
<1> HIDE DEF a
<1>2. Effect(a, ops', 0, 1) /\ SameIdle(a, ops')
  <2>1. PICK open, atOnce : ops' \in Begin(a, "out_write", open, atOnce)
    BY DEF TakeSent, OutAsyncWrite, a
  <2> QED
    BY <1>1, <2>1, BeginEffect DEF ChainOps
<1>3. Effect(ops, ops', 0, 1) /\ ops'["waiting"]["gc"] <= 1 /\ Outstanding(ops', "gc") > 0
  BY <1>1, <1>2 DEF Effect, SameIdle
<1>4. /\ status = "FORWARD" /\ status' = "FORWARDING"
      /\ accepted' = Append(accepted, up_taken + 1) /\ to_tunnel' = Append(to_tunnel, up_taken + 1)
      /\ up_taken' = up_taken + 1
      /\ UNCHANGED <<serving, out_open, destroyed, out_write_buf, reads>>
  BY DEF TakeSent, Busy
<1>5. /\ out_write_buf = << >> /\ accepted # << >>
      /\ to_tunnel \o out_write_buf = <<Header>> \o accepted
  BY <1>4 DEF SafetyInv, SessionInv, UplinkInOrder
<1>6. /\ accepted' \in Seq(Nat) /\ to_tunnel' \in Seq(Nat) /\ accepted' # << >>
      /\ to_tunnel' \o << >> = <<Header>> \o accepted'
  <2>1. accepted \in Seq(Nat) /\ to_tunnel \in Seq(Nat) /\ out_write_buf \in Seq(Nat)
    BY DEF SafetyInv, Types
  <2>2. up_taken + 1 \in Nat
    OBVIOUS
  <2>3. /\ Append(accepted, up_taken + 1) \in Seq(Nat) /\ Append(to_tunnel, up_taken + 1) \in Seq(Nat)
        /\ Append(accepted, up_taken + 1) # << >>
    BY <2>1, <2>2, AppendNat
  <2>4. Append(to_tunnel, up_taken + 1) \o << >> = <<Header>> \o Append(accepted, up_taken + 1)
    <3> DEFINE x == up_taken + 1
    <3>1. x \in Nat /\ to_tunnel \o out_write_buf = <<Header>> \o accepted /\ out_write_buf = << >>
      BY <1>5, <2>2
    <3> HIDE DEF x
    <3>2. Append(to_tunnel, x) \o << >> = <<Header>> \o Append(accepted, x)
      BY ONLY <2>1, <3>1, AppendAtEnd
    <3> QED
      BY <3>2 DEF x
  <2> QED
    BY <1>4, <2>3, <2>4
<1>7. SessionInv'
  <2>1. SessionInv
    BY DEF SafetyInv
  <2>2. /\ Chain(ops) = 0 /\ Chain(ops') \in Nat /\ Chain(ops') <= Chain(ops) + 0
        /\ Writes(ops) = 0 /\ Writes(ops') = Writes(ops) + 1
    <3>1. Chain(ops) \in Nat /\ ~ Chain(ops) > 0 /\ Writes(ops) = 0
      BY <1>3, <1>4, <2>1 DEF SessionInv, Effect
    <3> QED
      BY <1>3, <3>1 DEF Effect
  <2>3. Chain(ops') = 0 /\ Writes(ops') = 1
    BY <2>2
  <2> QED
    BY <1>4, <1>6, <2>3 DEF SessionInv
<1>8. UplinkInOrder'
  BY <1>4, <1>5, <1>6 DEF UplinkInOrder
<1>9. IdleTimer'
  BY <1>3 DEF IdleTimer, Live
<1>10. Types'
  BY <1>3, <1>4, <1>6 DEF SafetyInv, Types, Effect, Status
<1> QED
  BY <1>7, <1>8, <1>9, <1>10 DEF SafetyInv

LEMMA TakeBufferedStep ==
  ASSUME SafetyInv, TakeBuffered
  PROVE  SafetyInv'
<1> USE KindsFacts, TypedFacts
<1>1. ops' = Arm(ops)
  BY DEF TakeBuffered
<1>2. Effect(ops, ops', 0, 0) /\ ops'["waiting"]["gc"] <= 1 /\ Outstanding(ops', "gc") > 0
  BY <1>1, ArmEffect
<1>3. /\ status \in {"CONNECT", "FORWARDING"}
      /\ accepted' = Append(accepted, up_taken + 1)
      /\ out_write_buf' = Append(out_write_buf, up_taken + 1)
      /\ up_taken' = up_taken + 1
      /\ UNCHANGED <<serving, status, out_open, destroyed, to_tunnel, reads>>
  BY DEF TakeBuffered
<1>4. accepted # << >> /\ to_tunnel \o out_write_buf = <<Header>> \o accepted
  BY <1>3 DEF SafetyInv, SessionInv, UplinkInOrder
<1>5. /\ accepted' \in Seq(Nat) /\ out_write_buf' \in Seq(Nat) /\ accepted' # << >>
      /\ to_tunnel \o out_write_buf' = <<Header>> \o accepted'
  <2>1. accepted \in Seq(Nat) /\ to_tunnel \in Seq(Nat) /\ out_write_buf \in Seq(Nat)
    BY DEF SafetyInv, Types
  <2>2. up_taken + 1 \in Nat
    OBVIOUS
  <2>3. /\ Append(accepted, up_taken + 1) \in Seq(Nat)
        /\ Append(out_write_buf, up_taken + 1) \in Seq(Nat)
        /\ Append(accepted, up_taken + 1) # << >>
    BY <2>1, <2>2, AppendNat
  <2>4. to_tunnel \o Append(out_write_buf, up_taken + 1) = <<Header>> \o Append(accepted, up_taken + 1)
    BY <1>4, <2>1, <2>2, AppendAtEnd
  <2> QED
    BY <1>3, <2>3, <2>4
<1>6. SessionInv'
  <2>1. SessionInv
    BY DEF SafetyInv
  <2>2. status' \in {"CONNECT", "FORWARDING"} /\ status' = status /\ accepted' # << >>
    BY <1>3, <1>5
  <2>3. Chain(ops') <= Chain(ops) /\ Writes(ops') = Writes(ops) /\ Chain(ops) \in Nat /\ Chain(ops') \in Nat
    BY <1>2 DEF Effect
  <2>4. /\ Chain(ops) <= 1 /\ Writes(ops) <= 1
        /\ Chain(ops) > 0 => status \in {"CONNECT", "DESTROY"} /\ Writes(ops) = 0
        /\ status = "CONNECT" => Writes(ops) = 0
        /\ status = "FORWARDING" => Writes(ops) = 1
    BY <2>1 DEF SessionInv
  <2> QED
    BY <2>2, <2>3, <2>4 DEF SessionInv
<1>7. UplinkInOrder'
  BY <1>3, <1>5 DEF UplinkInOrder
<1>8. IdleTimer'
  BY <1>2 DEF IdleTimer, Live
<1>9. Types'
  BY <1>2, <1>3, <1>5 DEF SafetyInv, Types, Effect
<1> QED
  BY <1>6, <1>7, <1>8, <1>9 DEF SafetyInv

(* A new session: the wait of the gc_timer and the resolver's.             *)
LEMMA FirstDatagramStep ==
  ASSUME SafetyInv, FirstDatagram
  PROVE  SafetyInv'
<1> USE KindsFacts, TypedFacts
<1> DEFINE n == NoOps(Kinds)
           a == Arm(n)
           r == Add(a, "resolve", "waiting")
<1>1. IsOps(n, Kinds) /\ Chain(n) = 0 /\ Writes(n) = 0
  <2>1. IsOps(n, Kinds)
    BY NoOpsType
  <2>2. \A k \in Kinds : Outstanding(n, k) = 0 /\ Pending(n, k) = 0
    BY DEF NoOps, Outstanding, Pending
  <2> QED
    BY <2>1, <2>2 DEF Chain, Writes
<1> HIDE DEF n
<1>2. Effect(n, a, 0, 0) /\ IsOps(a, Kinds)
  BY <1>1, ArmEffect DEF Effect
<1> HIDE DEF a
<1>3. Effect(a, r, 1, 0) /\ IsOps(r, Kinds)
  BY <1>2, AddEffect DEF ChainOps, Effect
<1> HIDE DEF r
<1>4. Effect(r, Arm(r), 0, 0) /\ Arm(r)["waiting"]["gc"] = 1 /\ Outstanding(Arm(r), "gc") > 0
  BY <1>3, ArmEffect
<1>5. /\ ops' = Arm(r) /\ up_taken' = up_taken + 1
      /\ status' = "CONNECT" /\ out_open' = FALSE /\ destroyed' = FALSE
      /\ out_write_buf' = <<Header, up_taken + 1>>
      /\ accepted' = <<up_taken + 1>> /\ to_tunnel' = << >> /\ reads' = 0
      /\ UNCHANGED serving
  BY DEF FirstDatagram, r, a, n
<1>6. Chain(ops') <= 1 /\ Writes(ops') = 0 /\ IsOps(ops', Kinds)
  BY <1>1, <1>2, <1>3, <1>4, <1>5 DEF Effect
<1>7. SessionInv'
  BY <1>5, <1>6 DEF SessionInv
<1>8. /\ out_write_buf' \in Seq(Nat) /\ accepted' \in Seq(Nat) /\ to_tunnel' \in Seq(Nat)
      /\ to_tunnel' \o out_write_buf' = <<Header>> \o accepted'
  <2>1. <<Header, up_taken + 1>> = <<Header>> \o <<up_taken + 1>>
    OBVIOUS
  <2>2. out_write_buf' \in Seq(Nat) /\ accepted' \in Seq(Nat) /\ to_tunnel' \in Seq(Nat)
    BY <1>5 DEF Header
  <2> QED
    BY <1>5, <2>1, <2>2, ConcatEmptySeq
<1>9. UplinkInOrder'
  BY <1>8 DEF UplinkInOrder
<1>10. IdleTimer'
  <2>1. ops'["waiting"]["gc"] <= 1 /\ Outstanding(ops', "gc") > 0
    BY <1>4, <1>5
  <2> QED
    BY <2>1 DEF IdleTimer, Live
<1>11. Types'
  <2>1. serving' \in BOOLEAN
    BY <1>5, Zenon
  <2>2. status' \in Status /\ out_open' \in BOOLEAN /\ destroyed' \in BOOLEAN
    BY <1>5 DEF Status
  <2>3. up_taken' \in Nat /\ reads' \in Nat
    BY <1>5
  <2> QED
    BY <1>6, <1>8, <2>1, <2>2, <2>3 DEF Types
<1> QED
  BY <1>7, <1>9, <1>10, <1>11 DEF SafetyInv

LEMMA SafetyStep ==
  ASSUME SafetyInv, [Next]_vars
  PROVE  SafetyInv'
<1>1. CASE Proceed
  BY <1>1, ResolvedStep, ConnectedStep, EstablishedStep, OutRecvStep, OutSentStep,
     TimedOutStep, DroppedStep, IgnoreAbortStep, ShutdownDoneStep, PerformStep DEF Proceed
<1>2. CASE Fail
  BY <1>2, FailStep
<1>3. CASE Datagram
  <2>1. CASE Ignored
    <3>1. Effect(ops, ops', 0, 0) /\ SameIdle(ops, ops')
      BY <2>1, TypedFacts, SameEffect DEF Ignored
    <3> QED
      BY <2>1, <3>1, TypedFacts, QuietStep DEF Ignored, uplink
  <2> QED
    BY <1>3, <2>1, FirstDatagramStep, TakeSentStep, TakeBufferedStep DEF Datagram
<1>4. CASE ServiceFails
  <2>1. Effect(ops, ops', 0, 0) /\ SameIdle(ops, ops')
    BY <1>4, TypedFacts, SameEffect DEF ServiceFails
  <2> QED
    BY <1>4, <2>1, TypedFacts, QuietStep DEF ServiceFails, uplink
<1>5. CASE UNCHANGED vars
  <2>1. Effect(ops, ops', 0, 0) /\ SameIdle(ops, ops')
    BY <1>5, TypedFacts, SameEffect DEF vars
  <2> QED
    BY <1>5, <2>1, TypedFacts, QuietStep DEF vars, service, uplink
<1> QED
  BY <1>1, <1>2, <1>3, <1>4, <1>5 DEF Next

LEMMA SafetyInit == Init => SafetyInv
<1> SUFFICES ASSUME Init PROVE SafetyInv
  OBVIOUS
<1> USE KindsFacts
<1>1. IsOps(ops, Kinds)
  BY NoOpsType DEF Init
<1>2. Chain(ops) = 0 /\ Writes(ops) = 0
  <2>1. \A k \in Kinds : Outstanding(ops, k) = 0 /\ Pending(ops, k) = 0
    BY DEF Init, NoOps, Outstanding, Pending
  <2> QED
    BY <2>1 DEF Chain, Writes
<1>3. << >> \in Seq(Nat)
  BY EmptySeq
<1>4. Types
  BY <1>1, <1>3 DEF Init, Types, Status
<1> QED
  BY <1>2, <1>4 DEF Init, SafetyInv, SessionInv, UplinkInOrder, IdleTimer

-----------------------------------------------------------------------------
(* What a destroyed session waits for.                                     *)
IdleOps == {"resolve", "gc"}

ClosedInv == status = "DESTROY" => \A k \in IdleOps : ops["waiting"][k] = 0

(* What an operation of the tunnel leaves of them when it is started.      *)
LEMMA AddIdle ==
  ASSUME NEW o, IsOps(o, Kinds), NEW k \in OutOps, NEW p \in Phase, NEW j \in IdleOps
  PROVE  IsOps(Add(o, k, p), Kinds) /\ Add(o, k, p)["waiting"][j] = o["waiting"][j]
<1>1. k \in Kinds /\ j \in Kinds /\ j # k
  BY KindsFacts DEF IdleOps
<1> QED
  BY <1>1, AddType, AddWaiting

(* destroy() cancels them, and what it starts is of other kinds.           *)
LEMMA DestroyQuiets ==
  ASSUME NEW o, IsOps(o, Kinds), status # "DESTROY", Destroy(o)
  PROVE  \A k \in IdleOps : ops'["waiting"][k] = 0
<1> USE KindsFacts
<1> TAKE j \in IdleOps
<1> DEFINE quiet == Quieted(o)
           all == Cancel(quiet, OutOps \cup {"timer"})
<1>1. j \in Kinds /\ j # "shutdown" /\ j # "timer"
  BY DEF IdleOps
<1>2. IsOps(quiet, Kinds) /\ quiet["waiting"][j] = 0
  BY <1>1, CancelType, CancelLive DEF Quieted, IdleOps
<1> HIDE DEF quiet
<1>3. IsOps(all, Kinds) /\ all["waiting"][j] = 0
  BY <1>1, <1>2, CancelType, CancelLive
<1> HIDE DEF all
<1>4. ASSUME NEW s \in Begin(all, "shutdown", TRUE, TRUE)
      PROVE  Add(s, "timer", "waiting")["waiting"][j] = 0
  <2>1. IsOps(s, Kinds) /\ s["waiting"][j] = 0
    <3>1. s \in Begin(all, "shutdown", TRUE, TRUE) => \E p \in Phase : s = Add(all, "shutdown", p)
      BY DEF Begin
    <3>2. "shutdown" \in OutOps
      OBVIOUS
    <3> QED
      BY <1>3, <3>1, <3>2, AddIdle
  <2> QED
    BY <1>1, <2>1, AddWaiting
<1>5. ops' = quiet \/ ops' \in Shutdown(quiet)
  BY DEF Destroy, quiet
<1> QED
  BY <1>2, <1>4, <1>5 DEF Shutdown, all

(* Where destroy() is called.                                              *)
LEMMA WhoDestroys ==
  ASSUME Types, [Next]_vars, status # "DESTROY", status' = "DESTROY"
  PROVE  \E o : IsOps(o, Kinds) /\ Destroy(o)
<1> USE KindsFacts
<1>o. IsOps(ops, Kinds)
  BY DEF Types
<1>1. CASE Resolved
  <2>1. IsOps(Remove(ops, "resolve", "ready"), Kinds)
    BY <1>o, <1>1, RemoveType DEF Resolved
  <2> QED
    BY <1>1, <2>1 DEF Resolved
<1>2. CASE OutRecv
  <2>1. PICK o \in Completed(ops, "out_read") : Destroy(Arm(o))
    BY <1>2 DEF OutRecv
  <2>2. IsOps(Arm(o), Kinds)
    BY <1>o, <2>1, CompletedType, CancelType, AddType DEF Arm
  <2> QED
    BY <2>1, <2>2
<1>3. CASE TimedOut
  <2>1. IsOps(Remove(ops, "gc", "ready"), Kinds)
    BY <1>o, <1>3, RemoveType DEF TimedOut
  <2> QED
    BY <1>3, <2>1 DEF TimedOut
<1>4. CASE Fail
  <2>1. PICK k \in {"resolve", "connect", "handshake", "out_read", "out_write"},
             p \in {"waiting", "failed", "aborted"} :
          ops[p][k] > 0 /\ Destroy(Remove(ops, k, p))
    BY <1>4 DEF Fail
  <2>2. IsOps(Remove(ops, k, p), Kinds)
    BY <1>o, <2>1, RemoveType
  <2> QED
    BY <2>1, <2>2
<1>5. CASE Connected \/ Dropped \/ IgnoreAbort \/ ShutdownDone \/ Perform
  BY <1>5 DEF Connected, Dropped, IgnoreAbort, ShutdownDone, Perform
<1>6. CASE Established \/ OutSent \/ Datagram
  BY <1>6 DEF Established, OutSent, Datagram, FirstDatagram, Ignored, TakeSent, TakeBuffered, Busy
<1>7. CASE ServiceFails \/ UNCHANGED vars
  BY <1>7 DEF ServiceFails, vars
<1> QED
  BY <1>1, <1>2, <1>3, <1>4, <1>5, <1>6, <1>7 DEF Next, Proceed

(* A destroyed session starts neither again: every operation it starts is  *)
(* of another kind.                                                        *)
LEMMA NothingArmed ==
  ASSUME Types, [Next]_vars, status = "DESTROY", status' = "DESTROY", NEW j \in IdleOps
  PROVE  ops'["waiting"][j] <= ops["waiting"][j]
<1> USE KindsFacts
<1>o. /\ IsOps(ops, Kinds) /\ j \in Kinds /\ j \notin OutOps
      /\ j # "connect" /\ j # "handshake" /\ ops["waiting"][j] \in Nat
  BY DEF Types, IdleOps, IsOps, OutOps
<1>r. ASSUME NEW k \in Kinds, NEW p \in Phase, ops[p][k] > 0, ops' = Remove(ops, k, p)
      PROVE  ops'["waiting"][j] <= ops["waiting"][j]
  BY <1>o, <1>r, RemoveWaiting
<1>1. CASE Resolved
  <2> DEFINE o == Remove(ops, "resolve", "ready")
  <2>1. IsOps(o, Kinds) /\ o["waiting"][j] <= ops["waiting"][j]
    BY <1>o, <1>1, RemoveType, RemoveWaiting DEF Resolved
  <2>2. ops' = o \/ ops' \in Begin(o, "connect", TRUE, TRUE)
    BY <1>1 DEF Resolved, Destroy
  <2> HIDE DEF o
  <2>3. ops' \in Begin(o, "connect", TRUE, TRUE) => ops'["waiting"][j] = o["waiting"][j]
    <3>1. ops' \in Begin(o, "connect", TRUE, TRUE) => \E p \in Phase : ops' = Add(o, "connect", p)
      BY DEF Begin
    <3>2. "connect" \in OutOps
      OBVIOUS
    <3> QED
      BY <2>1, <3>1, <3>2, AddIdle
  <2> QED
    BY <2>1, <2>2, <2>3
<1>2. CASE Connected
  <2>1. PICK o \in Completed(ops, "connect") : ops' \in Begin(o, "handshake", out_open, FALSE)
    BY <1>2 DEF Connected
  <2>2. IsOps(o, Kinds) /\ o["waiting"][j] <= ops["waiting"][j]
    BY <1>o, CompletedType, CompletedWaiting
  <2>3. ops'["waiting"][j] = o["waiting"][j]
    <3>1. ops' \in Begin(o, "handshake", out_open, FALSE) => \E p \in Phase : ops' = Add(o, "handshake", p)
      BY DEF Begin
    <3>2. "handshake" \in OutOps
      OBVIOUS
    <3> QED
      BY <2>1, <2>2, <3>1, <3>2, AddIdle
  <2> QED
    BY <2>2, <2>3
<1>3. CASE TimedOut
  BY <1>3, <1>r DEF TimedOut, Destroy
<1>4. CASE Fail
  <2>1. PICK k \in {"resolve", "connect", "handshake", "out_read", "out_write"},
             p \in {"waiting", "failed", "aborted"} :
          ops[p][k] > 0 /\ Destroy(Remove(ops, k, p))
    BY <1>4 DEF Fail
  <2> QED
    BY <1>r, <2>1 DEF Destroy
<1>5. CASE Dropped
  BY <1>5, <1>r DEF Dropped
<1>6. CASE IgnoreAbort
  BY <1>6, <1>r DEF IgnoreAbort
<1>7. CASE ShutdownDone
  <2>1. PICK k \in {"shutdown", "timer"} : \E o \in Completed(ops, k) :
          ops' = Cancel(o, OutOps \cup {"timer"})
    BY <1>7 DEF ShutdownDone
  <2>2. PICK o \in Completed(ops, k) : ops' = Cancel(o, OutOps \cup {"timer"})
    BY <2>1
  <2>3. IsOps(o, Kinds) /\ o["waiting"][j] <= ops["waiting"][j]
    BY <1>o, CompletedType, CompletedWaiting
  <2>4. ops'["waiting"][j] = o["waiting"][j]
    <3>1. j # "timer"
      BY DEF IdleOps
    <3> QED
      BY <1>o, <2>2, <2>3, <3>1, CancelLive
  <2> QED
    BY <2>3, <2>4
<1>8. CASE Perform
  <2>1. PICK k \in Kinds : ops["waiting"][k] > 0 /\ ops' = Add(Remove(ops, k, "waiting"), k, "ready")
    BY <1>8 DEF Perform
  <2> DEFINE o == Remove(ops, k, "waiting")
  <2>2. IsOps(o, Kinds) /\ o["waiting"][j] <= ops["waiting"][j]
    BY <1>o, <2>1, RemoveType, RemoveWaiting
  <2> HIDE DEF o
  <2>3. Add(o, k, "ready")["waiting"][j] = o["waiting"][j]
    BY <1>o, <2>2, AddWaiting
  <2> QED
    BY <2>1, <2>2, <2>3 DEF o
<1>9. CASE Established \/ OutRecv \/ OutSent
  BY <1>9 DEF Established, OutRecv, OutSent, Busy
<1>10. CASE Datagram
  BY <1>o, <1>10 DEF Datagram, FirstDatagram, Ignored, TakeSent, TakeBuffered
<1>11. CASE ServiceFails \/ UNCHANGED vars
  BY <1>o, <1>11 DEF ServiceFails, vars
<1> QED
  BY <1>1, <1>2, <1>3, <1>4, <1>5, <1>6, <1>7, <1>8, <1>9, <1>10, <1>11 DEF Next, Proceed

LEMMA ClosedStep ==
  ASSUME Types, Types', ClosedInv, [Next]_vars
  PROVE  ClosedInv'
<1> SUFFICES ASSUME status' = "DESTROY", NEW j \in IdleOps
             PROVE  ops'["waiting"][j] = 0
  BY DEF ClosedInv
<1>1. CASE status = "DESTROY"
  <2>1. ops'["waiting"][j] <= 0
    BY <1>1, NothingArmed DEF ClosedInv
  <2>2. ops'["waiting"][j] \in Nat
    BY KindsFacts DEF Types, IsOps, IdleOps
  <2> QED
    BY <2>1, <2>2
<1>2. CASE status # "DESTROY"
  BY <1>2, WhoDestroys, DestroyQuiets
<1> QED
  BY <1>1, <1>2

(* Every reachable state is well typed: no operation count ever becomes    *)
(* negative; and a destroyed session waits for no resolver and no idle     *)
(* timer, whichever handler destroyed it and whatever came afterwards.     *)
THEOREM TypeCorrect == Spec => []TypeOK
<1>1. SafetyInv => Types
  BY DEF SafetyInv
<1>2. Init => ClosedInv
  BY KindsFacts DEF Init, ClosedInv, IdleOps, NoOps
<1>3. Types /\ Types' /\ ClosedInv /\ [Next]_vars => ClosedInv'
  BY ClosedStep
<1>4. Types /\ ClosedInv => TypeOK
  BY DEF TypeOK, ClosedInv, IdleOps
<1> QED
  BY <1>1, <1>2, <1>3, <1>4, SafetyInit, SafetyStep, PTL DEF Spec

(* However many datagrams come, and whenever: what reaches the tunnel is   *)
(* the request and the datagrams in their order, none lost and none twice. *)
THEOREM DatagramsInOrder == Spec => []UplinkInOrder
<1>1. SafetyInv => UplinkInOrder
  BY DEF SafetyInv
<1> QED
  BY <1>1, SafetyInit, SafetyStep, PTL DEF Spec

(* FORWARDING says that a write is in progress and FORWARD that none is,   *)
(* even in a session that a handshake brings back after destroy().         *)
THEOREM WritesNeverOverlap == Spec => []OneWrite
<1>1. SafetyInv => OneWrite
  <2> SUFFICES ASSUME SafetyInv PROVE OneWrite
    OBVIOUS
  <2>1. Writes(ops) = Live("out_write") + ops["aborted"]["out_write"]
    BY DEF Writes, Pending, Live
  <2>2. Live("out_write") \in Nat /\ ops["aborted"]["out_write"] \in Nat
    BY KindsFacts, TypedFacts, OutstandingNat DEF Live, IsOps
  <2>3. /\ Writes(ops) <= 1
        /\ status = "FORWARD" => Writes(ops) = 0 /\ out_write_buf = << >>
        /\ status = "FORWARDING" => Writes(ops) = 1
    BY DEF SafetyInv, SessionInv
  <2> QED
    BY <2>1, <2>2, <2>3 DEF OneWrite
<1> QED
  BY <1>1, SafetyInit, SafetyStep, PTL DEF Spec

(* A session that destroy() has not ended has its idle time-out pending,   *)
(* one wait however often a datagram or a packet put it off.               *)
THEOREM IdleTimerPending == Spec => []IdleTimer
<1>1. SafetyInv => IdleTimer
  BY DEF SafetyInv
<1> QED
  BY <1>1, SafetyInit, SafetyStep, PTL DEF Spec
=============================================================================
