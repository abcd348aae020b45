----------------------------- MODULE AsioProofs -----------------------------
(* What the operators of Asio do to an operation table, for every set of   *)
(* kinds: the lemmas the proofs about the sessions cite.                   *)
EXTENDS Asio, SequenceTheorems, TLAPS

(* Taking an operation off a phase that has one.                           *)
LEMMA RemoveType ==
  ASSUME NEW Kind, NEW o, IsOps(o, Kind), NEW k \in Kind, NEW p \in Phase, o[p][k] > 0
  PROVE  IsOps(Remove(o, k, p), Kind)
BY DEF IsOps, Remove

(* Adding an operation.                                                    *)
LEMMA AddType ==
  ASSUME NEW Kind, NEW o, IsOps(o, Kind), NEW k \in Kind, NEW p \in Phase
  PROVE  IsOps(Add(o, k, p), Kind)
BY DEF IsOps, Add

(* The empty table.                                                        *)
LEMMA NoOpsType ==
  ASSUME NEW Kind
  PROVE  IsOps(NoOps(Kind), Kind)
BY DEF IsOps, NoOps

(* Starting an operation adds it in one of the phases.                     *)
LEMMA BeginType ==
  ASSUME NEW Kind, NEW o, IsOps(o, Kind), NEW k \in Kind, NEW open, NEW atOnce,
         NEW r \in Begin(o, k, open, atOnce)
  PROVE  IsOps(r, Kind)
BY AddType DEF Begin, Phase

(* A handler that runs has an operation to take off.                       *)
LEMMA CompletedType ==
  ASSUME NEW Kind, NEW o, IsOps(o, Kind), NEW k \in Kind, NEW r \in Completed(o, k)
  PROVE  IsOps(r, Kind)
BY RemoveType DEF Completed, Phase

(* Cancelling moves operations from one phase to another.                  *)
LEMMA CancelType ==
  ASSUME NEW Kind, NEW o, IsOps(o, Kind), NEW S
  PROVE  IsOps(Cancel(o, S), Kind)
<1>1. /\ o["waiting"] \in [Kind -> Nat] /\ o["aborted"] \in [Kind -> Nat]
      /\ DOMAIN o = Phase
  BY DEF IsOps, Phase
<1>2. [k \in DOMAIN o["waiting"] |-> IF k \in S THEN 0 ELSE o["waiting"][k]] \in [Kind -> Nat]
  BY <1>1
<1>3. [k \in DOMAIN o["aborted"] |-> IF k \in S THEN o["aborted"][k] + o["waiting"][k]
                                              ELSE o["aborted"][k]] \in [Kind -> Nat]
  BY <1>1
<1> QED
  BY <1>1, <1>2, <1>3 DEF IsOps, Cancel, Phase

(* How many operations of each kind are outstanding afterwards.            *)
LEMMA AddLive ==
  ASSUME NEW Kind, NEW o, IsOps(o, Kind), NEW k \in Kind, NEW p \in Phase \ {"aborted"},
         NEW j \in Kind
  PROVE  Outstanding(Add(o, k, p), j) = IF j = k THEN Outstanding(o, j) + 1 ELSE Outstanding(o, j)
BY DEF IsOps, Add, Outstanding, Phase

LEMMA RemoveLive ==
  ASSUME NEW Kind, NEW o, IsOps(o, Kind), NEW k \in Kind, NEW p \in Phase \ {"aborted"},
         NEW j \in Kind
  PROVE  Outstanding(Remove(o, k, p), j) = IF j = k THEN Outstanding(o, j) - 1 ELSE Outstanding(o, j)
BY DEF IsOps, Remove, Outstanding, Phase

LEMMA BeginLive ==
  ASSUME NEW Kind, NEW o, IsOps(o, Kind), NEW k \in Kind, NEW open, NEW atOnce,
         NEW r \in Begin(o, k, open, atOnce), NEW j \in Kind
  PROVE  /\ Outstanding(r, j) = IF j = k THEN Outstanding(o, j) + 1 ELSE Outstanding(o, j)
         /\ r["aborted"][j] = o["aborted"][j]
         /\ j # k => \A p \in Phase : r[p][j] = o[p][j]
         /\ open => r["failed"][j] = o["failed"][j]
<1>1. PICK p \in Phase \ {"aborted"} : r = Add(o, k, p) /\ (open => p # "failed")
  BY DEF Begin, Phase
<1>2. \A q \in Phase : r[q][j] = IF q = p /\ j = k THEN o[q][j] + 1 ELSE o[q][j]
  BY <1>1 DEF IsOps, Add, Phase
<1>3. p # "aborted" /\ "aborted" \in Phase /\ "failed" \in Phase
  BY <1>1 DEF Phase
<1> QED
  BY <1>1, <1>2, <1>3, AddLive

LEMMA BeginStarts ==
  ASSUME NEW Kind, NEW o, IsOps(o, Kind), NEW k \in Kind, NEW open, NEW atOnce,
         NEW r \in Begin(o, k, open, atOnce)
  PROVE  \A j \in Kind :
           /\ Outstanding(r, j) = IF j = k THEN Outstanding(o, j) + 1 ELSE Outstanding(o, j)
           /\ j # k => r["failed"][j] = o["failed"][j]
BY BeginLive DEF Phase

LEMMA AddFailed ==
  ASSUME NEW Kind, NEW o, IsOps(o, Kind), NEW k \in Kind, NEW p \in {"waiting", "ready"}
  PROVE  \A j \in Kind : Add(o, k, p)["failed"][j] = o["failed"][j]
BY DEF Add, IsOps, Phase

LEMMA CompletedLive ==
  ASSUME NEW Kind, NEW o, IsOps(o, Kind), NEW k \in Kind, NEW r \in Completed(o, k),
         NEW j \in Kind
  PROVE  /\ Outstanding(r, j) = IF j = k THEN Outstanding(o, j) - 1 ELSE Outstanding(o, j)
         /\ Outstanding(o, k) > 0
         /\ j # k => \A p \in Phase : r[p][j] = o[p][j]
         /\ r["failed"][j] = o["failed"][j] /\ r["aborted"][j] = o["aborted"][j]
         /\ r["waiting"][j] <= o["waiting"][j] /\ r["ready"][j] <= o["ready"][j]
<1>1. PICK p \in {"waiting", "ready"} : o[p][k] > 0 /\ r = Remove(o, k, p)
  BY DEF Completed
<1>2. Outstanding(o, k) > 0
  BY <1>1 DEF Outstanding, IsOps, Phase
<1>3. \A q \in Phase : r[q][j] = IF q = p /\ j = k THEN o[q][j] - 1 ELSE o[q][j]
  BY <1>1 DEF IsOps, Remove, Phase
<1>4. \A q \in Phase : o[q][j] \in Nat
  BY DEF IsOps
<1>5. p \in Phase \ {"aborted"} /\ {"waiting", "ready", "failed", "aborted"} \subseteq Phase
  BY <1>1 DEF Phase
<1>6. /\ r["failed"][j] = o["failed"][j] /\ r["aborted"][j] = o["aborted"][j]
      /\ r["waiting"][j] <= o["waiting"][j] /\ r["ready"][j] <= o["ready"][j]
  BY <1>1, <1>3, <1>4, <1>5
<1> QED
  BY <1>1, <1>2, <1>3, <1>5, <1>6, RemoveLive

LEMMA CancelLive ==
  ASSUME NEW Kind, NEW o, IsOps(o, Kind), NEW S, NEW j \in Kind
  PROVE  /\ Cancel(o, S)["ready"] = o["ready"] /\ Cancel(o, S)["failed"] = o["failed"]
         /\ Cancel(o, S)["waiting"][j] = IF j \in S THEN 0 ELSE o["waiting"][j]
         /\ Outstanding(Cancel(o, S), j) =
               IF j \in S THEN o["ready"][j] + o["failed"][j] ELSE Outstanding(o, j)
<1>1. /\ DOMAIN o = Phase /\ DOMAIN o["waiting"] = Kind
      /\ o["waiting"][j] \in Nat /\ o["ready"][j] \in Nat /\ o["failed"][j] \in Nat
  BY DEF IsOps, Phase
<1>2. /\ Cancel(o, S)["ready"] = o["ready"] /\ Cancel(o, S)["failed"] = o["failed"]
      /\ Cancel(o, S)["waiting"] =
           [k \in Kind |-> IF k \in S THEN 0 ELSE o["waiting"][k]]
  BY <1>1 DEF Cancel, Phase
<1> QED
  BY <1>1, <1>2 DEF Outstanding


LEMMA OutstandingNat ==
  ASSUME NEW Kind, NEW o, IsOps(o, Kind), NEW j \in Kind
  PROVE  Outstanding(o, j) \in Nat
BY DEF IsOps, Outstanding, Phase

(* A handler that starts one operation of another kind.                    *)
LEMMA Exchange ==
  ASSUME NEW Kind, NEW o, IsOps(o, Kind), NEW a \in Kind, NEW b \in Kind, a # b,
         NEW open, NEW atOnce, NEW c \in Completed(o, a),
         NEW r \in Begin(c, b, open, atOnce), NEW j \in Kind
  PROVE  /\ Outstanding(r, j) = IF j = a THEN Outstanding(o, j) - 1
                                ELSE IF j = b THEN Outstanding(o, j) + 1
                                ELSE Outstanding(o, j)
         /\ Outstanding(o, a) > 0
         /\ open \/ j # b => r["failed"][j] = o["failed"][j]
         /\ j \notin {a, b} => \A p \in Phase : r[p][j] = o[p][j]
<1>1. IsOps(c, Kind) /\ "failed" \in Phase
  BY CompletedType DEF Phase
<1> QED
  BY <1>1, CompletedLive, BeginLive

(* The operations of kind k whose handler has not run, cancelled or not:   *)
(* cancelling does not change their number.                                *)
Pending(o, k) == Outstanding(o, k) + o["aborted"][k]

LEMMA PendingNat ==
  ASSUME NEW Kind, NEW o, IsOps(o, Kind), NEW j \in Kind
  PROVE  Pending(o, j) \in Nat
BY DEF IsOps, Outstanding, Pending, Phase

(* Adding, removing, starting and completing change the number of the      *)
(* operations of one kind by one.                                          *)
LEMMA AddPending ==
  ASSUME NEW Kind, NEW o, IsOps(o, Kind), NEW k \in Kind, NEW p \in Phase, NEW j \in Kind
  PROVE  Pending(Add(o, k, p), j) = IF j = k THEN Pending(o, j) + 1 ELSE Pending(o, j)
BY DEF IsOps, Add, Outstanding, Pending, Phase

LEMMA RemovePending ==
  ASSUME NEW Kind, NEW o, IsOps(o, Kind), NEW k \in Kind, NEW p \in Phase, NEW j \in Kind
  PROVE  Pending(Remove(o, k, p), j) = IF j = k THEN Pending(o, j) - 1 ELSE Pending(o, j)
BY DEF IsOps, Remove, Outstanding, Pending, Phase

LEMMA BeginPending ==
  ASSUME NEW Kind, NEW o, IsOps(o, Kind), NEW k \in Kind, NEW open, NEW atOnce,
         NEW r \in Begin(o, k, open, atOnce), NEW j \in Kind
  PROVE  Pending(r, j) = IF j = k THEN Pending(o, j) + 1 ELSE Pending(o, j)
BY AddPending DEF Begin, Phase

LEMMA CompletedPending ==
  ASSUME NEW Kind, NEW o, IsOps(o, Kind), NEW k \in Kind, NEW r \in Completed(o, k),
         NEW j \in Kind
  PROVE  Pending(r, j) = IF j = k THEN Pending(o, j) - 1 ELSE Pending(o, j)
BY RemovePending DEF Completed, Phase

(* Cancelling keeps every number, and what is outstanding only decreases.  *)
LEMMA CancelPending ==
  ASSUME NEW Kind, NEW o, IsOps(o, Kind), NEW S, NEW j \in Kind
  PROVE  /\ Pending(Cancel(o, S), j) = Pending(o, j)
         /\ Outstanding(Cancel(o, S), j) <= Outstanding(o, j)
         /\ j \notin S => \A p \in Phase : Cancel(o, S)[p][j] = o[p][j]
<1>1. /\ DOMAIN o = Phase /\ DOMAIN o["waiting"] = Kind /\ DOMAIN o["aborted"] = Kind
      /\ o["waiting"][j] \in Nat /\ o["ready"][j] \in Nat /\ o["failed"][j] \in Nat
      /\ o["aborted"][j] \in Nat
  BY DEF IsOps, Phase
<1>2. /\ Cancel(o, S)["ready"] = o["ready"] /\ Cancel(o, S)["failed"] = o["failed"]
      /\ Cancel(o, S)["waiting"] = [k \in Kind |-> IF k \in S THEN 0 ELSE o["waiting"][k]]
      /\ Cancel(o, S)["aborted"] =
           [k \in Kind |-> IF k \in S THEN o["aborted"][k] + o["waiting"][k]
                                      ELSE o["aborted"][k]]
  BY <1>1 DEF Cancel, Phase
<1>3. /\ Cancel(o, S)["waiting"][j] = IF j \in S THEN 0 ELSE o["waiting"][j]
      /\ Cancel(o, S)["aborted"][j] = IF j \in S THEN o["aborted"][j] + o["waiting"][j]
                                                 ELSE o["aborted"][j]
  BY <1>2
<1> QED
  BY <1>1, <1>2, <1>3 DEF Outstanding, Pending, Phase

(* Only the start of an operation of a kind makes more of that kind wait.  *)
LEMMA RemoveWaiting ==
  ASSUME NEW Kind, NEW o, IsOps(o, Kind), NEW k \in Kind, NEW p \in Phase, NEW j \in Kind
  PROVE  Remove(o, k, p)["waiting"][j] <= o["waiting"][j]
BY DEF IsOps, Remove, Phase

LEMMA CompletedWaiting ==
  ASSUME NEW Kind, NEW o, IsOps(o, Kind), NEW k \in Kind, NEW r \in Completed(o, k),
         NEW j \in Kind
  PROVE  r["waiting"][j] <= o["waiting"][j]
BY RemoveWaiting DEF Completed, Phase

LEMMA AddWaiting ==
  ASSUME NEW Kind, NEW o, IsOps(o, Kind), NEW k \in Kind, NEW p \in Phase, NEW j \in Kind,
         j # k \/ p # "waiting"
  PROVE  Add(o, k, p)["waiting"][j] = o["waiting"][j]
BY DEF IsOps, Add, Phase

LEMMA BeginWaiting ==
  ASSUME NEW Kind, NEW o, IsOps(o, Kind), NEW k \in Kind, NEW open, NEW atOnce,
         NEW r \in Begin(o, k, open, atOnce), NEW j \in Kind, j # k
  PROVE  r["waiting"][j] = o["waiting"][j]
BY AddWaiting DEF Begin, Phase

-----------------------------------------------------------------------------
(* The streams of numbered pieces the sessions relay: 1, 2... n, and the    *)
(* same behind the request, 0.                                              *)
Count(n) == [i \in 1..n |-> i]

Numbered(n) == [i \in 1..(n + 1) |-> i - 1]

LEMMA ConcatInt ==
  ASSUME NEW a \in Seq(Int), NEW b \in Seq(Int)
  PROVE  /\ a \o b \in Seq(Int) /\ Len(a \o b) = Len(a) + Len(b)
         /\ \A i \in 1..(Len(a) + Len(b)) :
              (a \o b)[i] = IF i <= Len(a) THEN a[i] ELSE b[i - Len(a)]
BY ConcatProperties

LEMMA ConcatThree ==
  ASSUME NEW a \in Seq(Int), NEW b \in Seq(Int), NEW c \in Seq(Int)
  PROVE  (a \o b) \o c = a \o (b \o c)
BY ConcatAssociative

LEMMA CountFacts ==
  ASSUME NEW n \in Nat
  PROVE  /\ Count(n) \in Seq(Int) /\ Len(Count(n)) = n
         /\ \A i \in 1..n : Count(n)[i] = i
<1>1. Count(n) \in [1..n -> Int]
  BY DEF Count
<1> QED
  BY <1>1 DEF Count

LEMMA CountNext ==
  ASSUME NEW n \in Nat
  PROVE  Append(Count(n), n + 1) = Count(n + 1)
<1>1. Count(n) \in Seq(Int) /\ Len(Count(n)) = n /\ n + 1 \in Int /\ n + 1 \in Nat
  BY CountFacts
<1>2. /\ Append(Count(n), n + 1) \in Seq(Int) /\ Len(Append(Count(n), n + 1)) = n + 1
      /\ \A i \in 1..n : Append(Count(n), n + 1)[i] = Count(n)[i]
      /\ Append(Count(n), n + 1)[n + 1] = n + 1
  BY <1>1, AppendProperties
<1>3. Count(n + 1) \in Seq(Int) /\ Len(Count(n + 1)) = n + 1
  BY <1>1, CountFacts
<1>4. ASSUME NEW i \in 1..(n + 1) PROVE Append(Count(n), n + 1)[i] = Count(n + 1)[i]
  <2>1. Count(n + 1)[i] = i
    BY DEF Count
  <2>2. CASE i = n + 1
    BY <1>2, <2>1, <2>2
  <2>3. CASE i \in 1..n
    BY <1>2, <2>1, <2>3, CountFacts
  <2>4. i = n + 1 \/ i \in 1..n
    OBVIOUS
  <2> QED
    BY <2>2, <2>3, <2>4
<1> QED
  BY <1>2, <1>3, <1>4, SeqEqual

(* The pieces m + 1 to n behind the first m.                               *)
LEMMA CountJoin ==
  ASSUME NEW m \in Nat, NEW n \in Nat, m <= n
  PROVE  /\ [i \in 1..(n - m) |-> m + i] \in Seq(Int)
         /\ Count(m) \o [i \in 1..(n - m) |-> m + i] = Count(n)
<1> DEFINE rest == [i \in 1..(n - m) |-> m + i]
<1>1. rest \in [1..(n - m) -> Int] /\ n - m \in Nat
  OBVIOUS
<1>2. rest \in Seq(Int) /\ Len(rest) = n - m /\ \A i \in 1..(n - m) : rest[i] = m + i
  BY <1>1
<1> HIDE DEF rest
<1>3. Count(m) \in Seq(Int) /\ Len(Count(m)) = m /\ \A i \in 1..m : Count(m)[i] = i
  BY CountFacts
<1>4. /\ Count(m) \o rest \in Seq(Int) /\ Len(Count(m) \o rest) = m + (n - m)
      /\ \A i \in 1..(m + (n - m)) :
           (Count(m) \o rest)[i] = IF i <= m THEN Count(m)[i] ELSE rest[i - m]
  <2> DEFINE first == Count(m)
  <2>1. first \in Seq(Int) /\ Len(first) = m
    BY <1>3
  <2> HIDE DEF first
  <2>2. /\ first \o rest \in Seq(Int) /\ Len(first \o rest) = Len(first) + Len(rest)
        /\ \A i \in 1..(Len(first) + Len(rest)) :
             (first \o rest)[i] = IF i <= Len(first) THEN first[i] ELSE rest[i - Len(first)]
    BY <1>2, <2>1, ConcatInt
  <2> QED
    BY <1>2, <2>1, <2>2 DEF first
<1>5. Count(n) \in Seq(Int) /\ Len(Count(n)) = n /\ \A i \in 1..n : Count(n)[i] = i
  BY CountFacts
<1>6. m + (n - m) = n
  OBVIOUS
<1>7. ASSUME NEW i \in 1..n PROVE (Count(m) \o rest)[i] = Count(n)[i]
  <2>1. CASE i <= m
    BY <1>3, <1>4, <1>5, <1>6, <2>1
  <2>2. CASE i > m
    <3>1. i - m \in 1..(n - m) /\ m + (i - m) = i
      BY <2>2
    <3>2. (Count(m) \o rest)[i] = rest[i - m]
      BY <1>4, <1>6, <2>2
    <3> QED
      BY <1>2, <1>5, <3>1, <3>2
  <2>3. i <= m \/ i > m
    OBVIOUS
  <2> QED
    BY <2>1, <2>2, <2>3
<1>8. Count(m) \o rest = Count(n)
  BY <1>4, <1>5, <1>6, <1>7, SeqEqual
<1> QED
  BY <1>2, <1>8 DEF rest

(* The first of what waits goes to the end of what was sent.               *)
LEMMA HeadMoves ==
  ASSUME NEW s \in Seq(Int), NEW t \in Seq(Int), t # << >>
  PROVE  /\ Append(s, Head(t)) \o Tail(t) = s \o t
         /\ Append(s, Head(t)) \in Seq(Int) /\ Tail(t) \in Seq(Int) /\ Head(t) \in Int
<1>1. Head(t) \in Int /\ Tail(t) \in Seq(Int)
  BY HeadTailProperties
<1> DEFINE h == <<Head(t)>>
<1>2. h \in Seq(Int)
  BY <1>1
<1>3. Append(s, Head(t)) = s \o h /\ Append(s, Head(t)) \in Seq(Int)
  BY <1>1, AppendIsConcat, AppendProperties
<1>4. h \o Tail(t) = t
  <2>1. Len(h) = 1 /\ h[1] = t[1]
    BY <1>1
  <2>2. Len(t) \in Nat /\ Len(t) # 0
    BY EmptySeq
  <2>3. Len(Tail(t)) = Len(t) - 1 /\ \A i \in 1..(Len(t) - 1) : Tail(t)[i] = t[i + 1]
    BY HeadTailProperties
  <2> HIDE DEF h
  <2>k. /\ h \o Tail(t) \in Seq(Int) /\ Len(h \o Tail(t)) = Len(h) + Len(Tail(t))
        /\ \A i \in 1..(Len(h) + Len(Tail(t))) :
             (h \o Tail(t))[i] = IF i <= Len(h) THEN h[i] ELSE Tail(t)[i - Len(h)]
    BY <1>1, <1>2, ConcatInt
  <2>m. Len(h) + Len(Tail(t)) = Len(t)
    BY <2>1, <2>2, <2>3
  <2>4. /\ h \o Tail(t) \in Seq(Int) /\ Len(h \o Tail(t)) = Len(t)
        /\ \A i \in 1..Len(t) :
             (h \o Tail(t))[i] = IF i <= 1 THEN h[i] ELSE Tail(t)[i - 1]
    BY <2>1, <2>k, <2>m
  <2>5. ASSUME NEW i \in 1..Len(t) PROVE (h \o Tail(t))[i] = t[i]
    <3>1. CASE i = 1
      BY <2>1, <2>2, <2>4, <3>1
    <3>2. CASE i > 1
      <4>1. i - 1 \in 1..(Len(t) - 1) /\ (i - 1) + 1 = i
        BY <2>2, <3>2
      <4>2. (h \o Tail(t))[i] = Tail(t)[i - 1]
        BY <2>4, <3>2, <4>1
      <4> QED
        BY <2>3, <4>1, <4>2
    <3>3. i = 1 \/ i > 1
      BY <2>2
    <3> QED
      BY <3>1, <3>2, <3>3
  <2> QED
    BY <2>4, <2>5, SeqEqual
<1> HIDE DEF h
<1>5. (s \o h) \o Tail(t) = s \o (h \o Tail(t))
  BY <1>1, <1>2, ConcatThree
<1> QED
  BY <1>1, <1>3, <1>4, <1>5

(* What comes next in a stream that is cut in two.                         *)
LEMMA HeadCounts ==
  ASSUME NEW s \in Seq(Int), NEW t \in Seq(Int), NEW n \in Nat, s \o t = Count(n)
  PROVE  /\ Len(s) + Len(t) = n
         /\ t # << >> => Head(t) = Len(s) + 1 /\ Len(s) < n
<1>1. Len(s) \in Nat /\ Len(t) \in Nat
  BY LenProperties
<1>2. Len(Count(n)) = n /\ \A i \in 1..n : Count(n)[i] = i
  BY CountFacts
<1>3. /\ Len(s \o t) = Len(s) + Len(t)
      /\ \A i \in 1..(Len(s) + Len(t)) : (s \o t)[i] = IF i <= Len(s) THEN s[i] ELSE t[i - Len(s)]
  BY ConcatInt
<1>4. Len(s) + Len(t) = n
  BY <1>2, <1>3
<1>5. ASSUME t # << >> PROVE Head(t) = Len(s) + 1 /\ Len(s) < n
  <2>1. Len(t) > 0
    BY <1>1, <1>5, EmptySeq
  <2>2. Len(s) + 1 \in 1..n /\ (Len(s) + 1) - Len(s) = 1 /\ ~ (Len(s) + 1 <= Len(s))
    BY <1>1, <1>4, <2>1
  <2>3. (s \o t)[Len(s) + 1] = t[1]
    BY <1>3, <1>4, <2>2
  <2>4. Head(t) = t[1]
    BY <1>5
  <2> QED
    BY <1>2, <2>2, <2>3, <2>4
<1> QED
  BY <1>4, <1>5

LEMMA NumberedFacts ==
  ASSUME NEW n \in Nat
  PROVE  /\ Numbered(n) \in Seq(Int) /\ Len(Numbered(n)) = n + 1 /\ Numbered(n) # << >>
         /\ \A i \in 1..(n + 1) : Numbered(n)[i] = i - 1
<1>1. Numbered(n) \in [1..(n + 1) -> Int] /\ n + 1 \in Nat
  BY DEF Numbered
<1>2. Numbered(n) \in Seq(Int) /\ Len(Numbered(n)) = n + 1
  BY <1>1
<1>3. \A i \in 1..(n + 1) : Numbered(n)[i] = i - 1
  BY DEF Numbered
<1> QED
  BY <1>2, <1>3, EmptySeq

(* The next piece at the end of a stream.                                  *)
LEMMA NumberedNext ==
  ASSUME NEW n \in Nat
  PROVE  Append(Numbered(n), n + 1) = Numbered(n + 1)
<1>1. Numbered(n) \in Seq(Int) /\ Len(Numbered(n)) = n + 1 /\ n + 1 \in Int /\ n + 1 \in Nat
  BY NumberedFacts
<1>2. /\ Append(Numbered(n), n + 1) \in Seq(Int) /\ Len(Append(Numbered(n), n + 1)) = n + 2
      /\ \A i \in 1..(n + 1) : Append(Numbered(n), n + 1)[i] = Numbered(n)[i]
      /\ Append(Numbered(n), n + 1)[n + 2] = n + 1
  BY <1>1, AppendProperties
<1>3. Numbered(n + 1) \in Seq(Int) /\ Len(Numbered(n + 1)) = n + 2
  BY <1>1, NumberedFacts
<1>4. ASSUME NEW i \in 1..(n + 2) PROVE Append(Numbered(n), n + 1)[i] = Numbered(n + 1)[i]
  <2>1. Numbered(n + 1)[i] = i - 1
    BY DEF Numbered
  <2>2. CASE i = n + 2
    BY <1>2, <2>1, <2>2
  <2>3. CASE i \in 1..(n + 1)
    BY <1>2, <2>1, <2>3, NumberedFacts
  <2>4. i = n + 2 \/ i \in 1..(n + 1)
    OBVIOUS
  <2> QED
    BY <2>2, <2>3, <2>4
<1> QED
  BY <1>2, <1>3, <1>4, SeqEqual

(* The request alone, the request and the pieces behind it, and the pieces *)
(* m + 1 to n behind the first m.                                          *)
LEMMA NumberedFirst == Numbered(0) = <<0>>
<1>1. Numbered(0) \in Seq(Int) /\ Len(Numbered(0)) = 1 /\ Numbered(0)[1] = 0
  <2>1. 0 \in Nat /\ 0 + 1 = 1 /\ 1 \in 1..(0 + 1) /\ 1 - 1 = 0
    OBVIOUS
  <2>2. Numbered(0) \in Seq(Int) /\ Len(Numbered(0)) = 0 + 1 /\ Numbered(0)[1] = 1 - 1
    BY <2>1, NumberedFacts
  <2> QED
    BY <2>1, <2>2
<1>2. <<0>> \in Seq(Int) /\ Len(<<0>>) = 1 /\ <<0>>[1] = 0
  OBVIOUS
<1> QED
  BY <1>1, <1>2, SeqEqual

LEMMA NumberedSplit ==
  ASSUME NEW n \in Nat
  PROVE  Numbered(n) = <<0>> \o Count(n)
<1> DEFINE z == <<0>>
           c == Count(n)
<1>1. z \in Seq(Int) /\ Len(z) = 1 /\ z[1] = 0
  OBVIOUS
<1>2. c \in Seq(Int) /\ Len(c) = n /\ \A i \in 1..n : c[i] = i
  BY CountFacts
<1>3. Numbered(n) \in Seq(Int) /\ Len(Numbered(n)) = n + 1 /\ \A i \in 1..(n + 1) : Numbered(n)[i] = i - 1
  BY NumberedFacts
<1> HIDE DEF z, c
<1>4. /\ z \o c \in Seq(Int) /\ Len(z \o c) = n + 1
      /\ \A i \in 1..(n + 1) : (z \o c)[i] = IF i <= 1 THEN z[i] ELSE c[i - 1]
  <2>1. Len(z) + Len(c) = n + 1
    BY <1>1, <1>2
  <2>2. /\ z \o c \in Seq(Int) /\ Len(z \o c) = Len(z) + Len(c)
        /\ \A i \in 1..(Len(z) + Len(c)) :
             (z \o c)[i] = IF i <= Len(z) THEN z[i] ELSE c[i - Len(z)]
    BY <1>1, <1>2, ConcatInt
  <2> QED
    BY <1>1, <2>1, <2>2
<1>5. ASSUME NEW i \in 1..(n + 1) PROVE (z \o c)[i] = Numbered(n)[i]
  <2>1. CASE i = 1
    BY <1>1, <1>3, <1>4, <2>1
  <2>2. CASE i > 1
    <3>1. i - 1 \in 1..n /\ ~ (i <= 1)
      BY <2>2
    <3>2. (z \o c)[i] = c[i - 1]
      BY <1>4, <3>1
    <3>3. c[i - 1] = i - 1
      BY <1>2, <3>1
    <3> QED
      BY <1>3, <3>2, <3>3
  <2>3. i = 1 \/ i > 1
    OBVIOUS
  <2> QED
    BY <2>1, <2>2, <2>3
<1>6. z \o c = Numbered(n)
  BY <1>3, <1>4, <1>5, SeqEqual
<1> QED
  BY <1>6 DEF z, c

LEMMA NumberedJoin ==
  ASSUME NEW m \in Nat, NEW n \in Nat, m <= n
  PROVE  /\ [i \in 1..(n - m) |-> m + i] \in Seq(Int)
         /\ Numbered(m) \o [i \in 1..(n - m) |-> m + i] = Numbered(n)
<1> DEFINE rest == [i \in 1..(n - m) |-> m + i]
           z == <<0>>
<1>1. rest \in Seq(Int) /\ Count(m) \o rest = Count(n)
  BY CountJoin
<1>2. Numbered(m) = z \o Count(m) /\ Numbered(n) = z \o Count(n)
  BY NumberedSplit
<1>3. z \in Seq(Int)
  OBVIOUS
<1>4. Count(m) \in Seq(Int)
  BY CountFacts
<1> HIDE DEF rest, z
<1>5. (z \o Count(m)) \o rest = z \o (Count(m) \o rest)
  BY <1>1, <1>3, <1>4, ConcatThree
<1>6. Numbered(m) \o rest = Numbered(n)
  BY <1>1, <1>2, <1>5
<1> QED
  BY <1>1, <1>6 DEF rest

(* In a stream that is cut in two the second part begins with the number   *)
(* of the pieces before it.                                                *)
LEMMA NumberedHead ==
  ASSUME NEW s \in Seq(Int), NEW t \in Seq(Int), NEW n \in Nat, s \o t = Numbered(n)
  PROVE  /\ Len(s) + Len(t) = n + 1
         /\ t # << >> => Head(t) = Len(s) /\ Len(s) <= n
<1>1. Len(s) \in Nat /\ Len(t) \in Nat
  BY LenProperties
<1>2. Len(Numbered(n)) = n + 1 /\ \A i \in 1..(n + 1) : Numbered(n)[i] = i - 1
  BY NumberedFacts
<1>3. /\ Len(s \o t) = Len(s) + Len(t)
      /\ \A i \in 1..(Len(s) + Len(t)) : (s \o t)[i] = IF i <= Len(s) THEN s[i] ELSE t[i - Len(s)]
  BY ConcatInt
<1>4. Len(s) + Len(t) = n + 1
  BY <1>2, <1>3
<1>5. ASSUME t # << >> PROVE Head(t) = Len(s) /\ Len(s) <= n
  <2>1. Len(t) > 0
    BY <1>1, <1>5, EmptySeq
  <2>2. Len(s) + 1 \in 1..(n + 1) /\ (Len(s) + 1) - Len(s) = 1 /\ ~ (Len(s) + 1 <= Len(s))
    BY <1>1, <1>4, <2>1
  <2>3. (s \o t)[Len(s) + 1] = t[1]
    BY <1>3, <1>4, <2>2
  <2>4. Head(t) = t[1]
    BY <1>5
  <2>5. Numbered(n)[Len(s) + 1] = (Len(s) + 1) - 1
    BY <1>2, <2>2
  <2> QED
    BY <1>1, <1>4, <2>1, <2>3, <2>4, <2>5
<1> QED
  BY <1>4, <1>5
=============================================================================
